--------------------------- MODULE MCStorageProofs ---------------------------
(***************************************************************************)
(* Proofs about what is kept, for any threads, names, numbers of updates   *)
(* and so on. What MCStorage does is, seen from one of its parts, a        *)
(* behaviour of that part: for each part an inductive invariant is proved  *)
(* of its specification, and the theorems at the end put together what     *)
(* these imply.                                                            *)
(***************************************************************************)
EXTENDS MCStorage, FiniteSetTheorems, SequenceTheorems, WellFoundedInduction,
    TLAPS

-----------------------------------------------------------------------------
(* A set of natural numbers has a least element: the intervals that end in *)
(* its elements are finite sets, which inclusion orders well.              *)
LEMMA Smallest ==
    ASSUME NEW S \in SUBSET Nat, S # {}
    PROVE  \E m \in S : \A n \in S : m <= n
<1> DEFINE below == {0 .. n : n \in S}
<1>1. below # {} /\ below \subseteq FiniteSubsetsOf(Nat)
  <2>1. ASSUME NEW n \in S PROVE 0 .. n \in FiniteSubsetsOf(Nat)
    <3>1. 0 .. n \subseteq Nat
      OBVIOUS
    <3>2. IsFiniteSet(0 .. n)
      BY FS_Interval
    <3> QED
      BY <3>1, <3>2 DEF FiniteSubsetsOf
  <2> QED
    BY <2>1
<1>2. \E b \in below : \A c \in below : <<c, b>> \notin StrictSubsetOrdering(Nat)
  <2> HIDE DEF below
  <2> QED
    BY <1>1, FS_StrictSubsetOrderingWellFounded, WFMin
<1>3. PICK m \in S : \A n \in S : <<0 .. n, 0 .. m>> \notin StrictSubsetOrdering(Nat)
  BY <1>2
<1>4. ASSUME NEW n \in S, n < m PROVE FALSE
  <2>1. 0 .. n \subseteq 0 .. m /\ 0 .. n # 0 .. m
    <3>1. n \in Nat /\ m \in Nat
      OBVIOUS
    <3>2. m \in 0 .. m /\ m \notin 0 .. n
      BY <1>4, <3>1
    <3>3. \A x \in 0 .. n : x \in 0 .. m
      BY <1>4, <3>1
    <3> QED
      BY <3>2, <3>3
  <2>2. 0 .. n \in SUBSET Nat /\ 0 .. m \in SUBSET Nat
    OBVIOUS
  <2> QED
    BY <1>3, <2>1, <2>2 DEF StrictSubsetOrdering
<1> QED
  BY <1>4

(* The places of a finite set can be counted up to every number there is:  *)
(* the least place up to which there are n or more has n.                  *)
LEMMA Enumerated ==
    ASSUME NEW size \in Nat, NEW S \in SUBSET (1 .. size), NEW n \in 1 .. Cardinality(S)
    PROVE  \E k \in S : Cardinality({l \in S : l <= k}) = n
<1> DEFINE below(k) == {l \in S : l <= k}
           enough == {k \in 0 .. size : n <= Cardinality(below(k))}
<1>1. IsFiniteSet(S) /\ Cardinality(S) \in Nat /\ n \in Nat /\ n > 0
  <2>1. IsFiniteSet(1 .. size)
    BY FS_Interval
  <2>2. IsFiniteSet(S)
    BY <2>1, FS_Subset
  <2>3. Cardinality(S) \in Nat
    BY <2>2, FS_CardinalityType
  <2> QED
    BY <2>2, <2>3
<1>2. \A k \in 0 .. size :
        IsFiniteSet(below(k)) /\ Cardinality(below(k)) \in Nat
  BY <1>1, FS_Subset, FS_CardinalityType
<1>3. \A l \in S : l \in Nat /\ 1 <= l /\ l <= size
  OBVIOUS
<1>4. below(size) = S /\ below(0) = {}
  <2>1. \A l \in S : l <= size /\ ~ (l <= 0)
    BY <1>3
  <2>2. \A k : \A l : l \in below(k) <=> l \in S /\ l <= k
    OBVIOUS
  <2> HIDE DEF below, enough
  <2>3. below(size) = S
    BY <2>1, <2>2
  <2>4. below(0) = {}
    BY <2>1, <2>2
  <2> QED
    BY <2>3, <2>4
<1>6. ASSUME NEW m \in 1 .. size
      PROVE  /\ below(m) = IF m \in S THEN below(m - 1) \union {m} ELSE below(m - 1)
             /\ m \notin below(m - 1)
  <2>1. \A l \in S : l <= m <=> l <= m - 1 \/ l = m
    BY <1>3
  <2>2. ~ (m <= m - 1) /\ m <= m
    OBVIOUS
  <2> QED
    BY <2>1, <2>2
<1>7. size \in enough
  BY <1>1, <1>4
<1>8. PICK m \in enough : \A k \in enough : m <= k
  <2>1. enough \subseteq Nat
    OBVIOUS
  <2> HIDE DEF enough
  <2> QED
    BY <1>7, <2>1, Smallest
<1>9. m \in 0 .. size /\ n <= Cardinality(below(m))
  OBVIOUS
<1>10. m # 0
  <2>1. Cardinality(below(0)) = 0
    BY <1>4, FS_EmptySet
  <2> HIDE DEF below, enough
  <2> QED
    BY <1>1, <1>9, <2>1
<1>11. m \in 1 .. size /\ m - 1 \in 0 .. size
  BY <1>9, <1>10
<1>12. Cardinality(below(m - 1)) < n
  <2>1. m - 1 \notin enough
    <3>1. m \in Nat /\ ~ (m <= m - 1)
      BY <1>9
    <3> HIDE DEF below, enough
    <3> QED
      BY <1>8, <3>1
  <2>2. ~ (n <= Cardinality(below(m - 1)))
    BY <1>11, <2>1
  <2>3. Cardinality(below(m - 1)) \in Nat
    BY <1>2, <1>11
  <2> HIDE DEF below, enough
  <2> QED
    BY <1>1, <2>2, <2>3
<1>13. /\ below(m) = IF m \in S THEN below(m - 1) \union {m} ELSE below(m - 1)
       /\ m \notin below(m - 1)
  BY <1>6, <1>11
<1>14. m \in S
  <2> HIDE DEF below, enough
  <2> QED
    BY <1>1, <1>2, <1>9, <1>11, <1>12, <1>13
<1>15. Cardinality(below(m)) = Cardinality(below(m - 1)) + 1
  <2> HIDE DEF below, enough
  <2> QED
    BY <1>2, <1>11, <1>13, <1>14, FS_AddElement
<1>16. Cardinality(below(m)) = n
  <2> HIDE DEF below, enough
  <2> QED
    BY <1>1, <1>2, <1>9, <1>11, <1>12, <1>15
<1> QED
  BY <1>14, <1>16

(* The components count as this module does. *)
LEMMA SameCardinality ==
    \A S : Conf!Cardinality(S) = Cardinality(S) /\ Client!Cardinality(S) = Cardinality(S)
  BY DEF Conf!Cardinality, Client!Cardinality, Cardinality

LEMMA NthIsThere ==
    ASSUME NEW size \in Nat, NEW S \in SUBSET (1 .. size), NEW n \in 1 .. Cardinality(S)
    PROVE  Conf!Nth(S, n) \in S /\ Client!Nth(S, n) \in S
<1>1. PICK k \in S : Cardinality({l \in S : l <= k}) = n
  BY Enumerated
<1>2. /\ Conf!Cardinality({l \in S : l <= k}) = n
      /\ Client!Cardinality({l \in S : l <= k}) = n
  BY <1>1, SameCardinality
<1>3. Conf!Nth(S, n) \in S
  BY <1>2, Zenon DEF Conf!Nth
<1>4. Client!Nth(S, n) \in S
  BY <1>2, Zenon DEF Client!Nth
<1> QED
  BY <1>3, <1>4

-----------------------------------------------------------------------------
(* The composition runs its components. *)
LEMMA Components ==
    Spec => /\ Nvs!Spec /\ Update!Spec /\ Net!Spec /\ Flash!Spec /\ SrpClient!Spec
            /\ Store!Spec /\ Conf!Spec /\ Client!Spec /\ Server!Spec
<1>1. Init => /\ Nvs!Init /\ Update!Init /\ Net!Init /\ Flash!Init /\ SrpClient!Init
              /\ Store!Init /\ Conf!Init /\ Client!Init /\ Server!Init
  BY DEF Init
<1>2. [Next]_vars => [Nvs!Next]_(Nvs!vars)
  BY DEF Next, vars, nvsVars, Nvs!vars
<1>3. [Next]_vars => [Update!Next]_(Update!vars)
  BY DEF Next, vars, otaVars, Update!vars, Update!own, Update!flash
<1>4. [Next]_vars => [Net!Next]_(Net!vars)
  BY DEF Next, vars, netVars, Net!vars
<1>5. [Next]_vars => [Flash!Next]_(Flash!vars)
  BY DEF Next, vars, partitionVars, Flash!vars
<1>6. [Next]_vars => [SrpClient!Next]_(SrpClient!vars)
  BY DEF Next, vars, srpVars, SrpClient!vars
<1>7. [Next]_vars => [Store!Next]_(Store!vars)
  BY DEF Next, vars, valueVars, Store!vars
<1>8. [Next]_vars => [Conf!Next]_(Conf!vars)
  BY DEF Next, vars, confVars, Conf!vars, Conf!confVars, Conf!scanVars
<1>9. [Next]_vars => [Client!Next]_(Client!vars)
  BY DEF Next, vars, clientVars, Client!vars
<1>10. [Next]_vars => [Server!Next]_(Server!vars)
  BY DEF Next, vars, serverVars, Server!vars
<1> QED
  BY <1>1, <1>2, <1>3, <1>4, <1>5, <1>6, <1>7, <1>8, <1>9, <1>10, PTL
  DEF Spec, Nvs!Spec, Update!Spec, Net!Spec, Flash!Spec, SrpClient!Spec,
      Store!Spec, Conf!Spec, Client!Spec, Server!Spec

-----------------------------------------------------------------------------
(* The key-value store. Each of the two items of the key is what set_raw() *)
(* makes of some value; and while there is one writer, that writer has     *)
(* removed what there was before it writes, unless an erase has failed.    *)

StoreItems ==
    /\ u64 = {} \/ \E v \in Strings : Store!Fits(v) /\ u64 = {Store!Encode(v)}
    /\ blob = {} \/ \E v \in Strings : ~ Store!Fits(v) /\ blob = {v}
    /\ \A t \in Writers : valuePc[t] # "idle" => arg[t] \in Strings

StoreIInv == Store!TypeOK /\ StoreItems

StoreAlone ==
    /\ \A t, o \in Writers : t = o
    /\ Store!OneItem /\ Store!ReadsTheLastWrite
    /\ \A t \in Writers :
          valuePc[t] \in {"clear", "set"} => stale \/ (u64 = {} /\ blob = {})

(* get_raw() undoes what set_raw() does to a short value. *)
LEMMA DecodeEncode ==
    ASSUME Store!ValuesAssumption, NEW v \in Strings, Store!Fits(v)
    PROVE  /\ Store!Encode(v) \in [1 .. 8 -> Store!Byte] /\ Store!Encode(v)[1] < 8
           /\ Store!Decode(Store!Encode(v)) = v
<1> DEFINE word == Store!Encode(v)
<1> DEFINE n == Len(v)
           rest == SubSeq(word, 2, n + 1)
<1>1. v \in Seq(Store!Byte)
  BY DEF Store!ValuesAssumption
<1>2. n \in Nat /\ n < 8
  BY <1>1 DEF Store!Fits
<1>3. \A i \in 1 .. n : v[i] \in Store!Byte
  BY <1>1, ElementOfSeq
<1>4. /\ word = [i \in 1 .. 8 |-> word[i]] /\ word[1] = n
      /\ \A i \in 2 .. 8 : word[i] = IF i \in 2 .. n + 1 THEN v[i - 1] ELSE 0
  BY DEF Store!Encode
<1> HIDE DEF word, n, rest
<1>5. \A i \in 1 .. 8 : word[i] \in Store!Byte
  <2>1. 0 \in Store!Byte /\ n \in Store!Byte
    BY <1>2 DEF Store!Byte
  <2>2. \A i \in 2 .. n + 1 : i - 1 \in 1 .. n
    BY <1>2
  <2>3. \A i \in 2 .. 8 : word[i] \in Store!Byte
    BY <1>3, <1>4, <2>1, <2>2
  <2>4. \A i \in 1 .. 8 : i = 1 \/ i \in 2 .. 8
    OBVIOUS
  <2> QED
    BY <1>4, <2>1, <2>3, <2>4
<1>6. word \in [1 .. 8 -> Store!Byte]
  BY <1>4, <1>5
<1>7. word \in Seq(Store!Byte)
  <2> DEFINE size == 8
  <2>1. size \in Nat /\ word \in [1 .. size -> Store!Byte]
    BY <1>6
  <2> HIDE DEF size
  <2> QED
    BY <2>1
<1>8. /\ rest \in Seq(Store!Byte) /\ Len(rest) = n
      /\ \A i \in 1 .. n : rest[i] = word[i + 1]
  <2> DEFINE first == 2
             final == n + 1
  <2>1. first \in Nat /\ final \in Nat /\ first = 2 /\ final = n + 1
    BY <1>2
  <2>2. rest = SubSeq(word, first, final)
    BY DEF rest
  <2> HIDE DEF first, final, rest
  <2>3. \A i \in first .. final : word[i] \in Store!Byte
    BY <1>2, <1>5, <2>1
  <2>4. /\ rest \in Seq(Store!Byte)
        /\ Len(rest) = IF first <= final THEN final - first + 1 ELSE 0
        /\ \A i \in 1 .. final - first + 1 : rest[i] = word[first + i - 1]
    BY <2>1, <2>2, <2>3, SubSeqProperties
  <2> QED
    BY <1>2, <2>1, <2>4
<1>9. \A i \in 1 .. n : rest[i] = v[i]
  <2> TAKE i \in 1 .. n
  <2>1. i + 1 \in 2 .. 8 /\ i + 1 \in 2 .. n + 1 /\ i + 1 - 1 = i
    BY <1>2
  <2>2. word[i + 1] = (IF i + 1 \in 2 .. n + 1 THEN v[i + 1 - 1] ELSE 0)
    BY <1>4, <2>1
  <2> QED
    BY <1>8, <2>1, <2>2
<1>10. rest = v
  BY <1>1, <1>2, <1>8, <1>9, SeqEqual DEF n
<1> QED
  BY <1>2, <1>4, <1>6, <1>10 DEF Store!Decode, word, n, rest

LEMMA StoreInitIInv ==
    Store!Init =>
        StoreIInv /\ ((\A t, o \in Writers : t = o) => StoreAlone)
BY DEF Store!Init, Store!Absent, StoreIInv, StoreItems, StoreAlone, Store!TypeOK,
       Store!OneItem, Store!ReadsTheLastWrite, Store!Stored

LEMMA StoreStepKeepsIInv ==
    ASSUME Store!ValuesAssumption, StoreIInv, [Store!Next]_(Store!vars)
    PROVE  StoreIInv'
<1> USE DEF StoreIInv, StoreItems, Store!TypeOK
<1>1. CASE UNCHANGED Store!vars
  BY <1>1 DEF Store!vars
<1>2. ASSUME NEW t \in Writers, Store!SetRaw(t) PROVE StoreIInv'
  BY <1>2 DEF Store!SetRaw
<1>3. ASSUME NEW t \in Writers, Store!ClearKey(t) PROVE StoreIInv'
  BY <1>3 DEF Store!ClearKey, Store!EraseKeyOrNot, Store!EraseKey, Store!Absent
<1>4. ASSUME NEW t \in Writers, Store!ClearForBlob(t) PROVE StoreIInv'
  BY <1>4 DEF Store!ClearForBlob, Store!EraseKeyOrNot, Store!EraseKey, Store!Absent
<1>5. ASSUME NEW t \in Writers, Store!SetItem(t) PROVE StoreIInv'
  <2> DEFINE v == arg[t]
  <2>1. v \in Strings /\ valuePc' = [valuePc EXCEPT ![t] = "idle"] /\ arg' = arg
    BY <1>5 DEF Store!SetItem
  <2>2. Len(v) \in Nat
    BY <2>1 DEF Store!ValuesAssumption
  <2> HIDE DEF v
  <2>5. removed' \in BOOLEAN /\ stale' \in BOOLEAN
    BY <1>5 DEF Store!SetItem
  <2>3. CASE Store!Fits(v)
    <3>1. u64' = {Store!Encode(v)} /\ blob' = blob
      BY <1>5, <2>3 DEF Store!SetItem, v
    <3>2. \A word \in u64' : word \in [1 .. 8 -> Store!Byte] /\ word[1] < 8
      BY <2>1, <2>3, <3>1, DecodeEncode
    <3> QED
      BY <2>1, <2>3, <2>5, <3>1, <3>2
  <2>4. CASE ~ Store!Fits(v)
    <3>1. u64' = u64 /\ blob' = {v} /\ Len(v) >= 8
      BY <1>5, <2>2, <2>4 DEF Store!SetItem, Store!Fits, v
    <3> QED
      BY <2>1, <2>4, <2>5, <3>1
  <2> QED
    BY <2>3, <2>4
<1>6. ASSUME NEW t \in Writers, Store!SetItemFails(t) PROVE StoreIInv'
  BY <1>6 DEF Store!SetItemFails
<1>7. ASSUME NEW t \in Writers, Store!RemoveKey(t) PROVE StoreIInv'
  BY <1>7 DEF Store!RemoveKey, Store!EraseKey, Store!Absent
<1>8. CASE Store!Reset
  BY <1>8 DEF Store!Reset
<1> QED
  BY <1>1, <1>2, <1>3, <1>4, <1>5, <1>6, <1>7, <1>8 DEF Store!Next

LEMMA StoreAloneStep ==
    ASSUME Store!ValuesAssumption, StoreIInv, StoreAlone, [Store!Next]_(Store!vars)
    PROVE  StoreAlone'
<1> USE DEF StoreAlone, Store!OneItem, Store!ReadsTheLastWrite, Store!Stored,
            Store!Absent
<1>1. CASE UNCHANGED Store!vars
  BY <1>1 DEF Store!vars
<1>2. ASSUME NEW t \in Writers, Store!SetRaw(t) PROVE StoreAlone'
  BY <1>2 DEF Store!SetRaw, StoreIInv, Store!TypeOK
<1>3. ASSUME NEW t \in Writers, Store!ClearKey(t) PROVE StoreAlone'
  BY <1>3 DEF Store!ClearKey, Store!EraseKeyOrNot, Store!EraseKey
<1>4. ASSUME NEW t \in Writers, Store!ClearForBlob(t) PROVE StoreAlone'
  BY <1>4 DEF Store!ClearForBlob, Store!EraseKeyOrNot, Store!EraseKey
<1>5. ASSUME NEW t \in Writers, Store!SetItem(t) PROVE StoreAlone'
  <2> DEFINE v == arg[t]
  <2>1. v \in Strings /\ valuePc' = [valuePc EXCEPT ![t] = "idle"]
        /\ possible' = {{v}} /\ (stale \/ (u64 = {} /\ blob = {}))
    BY <1>5 DEF Store!SetItem, StoreIInv, StoreItems
  <2>2. \A o \in Writers : valuePc'[o] = "idle"
    BY <1>5, <2>1 DEF StoreIInv, Store!TypeOK
  <2> HIDE DEF v
  <2>3. CASE Store!Fits(v)
    <3>1. /\ u64' = {Store!Encode(v)} /\ blob' = blob
          /\ stale' \/ blob' = {}
      BY <1>5, <2>1, <2>3 DEF Store!SetItem, v
    <3>2. {Store!Decode(word) : word \in u64'} = {v}
      BY <2>1, <2>3, <3>1, DecodeEncode
    <3> QED
      BY <2>1, <2>2, <3>1, <3>2
  <2>4. CASE ~ Store!Fits(v)
    <3>1. /\ u64' = u64 /\ blob' = {v}
          /\ stale' \/ u64' = {}
      BY <1>5, <2>1, <2>4 DEF Store!SetItem, v
    <3> QED
      BY <2>1, <2>2, <3>1
  <2> QED
    BY <2>3, <2>4
<1>6. ASSUME NEW t \in Writers, Store!SetItemFails(t) PROVE StoreAlone'
  BY <1>6 DEF Store!SetItemFails, StoreIInv, Store!TypeOK
<1>7. ASSUME NEW t \in Writers, Store!RemoveKey(t) PROVE StoreAlone'
  BY <1>7 DEF Store!RemoveKey, Store!EraseKey
<1>8. CASE Store!Reset
  BY <1>8 DEF Store!Reset
<1> QED
  BY <1>1, <1>2, <1>3, <1>4, <1>5, <1>6, <1>7, <1>8 DEF Store!Next

(* In every reachable state the inductive invariant holds. *)
THEOREM StoreInvariance ==
    ASSUME Store!ValuesAssumption PROVE Store!Spec => []StoreIInv
<1>1. Store!Init => StoreIInv
  BY StoreInitIInv
<1>2. StoreIInv /\ [Store!Next]_(Store!vars) => StoreIInv'
  BY StoreStepKeepsIInv
<1> QED
  BY <1>1, <1>2, PTL DEF Store!Spec

(* get_raw() returns what set_raw() wrote last, and the key has one item,  *)
(* as long as one task writes it and no erase that failed has left an item *)
(* behind (nvs.rs).                                                        *)
THEOREM StoreSafety ==
    ASSUME Store!ValuesAssumption, \A t, o \in Writers : t = o
    PROVE  Store!Spec => [](Store!ReadsTheLastWrite /\ Store!OneItem)
<1>1. Store!Init => StoreAlone
  BY StoreInitIInv
<1>2. StoreIInv /\ StoreAlone /\ [Store!Next]_(Store!vars) => StoreAlone'
  BY StoreAloneStep
<1>3. StoreAlone => Store!ReadsTheLastWrite /\ Store!OneItem
  BY DEF StoreAlone
<1> QED
  BY <1>1, <1>2, <1>3, StoreInvariance, PTL DEF Store!Spec

-----------------------------------------------------------------------------
(* The partitions of NVS. A partition that exists, be it in use or about   *)
(* to be deinitialised, has its name for itself among the custom and the   *)
(* encrypted ones; this is why their drops cannot take NVS down under the  *)
(* handle of another of them, nor find it taken down already. The default  *)
(* one is alone of its kind, but its name may be taken as well.            *)

(* The partitions that exist. *)
NvsAll == Nvs!Living \union dropping

(* Their names are their own, and registered as long as they exist.        *)
NvsUnique ==
    \A p, q \in NvsAll :
        p.name = q.name /\ (p.kind = "default" <=> q.kind = "default") => p = q

(* The name of the default one is another's only when that has been told.  *)
NvsShared == \A p \in NvsAll : p.kind # "default" /\ p.name = DefaultName => shared

NvsRegistered ==
    /\ \A p \in NvsAll : IF p.kind = "default" THEN nvsTaken ELSE p.name \in locked
    /\ \A n \in locked : \E p \in NvsAll : p.kind # "default" /\ p.name = n

(* Those of a name of their own are initialised in NVS. *)
NvsInitialised == \A p \in NvsAll : p.kind # "default" => p.name \in inited

(* No Arc keeps a partition whose last Arc is gone. *)
NvsApart == Nvs!Living \intersect dropping = {}

NvsIInv ==
    /\ Nvs!TypeOK /\ NvsUnique /\ NvsShared /\ NvsRegistered /\ NvsInitialised
    /\ NvsApart
    /\ Nvs!HandlesStayValid /\ Nvs!DropSucceeds

-----------------------------------------------------------------------------
LEMMA NvsInitIInv == Nvs!Init => NvsIInv
  BY DEF Nvs!Init, NvsIInv, Nvs!TypeOK, NvsUnique, NvsShared, NvsRegistered,
     NvsInitialised, NvsApart, NvsAll,
         Nvs!Living, Nvs!HandlesStayValid, Nvs!DropSucceeds

(* Partitions are records of the right kind. *)
LEMMA NvsPartitionTypes ==
    ASSUME Nvs!TypeOK
    PROVE  /\ \A p \in NvsAll : p \in Nvs!Partitions
           /\ \A p \in Nvs!Partitions : p.kind \in Nvs!Kinds /\
                IF p.kind = "default" THEN p.name = DefaultName ELSE p.name \in Names
  BY DEF Nvs!TypeOK, NvsAll, Nvs!Living, Nvs!Partitions

(* A partition that takes a name nobody has. *)
LEMMA NvsTakingKeepsIInv ==
    ASSUME NvsIInv, NEW t \in Tasks, NEW p \in Nvs!Partitions,
           IF p.kind = "default"
             THEN ~ nvsTaken /\ nvsTaken' = TRUE /\ UNCHANGED <<locked, shared>>
             ELSE /\ p.name \notin locked /\ locked' = locked \union {p.name}
                  /\ nvsTaken' = nvsTaken
                  /\ shared' = (shared \/ p.name = DefaultName),
           inited' = inited \union {p.name},
           arcs' = arcs \union {<<t, p>>},
           UNCHANGED <<dropping, nvs, open, panicked>>
    PROVE  NvsIInv'
<1>1. NvsAll' = NvsAll \union {p} /\ Nvs!Living' = Nvs!Living \union {p}
  <2>1. \A q : q \in Nvs!Living' <=> q \in Nvs!Living \/ q = p
    <3>1. arcs' \union nvs' = (arcs \union nvs) \union {<<t, p>>}
      OBVIOUS
    <3>2. \A q : q \in Nvs!Living' <=> \E h \in arcs' \union nvs' : h[2] = q
      BY DEF Nvs!Living
    <3>3. \A q : q \in Nvs!Living <=> \E h \in arcs \union nvs : h[2] = q
      BY DEF Nvs!Living
    <3>4. <<t, p>>[2] = p
      OBVIOUS
    <3> QED
      BY <3>1, <3>2, <3>3, <3>4, Zenon
  <2>2. Nvs!Living' = Nvs!Living \union {p}
    BY <2>1
  <2> QED
    BY <2>2 DEF NvsAll
<1>2. /\ \A q \in NvsAll :
            (p.kind = "default" <=> q.kind = "default") => q.name # p.name
      /\ p.name \in Names \union {DefaultName}
      /\ p.kind # "default" => p.name \in Names
  <2>1. /\ \A q \in NvsAll : q \in Nvs!Partitions
        /\ \A q \in Nvs!Partitions :
              IF q.kind = "default" THEN q.name = DefaultName ELSE q.name \in Names
    BY NvsPartitionTypes DEF NvsIInv
  <2>2. ASSUME NEW q \in NvsAll, p.kind = "default" <=> q.kind = "default"
        PROVE  q.name # p.name
    <3>1. CASE p.kind = "default"
      BY <2>1, <2>2, <3>1 DEF NvsIInv, NvsRegistered
    <3>2. CASE p.kind # "default"
      BY <2>1, <2>2, <3>2 DEF NvsIInv, NvsRegistered
    <3> QED
      BY <3>1, <3>2
  <2> QED
    BY <2>1, <2>2
<1>3. Nvs!TypeOK'
  <2>1. nvsTaken' \in BOOLEAN /\ locked' \subseteq Names
    BY <1>2 DEF NvsIInv, Nvs!TypeOK
  <2>2. arcs' \subseteq Tasks \X Nvs!Partitions
    BY DEF NvsIInv, Nvs!TypeOK
  <2> QED
    BY <1>2, <2>1, <2>2 DEF NvsIInv, Nvs!TypeOK
<1>4. NvsUnique' /\ NvsInitialised'
  BY <1>1, <1>2 DEF NvsIInv, NvsUnique, NvsInitialised
<1>7. NvsShared'
  BY <1>1 DEF NvsIInv, NvsShared
<1>5. NvsRegistered'
  <2>1. CASE p.kind = "default"
    BY <1>1, <2>1 DEF NvsIInv, NvsRegistered
  <2>2. CASE p.kind # "default"
    BY <1>1, <2>2 DEF NvsIInv, NvsRegistered
  <2> QED
    BY <2>1, <2>2
<1>6. NvsApart'
  <2>1. p \notin dropping
    BY <1>2 DEF NvsAll
  <2> QED
    BY <1>1, <2>1 DEF NvsIInv, NvsApart
<1>8. Nvs!HandlesStayValid'
  BY DEF NvsIInv, Nvs!HandlesStayValid
<1> QED
  BY <1>3, <1>4, <1>5, <1>6, <1>7, <1>8 DEF NvsIInv, Nvs!HandlesStayValid, Nvs!DropSucceeds

(* Arcs that change hands or are given up. *)
LEMMA NvsSharingKeepsIInv ==
    ASSUME NvsIInv, NEW p \in Nvs!Living,
           arcs' \subseteq Tasks \X Nvs!Partitions, nvs' \subseteq Tasks \X Nvs!Partitions,
           Nvs!Living' \subseteq Nvs!Living, Nvs!Living \subseteq Nvs!Living' \union {p},
           dropping' = IF p \in Nvs!Living' THEN dropping ELSE dropping \union {p},
           open' \subseteq nvs', \A h \in nvs' \ open' : h \in nvs \ open,
           UNCHANGED <<nvsTaken, locked, inited, panicked, shared>>
    PROVE  NvsIInv'
<1>1. NvsAll' = NvsAll
  BY DEF NvsAll
<1>2. p \in Nvs!Partitions
  BY DEF NvsIInv, Nvs!TypeOK, Nvs!Living
<1>3. Nvs!TypeOK'
  BY <1>2 DEF NvsIInv, Nvs!TypeOK
<1>4. NvsUnique' /\ NvsShared' /\ NvsRegistered' /\ NvsInitialised'
  BY <1>1 DEF NvsIInv, NvsUnique, NvsShared, NvsRegistered, NvsInitialised
<1>5. NvsApart'
  BY DEF NvsIInv, NvsApart
<1> QED
  BY <1>3, <1>4, <1>5 DEF NvsIInv, Nvs!HandlesStayValid, Nvs!DropSucceeds

(* The drop of a partition that no Arc keeps. *)
LEMMA NvsDroppingKeepsIInv ==
    ASSUME NvsIInv, NEW p \in Nvs!Partitions,
           Nvs!DropDefault(p) \/ Nvs!DropNamed(p)
    PROVE  NvsIInv'
<1>1. /\ p \in dropping /\ p \in NvsAll /\ p \notin Nvs!Living
      /\ \A q \in NvsAll : q \in Nvs!Partitions
      /\ \A q \in NvsAll \ {p} :
            (p.kind = "default" <=> q.kind = "default") => q.name # p.name
  BY NvsPartitionTypes DEF NvsIInv, NvsApart, NvsUnique, NvsAll,
     Nvs!DropDefault, Nvs!DropNamed
<1>2. Nvs!Living' = Nvs!Living /\ dropping' = dropping \ {p} /\ NvsAll' = NvsAll \ {p}
  BY <1>1 DEF Nvs!DropDefault, Nvs!DropNamed, NvsAll, Nvs!Living
<1>3. CASE Nvs!DropDefault(p)
  <2>1. \A q \in NvsAll \ {p} : q.kind # "default"
    BY <1>1, <1>3, NvsPartitionTypes DEF Nvs!DropDefault, NvsIInv
  <2>2. NvsRegistered'
    BY <1>2, <1>3, <2>1 DEF NvsIInv, NvsRegistered, Nvs!DropDefault
  <2>3. NvsUnique' /\ NvsShared' /\ NvsInitialised' /\ NvsApart'
    BY <1>2, <1>3
    DEF NvsIInv, NvsUnique, NvsShared, NvsInitialised, NvsApart, Nvs!DropDefault
  <2> QED
    BY <1>3, <2>2, <2>3
    DEF Nvs!DropDefault, NvsIInv, Nvs!TypeOK, Nvs!HandlesStayValid,
        Nvs!DropSucceeds
<1>4. CASE Nvs!DropNamed(p)
  <2>1. p.name \in inited /\ p.kind # "default"
    BY <1>1, <1>4 DEF NvsIInv, NvsInitialised, Nvs!DropNamed
  <2>2. Nvs!HandlesStayValid'
    <3> SUFFICES ASSUME NEW h \in nvs, h \in open, h \notin open'
                 PROVE  h[2].kind = "default" /\ shared
      BY <1>4 DEF Nvs!DropNamed, Nvs!HandlesStayValid, NvsIInv
    <3>1. h[2] \in Nvs!Living /\ h[2].name = p.name
      BY <1>4 DEF Nvs!DropNamed, Nvs!Living
    <3>2. h[2] \in NvsAll \ {p}
      BY <1>1, <3>1 DEF NvsAll
    <3>3. h[2].kind = "default"
      BY <1>1, <2>1, <3>1, <3>2
    <3>4. p.name = DefaultName
      BY <1>1, <3>1, <3>2, <3>3, NvsPartitionTypes DEF NvsIInv
    <3> QED
      BY <1>1, <2>1, <3>3, <3>4 DEF NvsIInv, NvsShared
  <2>5. open' \subseteq open
    BY <1>4 DEF Nvs!DropNamed
  <2>3. NvsRegistered'
    BY <1>1, <1>2, <1>4 DEF NvsIInv, NvsRegistered, Nvs!DropNamed
  <2>4. NvsUnique' /\ NvsShared' /\ NvsInitialised' /\ NvsApart'
    BY <1>1, <1>2, <1>4, <2>1 DEF NvsIInv, NvsUnique, NvsShared, NvsInitialised,
       NvsApart, Nvs!DropNamed
  <2> QED
    BY <1>4, <2>1, <2>2, <2>3, <2>4, <2>5
    DEF Nvs!DropNamed, NvsIInv, Nvs!TypeOK, Nvs!DropSucceeds
<1> QED
  BY <1>3, <1>4

(* What a thread does with the partition p. *)
LEMMA NvsUseKeepsIInv ==
    ASSUME NvsIInv, NEW t \in Tasks, NEW p \in Nvs!Partitions,
           (\E u \in Tasks : Nvs!Clone(t, u, p)) \/ Nvs!Open(t, p) \/ Nvs!DropArc(t, p)
              \/ Nvs!Close(t, p)
    PROVE  NvsIInv'
<1> USE DEF Nvs!Living
<1>1. ASSUME NEW u \in Tasks, Nvs!Clone(t, u, p) PROVE NvsIInv'
  <2>1. p \in Nvs!Living /\ Nvs!Living' = Nvs!Living
    BY <1>1 DEF Nvs!Clone
  <2>2. arcs' \subseteq Tasks \X Nvs!Partitions
    BY <1>1 DEF Nvs!Clone, NvsIInv, Nvs!TypeOK
  <2> HIDE DEF Nvs!Living
  <2> QED
    BY <1>1, <2>1, <2>2, NvsSharingKeepsIInv
    DEF Nvs!Clone, NvsIInv, Nvs!TypeOK
<1>2. CASE Nvs!Open(t, p)
  <2>1. p \in Nvs!Living /\ Nvs!Living' = Nvs!Living
    BY <1>2 DEF Nvs!Open
  <2>2. /\ arcs' \subseteq Tasks \X Nvs!Partitions
        /\ nvs' \subseteq Tasks \X Nvs!Partitions /\ open' \subseteq nvs'
        /\ \A h \in nvs' \ open' : h \in nvs \ open
    BY <1>2 DEF Nvs!Open, NvsIInv, Nvs!TypeOK
  <2> HIDE DEF Nvs!Living
  <2> QED
    BY <1>2, <2>1, <2>2, NvsSharingKeepsIInv DEF Nvs!Open
<1>3. CASE Nvs!DropArc(t, p)
  <2>1. /\ p \in Nvs!Living /\ Nvs!Living' \subseteq Nvs!Living
        /\ Nvs!Living \subseteq Nvs!Living' \union {p}
        /\ p \in Nvs!Living' <=> \E h \in arcs' \union nvs : h[2] = p
    BY <1>3 DEF Nvs!DropArc
  <2>2. arcs' \subseteq Tasks \X Nvs!Partitions
    BY <1>3 DEF Nvs!DropArc, NvsIInv, Nvs!TypeOK
  <2> HIDE DEF Nvs!Living
  <2> QED
    BY <1>3, <2>1, <2>2, NvsSharingKeepsIInv
    DEF Nvs!DropArc, Nvs!Unref, NvsIInv, Nvs!TypeOK
<1>4. CASE Nvs!Close(t, p)
  <2>1. /\ p \in Nvs!Living /\ Nvs!Living' \subseteq Nvs!Living
        /\ Nvs!Living \subseteq Nvs!Living' \union {p}
        /\ p \in Nvs!Living' <=> \E h \in arcs \union nvs' : h[2] = p
    BY <1>4 DEF Nvs!Close
  <2>2. /\ nvs' \subseteq Tasks \X Nvs!Partitions /\ open' \subseteq nvs'
        /\ \A h \in nvs' \ open' : h \in nvs \ open
    BY <1>4 DEF Nvs!Close, NvsIInv, Nvs!TypeOK
  <2> HIDE DEF Nvs!Living
  <2> QED
    BY <1>4, <2>1, <2>2, NvsSharingKeepsIInv
    DEF Nvs!Close, Nvs!Unref, NvsIInv, Nvs!TypeOK
<1> QED
  BY <1>1, <1>2, <1>3, <1>4

LEMMA NvsStepKeepsIInv ==
    ASSUME NvsIInv, [Nvs!Next]_(Nvs!vars) PROVE NvsIInv'
<1>1. CASE UNCHANGED Nvs!vars
  BY <1>1 DEF Nvs!vars, NvsIInv, Nvs!TypeOK, NvsUnique, NvsShared, NvsRegistered,
     NvsInitialised, NvsApart, NvsAll,
              Nvs!Living, Nvs!HandlesStayValid, Nvs!DropSucceeds
<1>2. ASSUME NEW t \in Tasks, Nvs!TakeDefault(t) PROVE NvsIInv'
  <2> DEFINE p == [kind |-> "default", name |-> DefaultName, taker |-> t]
  <2>1. p \in Nvs!Partitions /\ p.kind = "default" /\ p.name = DefaultName
    BY DEF Nvs!Partitions, Nvs!Kinds
  <2> QED
    BY <1>2, <2>1, NvsTakingKeepsIInv DEF Nvs!TakeDefault
<1>3. ASSUME NEW t \in Tasks, NEW kind \in {"custom", "encrypted"},
             NEW n \in Names, Nvs!TakeNamed(t, kind, n)
      PROVE  NvsIInv'
  <2> DEFINE p == [kind |-> kind, name |-> n, taker |-> t]
  <2>1. p \in Nvs!Partitions /\ p.kind # "default" /\ p.name = n
    BY DEF Nvs!Partitions, Nvs!Kinds
  <2> QED
    BY <1>3, <2>1, NvsTakingKeepsIInv DEF Nvs!TakeNamed
<1> QED
  BY <1>1, <1>2, <1>3, NvsUseKeepsIInv, NvsDroppingKeepsIInv DEF Nvs!Next

(* In every reachable state the inductive invariant holds. *)
THEOREM NvsInvariance == Nvs!Spec => []NvsIInv
<1>1. NvsIInv /\ [Nvs!Next]_(Nvs!vars) => NvsIInv'
  BY NvsStepKeepsIInv
<1> QED
  BY <1>1, NvsInitIInv, PTL DEF Nvs!Spec

LEMMA NvsIInvIsSafe ==
    NvsIInv => /\ Nvs!TypeOK /\ Nvs!HandlesStayValid
               /\ Nvs!OneOwner /\ Nvs!DropSucceeds
<1> SUFFICES ASSUME NvsIInv PROVE Nvs!OneOwner
  BY DEF NvsIInv
<1> DEFINE Named == {p \in Nvs!Living \union dropping : p.kind # "default"}
<1>1. \A p, q \in Named : p.name = q.name => p = q
  BY DEF NvsIInv, NvsUnique, NvsAll
<1>2. \A n : n \in locked <=> \E p \in Named : p.name = n
  BY DEF NvsIInv, NvsRegistered, NvsAll
<1>3. locked = {p.name : p \in Named}
  BY <1>2
<1> QED
  BY <1>1, <1>3 DEF Nvs!OneOwner

(* The state of the partitions of nvs.rs keeps to its types. *)
THEOREM NvsTypeCorrect == Nvs!Spec => []Nvs!TypeOK
  BY NvsInvariance, NvsIInvIsSafe, PTL

(* The handle of an EspNvs is valid as long as the EspNvs lives, whatever  *)
(* partitions are taken and dropped meanwhile, of any names; one on the    *)
(* default partition, as long as nobody takes that by its name as well.    *)
THEOREM NvsHandleSafety == Nvs!Spec => []Nvs!HandlesStayValid
  BY NvsInvariance, NvsIInvIsSafe, PTL

(* No two partitions share a name, a name is locked exactly as long as its *)
(* partition exists, and the unwrap() in the drops does not panic.         *)
THEOREM NvsOwnerSafety == Nvs!Spec => [](Nvs!OneOwner /\ Nvs!DropSucceeds)
  BY NvsInvariance, NvsIInvIsSafe, PTL

-----------------------------------------------------------------------------
(* The updates, for a reset between any two steps. The image that runs is  *)
(* safe because whoever has an update under way writes to another slot     *)
(* than the one that runs, and what runs only changes in a reset, which    *)
(* ends every update.                                                      *)

(* At most one thread has the EspOta, and TAKEN tells of it.               *)
OtaAlone ==
    /\ otaTaken <=> \E t \in Threads : otaPc[t] # "none"
    /\ \A t, u \in Threads : otaPc[t] # "none" /\ otaPc[u] # "none" => t = u

(* Every handle given out since the last reset is a number up to last.     *)
OtaHandlesCount ==
    /\ handles \subseteq 1 .. last
    /\ \A t \in Threads : otaPc[t] = "update" => handle[t] \in handles
    /\ \A h \in handles : \E t \in Threads : otaPc[t] = "update" /\ handle[t] = h

(* The slots that are written to do not run, and factory is never erased.  *)
OtaElsewhere ==
    /\ image["factory"] = "whole" /\ image[running] = "whole"
    /\ \A t \in Threads : otaPc[t] \in {"update", "finished"} => slot[t] # running

OtaIInv == Update!TypeOK /\ OtaAlone /\ OtaHandlesCount /\ OtaElsewhere

-----------------------------------------------------------------------------
LEMMA OtaInitIInv == ASSUME Update!OtaAssumption, Update!Init PROVE OtaIInv
<1>1. Update!TypeOK
  <2>1. handle \in [Threads -> 0 .. MaxUpdates] /\ last \in 0 .. MaxUpdates
    BY DEF Update!OtaAssumption, Update!Init
  <2>2. /\ otaPc \in [Threads -> {"none", "ota", "update", "finished"}]
        /\ slot \in [Threads -> Update!AppSlots \ {"factory"}]
    BY DEF Update!Init, Update!AppSlots
  <2>3. /\ image \in [Update!AppSlots -> {"none", "part", "whole"}]
        /\ trust \in [Update!AppSlots -> {"unknown", "new", "pending", "valid",
                                "invalid", "aborted"}]
        /\ boot \in Update!AppSlots /\ running \in Update!AppSlots
    BY DEF Update!Init, Update!AppSlots
  <2> QED
    BY <2>1, <2>2, <2>3 DEF Update!Init, Update!TypeOK
<1>2. OtaAlone /\ OtaElsewhere
  BY DEF Update!Init, OtaAlone, OtaElsewhere, Update!AppSlots
<1>3. OtaHandlesCount
  BY DEF Update!Init, OtaHandlesCount
<1> QED
  BY <1>1, <1>2, <1>3 DEF OtaIInv

(* The bootloader starts a slot with a whole image; the updates are over. *)
LEMMA OtaBootKeepsIInv ==
    ASSUME Update!OtaAssumption, OtaIInv,
           NEW states \in [Update!AppSlots -> {"unknown", "new", "pending", "valid",
                                     "invalid", "aborted"}],
           Update!BootFrom(states), Update!Forget
    PROVE  OtaIInv'
<1>1. PICK s \in Update!AppSlots :
        /\ running' = s /\ boot' = s
        /\ image[s] = "whole" \/ s = "factory"
  BY DEF Update!BootFrom, Update!Acceptable
<1>2. trust' \in [Update!AppSlots -> {"unknown", "new", "pending", "valid", "invalid",
                            "aborted"}]
  BY DEF Update!BootFrom
<1>3. /\ otaTaken' = FALSE /\ otaPc' = [t \in Threads |-> "none"] /\ handles' = {}
      /\ last' = 0 /\ image' = image /\ handle' = handle /\ slot' = slot
      /\ misused' = misused
  BY DEF Update!Forget
<1>4. Update!TypeOK'
  <2>1. otaPc' \in [Threads -> {"none", "ota", "update", "finished"}]
    BY <1>3
  <2>2. last' \in 0 .. MaxUpdates /\ handles' \subseteq 1 .. MaxUpdates
    BY <1>3 DEF Update!OtaAssumption
  <2> QED
    BY <1>1, <1>2, <1>3, <2>1, <2>2 DEF OtaIInv, Update!TypeOK
<1>5. OtaAlone' /\ OtaHandlesCount'
  BY <1>3 DEF OtaAlone, OtaHandlesCount
<1>6. OtaElsewhere'
  BY <1>1, <1>3 DEF OtaIInv, OtaElsewhere
<1> QED
  BY <1>4, <1>5, <1>6 DEF OtaIInv

(* The steps of the one thread that has the EspOta, or takes it.           *)
LEMMA OtaThreadKeepsIInv ==
    ASSUME Update!OtaAssumption, OtaIInv, NEW t \in Threads,
           \/ Update!New(t) \/ Update!DropOta(t) \/ Update!InitiateOk(t)
           \/ Update!InitiateFails(t)
           \/ Update!FactoryReset(t) \/ Update!MarkValid(t)
           \/ Update!Write(t) \/ Update!FinishOk(t) \/ Update!CompleteOk(t)
           \/ Update!EndFails(t) \/ Update!Cancel(t)
           \/ Update!Activate(t) \/ Update!DropFinished(t)
    PROVE  OtaIInv'
<1> USE DEF Update!OtaAssumption, OtaIInv, Update!TypeOK, OtaAlone,
        OtaHandlesCount, OtaElsewhere, Update!own,
            Update!flash, Update!Has, Update!Becomes, Update!AppSlots
<1>0. otaPc[t] # "none" => \A u \in Threads : otaPc[u] # "none" => u = t
  OBVIOUS
<1>a. ASSUME otaPc[t] = "update" PROVE handles = {handle[t]}
  <2>1. handle[t] \in handles
    BY <1>a
  <2>2. ASSUME NEW h \in handles PROVE h = handle[t]
    <3>1. PICK u \in Threads : otaPc[u] = "update" /\ handle[u] = h
      OBVIOUS
    <3> QED
      BY <1>0, <1>a, <3>1
  <2> HIDE DEF OtaIInv, Update!TypeOK, OtaHandlesCount, OtaAlone, OtaElsewhere
  <2> QED
    BY <2>1, <2>2
<1>b. otaPc[t] # "update" /\ otaPc[t] # "none" => handles = {}
  BY <1>0
<1>1. CASE Update!New(t)
  BY <1>1 DEF Update!New
<1>2. CASE Update!DropOta(t)
  BY <1>2, ZenonT(60) DEF Update!DropOta
<1>3. CASE Update!InitiateOk(t)
  <2>1. Update!UpdateSlot \in Update!AppSlots \ {"factory"} /\ Update!UpdateSlot # running
    BY DEF Update!UpdateSlot, Update!NextSlot
  <2>2. handles = {} /\ \A u \in Threads : otaPc[u] # "none" => u = t
    BY <1>0, <1>b, <1>3 DEF Update!InitiateOk
  <2> QED
    BY <1>3, <2>1, <2>2 DEF Update!InitiateOk
<1>4. CASE Update!InitiateFails(t)
  BY <1>4 DEF Update!InitiateFails, Update!UpdateSlot, Update!NextSlot
<1>5. CASE Update!FactoryReset(t)
  BY <1>5 DEF Update!FactoryReset, Update!SetBoot
<1>6. CASE Update!MarkValid(t)
  BY <1>6 DEF Update!MarkValid
<1>7. CASE Update!Write(t)
  BY <1>7 DEF Update!Write
<1>8. CASE Update!FinishOk(t)
  BY <1>0, <1>a, <1>8 DEF Update!FinishOk
<1>9. CASE Update!CompleteOk(t)
  BY <1>0, <1>a, <1>9 DEF Update!CompleteOk, Update!SetBoot
<1>10. CASE Update!EndFails(t)
  BY <1>0, <1>a, <1>10 DEF Update!EndFails, Update!Abort
<1>11. CASE Update!Cancel(t)
  BY <1>0, <1>a, <1>11 DEF Update!Cancel, Update!Abort
<1>12. CASE Update!Activate(t)
  BY <1>12 DEF Update!Activate, Update!SetBoot
<1>13. CASE Update!DropFinished(t)
  BY <1>13 DEF Update!DropFinished
<1> QED
  BY <1>1, <1>2, <1>3, <1>4, <1>5, <1>6, <1>7, <1>8, <1>9, <1>10, <1>11,
     <1>12, <1>13

LEMMA OtaStepKeepsIInv ==
    ASSUME Update!OtaAssumption, OtaIInv, [Update!Next]_(Update!vars)
    PROVE  OtaIInv'
<1>1. CASE UNCHANGED Update!vars
  BY <1>1 DEF Update!vars, Update!own, Update!flash, OtaIInv, Update!TypeOK,
     OtaAlone, OtaHandlesCount, OtaElsewhere
<1>2. CASE Update!Reboot
  BY <1>2, OtaBootKeepsIInv DEF Update!Reboot, OtaIInv, Update!TypeOK
<1>3. ASSUME NEW t \in Threads, Update!MarkInvalid(t) PROVE OtaIInv'
  BY <1>3, OtaBootKeepsIInv DEF Update!MarkInvalid, OtaIInv, Update!TypeOK
<1> QED
  BY <1>1, <1>2, <1>3, OtaThreadKeepsIInv DEF Update!Next

(* In every reachable state the inductive invariant holds. *)
THEOREM OtaInvariance ==
    ASSUME Update!OtaAssumption PROVE Update!Spec => []OtaIInv
<1>1. Update!Init => OtaIInv
  BY OtaInitIInv
<1>2. OtaIInv /\ [Update!Next]_(Update!vars) => OtaIInv'
  BY OtaStepKeepsIInv
<1> QED
  BY <1>1, <1>2, PTL DEF Update!Spec

(* The inductive invariant implies what the runs check. *)
LEMMA OtaIInvIsSafe ==
    OtaIInv => /\ Update!TypeOK /\ Update!HandlesMatch
               /\ Update!OneInstance /\ Update!RunningIntact
<1> SUFFICES ASSUME OtaIInv
             PROVE  /\ Update!HandlesMatch /\ Update!OneInstance
                    /\ Update!RunningIntact
  BY DEF OtaIInv
<1>1. Update!HandlesMatch
  BY DEF OtaIInv, OtaHandlesCount, Update!HandlesMatch, Update!Has
<1>2. Update!OneInstance
  BY DEF OtaIInv, OtaAlone, Update!OneInstance, Update!Has
<1> QED
  BY <1>1, <1>2 DEF OtaIInv, OtaElsewhere, Update!RunningIntact

(* The state of ota.rs keeps to its types. *)
THEOREM OtaTypeCorrect ==
    ASSUME Update!OtaAssumption PROVE Update!Spec => []Update!TypeOK
  BY OtaInvariance, OtaIInvIsSafe, PTL

(* ESP-IDF keeps exactly the handles of the updates that are alive, however *)
(* they end.                                                               *)
THEOREM OtaHandleSafety ==
    ASSUME Update!OtaAssumption PROVE Update!Spec => []Update!HandlesMatch
  BY OtaInvariance, OtaIInvIsSafe, PTL

(* EspOta::new() succeeds for one thread at a time, and again after a drop. *)
THEOREM OtaExclusion ==
    ASSUME Update!OtaAssumption PROVE Update!Spec => []Update!OneInstance
  BY OtaInvariance, OtaIInvIsSafe, PTL

(* Nothing ota.rs does erases or overwrites the image that runs.           *)
THEOREM OtaImageSafety ==
    ASSUME Update!OtaAssumption PROVE Update!Spec => []Update!RunningIntact
  BY OtaInvariance, OtaIInvIsSafe, PTL

-----------------------------------------------------------------------------
(* The drivers of network interfaces. C calls only what is there because   *)
(* an interface whose driver is about to be freed is not registered, and   *)
(* the handler that runs is not its own: unregistering has waited for it.  *)

(* The drivers whose inner is boxed, and with it their interface alive. *)
NetBuilt == {"lost_ip", "attach", "configure", "idle", "drop", "drop_lost", "free"}

NetExists ==
    \A i \in Interfaces :
        /\ netPc[i] \in NetBuilt => i \in inner
        /\ netPc[i] \in NetBuilt \union {"got_ip"} => i \in alive

(* Who is called has not begun to go away. A lent interface may still have *)
(* the transmit function of a driver that is gone.                         *)
NetCalled ==
    /\ \A e \in Net!Events, i \in Interfaces :
          handlers[e] = i =>
              \/ i \in broken
              \/ /\ netPc[i] \in NetBuilt \ {"free"}
                 /\ e = "got_ip" => netPc[i] # "drop_lost"
    /\ \A i \in Interfaces :
          dispatched # Net!Idle /\ dispatched[2] = i =>
              i \in broken \/ netPc[i] \in NetBuilt \ {"free"}
    /\ \A i \in transmit \union {sending} :
          i = Net!Nobody \/ i \in inner \/ (i \in lent /\ netPc[i] = "end")

NetIInv == Net!TypeOK /\ NetExists /\ NetCalled

LEMMA NetInitIInv == ASSUME Net!NetifAssumption, Net!Init PROVE NetIInv
<1>1. Net!TypeOK
  BY DEF Net!Init, Net!TypeOK
<1>2. NetExists
  BY DEF Net!Init, NetExists, NetBuilt
<1>3. NetCalled
  BY DEF Net!NetifAssumption, Net!Init, NetCalled, NetBuilt
<1> QED
  BY <1>1, <1>2, <1>3 DEF NetIInv

LEMMA NetConstructionKeepsIInv ==
    ASSUME Net!NetifAssumption, NetIInv, NEW i \in Interfaces,
           \/ Net!New(i) \/ Net!Box(i) \/ Net!Attach(i) \/ Net!Configure(i)
           \/ \E event \in Net!Events : Net!Register(i, event)
    PROVE  NetIInv'
<1> USE DEF NetIInv, Net!TypeOK, NetExists, NetCalled, NetBuilt, Net!Goto,
            Net!NetifAssumption
<1>1. CASE Net!New(i)
  <2>1. /\ iface' \in [Interfaces ->
                       {Net!NoIface} \union {Net!Built(c) : c \in Confs}]
        /\ alive \subseteq alive' /\ alive' \subseteq alive \union {i}
    BY <1>1 DEF Net!New
  <2>2. \/ netPc'[i] = "got_ip" /\ i \in alive'
        \/ netPc'[i] = "end"
    BY <1>1 DEF Net!New
  <2>3. /\ \A j \in Interfaces \ {i} : netPc'[j] = netPc[j]
        /\ netPc' \in [Interfaces ->
                       {"none", "got_ip", "lost_ip", "attach", "configure",
                        "idle", "drop", "drop_lost", "free", "end"}]
    BY <1>1 DEF Net!New
  <2>4. netPc[i] = "none"
    BY <1>1 DEF Net!New
  <2> QED
    BY <1>1, <2>1, <2>2, <2>3, <2>4 DEF Net!New
<1>2. CASE Net!Box(i)
  BY <1>2 DEF Net!Box
<1>3. CASE Net!Attach(i)
  BY <1>3 DEF Net!Attach
<1>4. CASE Net!Configure(i)
  BY <1>4 DEF Net!Configure
<1>5. ASSUME NEW event \in Net!Events, Net!Register(i, event) PROVE NetIInv'
  BY <1>5 DEF Net!Register, Net!Events
<1> QED
  BY <1>1, <1>2, <1>3, <1>4, <1>5

LEMMA NetDestructionKeepsIInv ==
    ASSUME Net!NetifAssumption, NetIInv, NEW i \in Interfaces,
           \/ Net!ConstructorFails(i) \/ Net!Drop(i) \/ Net!Free(i)
           \/ \E event \in Net!Events : Net!Unregister(i, event)
    PROVE  NetIInv'
<1> USE DEF NetIInv, Net!TypeOK, NetExists, NetCalled, NetBuilt, Net!Goto,
            Net!NetifAssumption
<1>1. CASE Net!ConstructorFails(i)
  BY <1>1 DEF Net!ConstructorFails, Net!DropInner
<1>2. CASE Net!Drop(i)
  BY <1>2 DEF Net!Drop
<1>3. ASSUME NEW event \in Net!Events, Net!Unregister(i, event) PROVE NetIInv'
  BY <1>3 DEF Net!Unregister, Net!Events
<1>4. CASE Net!Free(i)
  BY <1>4 DEF Net!Free, Net!DropInner
<1> QED
  BY <1>1, <1>2, <1>3, <1>4

LEMMA NetCallsKeepIInv ==
    ASSUME Net!NetifAssumption, NetIInv,
           \/ \E event \in Net!Events : Net!Dispatch(event)
           \/ Net!HandlerEnds
           \/ \E i \in Interfaces : Net!Send(i)
           \/ Net!Sent
    PROVE  NetIInv'
<1> USE DEF NetIInv, Net!TypeOK, NetExists, NetCalled, NetBuilt,
            Net!NetifAssumption
<1>1. ASSUME NEW event \in Net!Events, Net!Dispatch(event) PROVE NetIInv'
  BY <1>1 DEF Net!Dispatch, Net!Events
<1>2. CASE Net!HandlerEnds
  BY <1>2 DEF Net!HandlerEnds
<1>3. ASSUME NEW i \in Interfaces, Net!Send(i) PROVE NetIInv'
  BY <1>3 DEF Net!Send
<1>4. CASE Net!Sent
  BY <1>4 DEF Net!Sent
<1> QED
  BY <1>1, <1>2, <1>3, <1>4

LEMMA NetStepKeepsIInv ==
    ASSUME Net!NetifAssumption, NetIInv, [Net!Next]_(Net!vars) PROVE NetIInv'
<1>1. CASE UNCHANGED Net!vars
  BY <1>1 DEF Net!vars, NetIInv, Net!TypeOK, NetExists, NetCalled
<1> QED
  BY <1>1, NetConstructionKeepsIInv, NetDestructionKeepsIInv, NetCallsKeepIInv
  DEF Net!Next

(* Whatever the configuration, what is built from it has one source of its *)
(* address.                                                                *)
LEMMA BuiltHasOneSource ==
    ASSUME Net!NetifAssumption, NEW c \in Confs
    PROVE  LET b == Net!Built(c) IN
           /\ b.ip => "DHCP_CLIENT" \notin b.flags
           /\ "DHCP_SERVER" \in b.flags => b.ip
           /\ b.offer => "DHCP_SERVER" \in b.flags
<1>1. c \in Net!Configurations
  BY DEF Net!NetifAssumption
<1>2. CASE c.kind = "dhcp"
  BY <1>1, <1>2 DEF Net!Configurations, Net!Built, Net!Flags
<1>3. CASE c.kind = "fixed"
  BY <1>1, <1>3 DEF Net!Configurations, Net!Built, Net!Flags
<1>4. CASE c.kind = "router"
  BY <1>1, <1>4 DEF Net!Configurations, Net!Built, Net!Flags
<1>5. CASE c.kind = "none"
  BY <1>1, <1>5 DEF Net!Configurations, Net!Built, Net!Flags
<1> QED
  BY <1>1, <1>2, <1>3, <1>4, <1>5 DEF Net!Configurations

LEMMA NetIInvIsSafe ==
    ASSUME Net!NetifAssumption, NetIInv
    PROVE  Net!TypeOK /\ Net!CalledWhileAlive /\ Net!OneAddressSource
<1>1. Net!CalledWhileAlive
  BY DEF NetIInv, Net!TypeOK, NetExists, NetCalled, NetBuilt,
     Net!CalledWhileAlive
<1>2. Net!OneAddressSource
  <2> SUFFICES ASSUME NEW i \in alive
               PROVE  LET b == iface[i] IN
                      /\ b.ip => "DHCP_CLIENT" \notin b.flags
                      /\ "DHCP_SERVER" \in b.flags => b.ip
                      /\ b.offer => "DHCP_SERVER" \in b.flags
    BY DEF Net!OneAddressSource
  <2>1. iface[i] \in {Net!NoIface} \union {Net!Built(c) : c \in Confs}
    BY DEF NetIInv, Net!TypeOK
  <2>2. CASE iface[i] = Net!NoIface
    BY <2>2 DEF Net!NoIface
  <2> QED
    BY <2>1, <2>2, BuiltHasOneSource
<1> QED
  BY <1>1, <1>2 DEF NetIInv

(* In every reachable state the inductive invariant holds.                 *)
THEOREM NetInvariance == ASSUME Net!NetifAssumption PROVE Net!Spec => []NetIInv
<1>1. Net!Init => NetIInv
  BY NetInitIInv
<1>2. NetIInv /\ [Net!Next]_(Net!vars) => NetIInv'
  BY NetStepKeepsIInv
<1> QED
  BY <1>1, <1>2, PTL DEF Net!Spec

-----------------------------------------------------------------------------
(* The configuration of the Wi-Fi driver. What C has been given can always *)
(* be read back, and what it keeps of strings ends within its arrays.      *)

ConfKept ==
    /\ client # None => \E c \in Conf!KeptClient(client) :
          /\ Conf!SameChannel(Conf!ClientOf(sta), c)
          /\ [Conf!ClientOf(sta) EXCEPT !.channel = None] = [c EXCEPT !.channel = None]
    /\ point # None => Conf!PointOf(ap) = Conf!KeptPoint(point)

StaTypeOf ==
    [ssid : 0 .. 32, password : 0 .. 64, bssid : BOOLEAN, channel : 0 .. 13,
     all_channels : BOOLEAN, by_security : BOOLEAN, capable : BOOLEAN,
     required : BOOLEAN]

ApTypeOf ==
    [ssid : 0 .. 31, password : 0 .. 63, channel : 0 .. 13, max_connection : 0 .. 16]

ConfIInv ==
    /\ mode \subseteq {"sta", "ap"} /\ result \in {"ok", "err"}
    /\ sta \in StaTypeOf /\ ap \in ApTypeOf
    /\ client \in Clients \union {None} /\ point \in Points \union {None}
    /\ ConfKept
    /\ found \in Sights \union {<<>>} /\ counted \in Nat \union {None}
    /\ Conf!RecordsAreReal

LEMMA MinOfTwo ==
    ASSUME NEW m \in Nat, NEW n \in Nat
    PROVE  Conf!Min({m, n}) = IF m <= n THEN m ELSE n
<1> DEFINE least == IF m <= n THEN m ELSE n
<1>1. least \in {m, n} /\ \A y \in {m, n} : least <= y
  OBVIOUS
<1>2. \A x \in {m, n} : (\A y \in {m, n} : x <= y) => x = least
  OBVIOUS
<1> QED
  BY <1>1, <1>2 DEF Conf!Min

(* What is read of what C keeps has the types of the crate. *)
LEMMA ConfReads ==
    ASSUME sta \in StaTypeOf, ap \in ApTypeOf
    PROVE  /\ Conf!ClientOf(sta) \in Conf!ClientType
           /\ Conf!PointOf(ap) \in Conf!PointType
           /\ Conf!FitsTerminated(Conf!PointOf(ap).ssid, 32)
  BY DEF StaTypeOf, ApTypeOf, Conf!ClientOf, Conf!PointOf, Conf!ClientType,
         Conf!PointType, Conf!Channels, Conf!Methods, Conf!FitsTerminated

LEMMA ConfInitIInv == Conf!Init => ConfIInv
  BY DEF Conf!Init, ConfIInv, ConfKept, StaTypeOf, ApTypeOf, Conf!RecordsAreReal

(* set_sta_conf() and set_ap_conf(). *)
LEMMA SetStaKeeps ==
    ASSUME Conf!WifiConfAssumption, sta \in StaTypeOf, NEW c \in Clients,
           Conf!SetSta(c)
    PROVE  /\ sta' \in StaTypeOf
           /\ \E d \in Conf!KeptClient(c) :
                /\ Conf!SameChannel(Conf!ClientOf(sta'), d)
                /\ [Conf!ClientOf(sta') EXCEPT !.channel = None]
                     = [d EXCEPT !.channel = None]
<1>1. c \in Conf!ClientType
  BY DEF Conf!WifiConfAssumption
<1>2. CASE Conf!ClientOf(sta) = c
  <2>1. sta' = sta
    BY <1>2 DEF Conf!SetSta
  <2>2. c \in Conf!KeptClient(c) /\ Conf!SameChannel(c, c)
    BY DEF Conf!KeptClient, Conf!SameChannel
  <2> QED
    BY <1>2, <2>1, <2>2
<1>3. CASE Conf!ClientOf(sta) # c
  <2>1. sta' = Conf!StaConfig(c)
    BY <1>3 DEF Conf!SetSta
  <2>2. sta' \in StaTypeOf
    BY <1>1, <2>1 DEF Conf!StaConfig, Conf!ClientType, Conf!Channels, StaTypeOf
  <2> DEFINE d == [c EXCEPT !.pmf = "NotCapable"]
  <2>3. d \in Conf!KeptClient(c)
    BY DEF Conf!KeptClient
  <2>4. Conf!SameChannel(Conf!ClientOf(sta'), d)
    BY <1>1, <2>1 DEF Conf!SameChannel, Conf!StaConfig, Conf!ClientOf,
                      Conf!ClientType, Conf!Channels
  <2>5. [Conf!ClientOf(sta') EXCEPT !.channel = None] = [d EXCEPT !.channel = None]
    <3>1. c = [ssid |-> c.ssid, password |-> c.password, bssid |-> c.bssid,
               channel |-> c.channel, scan_method |-> c.scan_method, pmf |-> c.pmf]
      BY <1>1 DEF Conf!ClientType
    <3>2. d = [ssid |-> c.ssid, password |-> c.password, bssid |-> c.bssid,
               channel |-> c.channel, scan_method |-> c.scan_method,
               pmf |-> "NotCapable"]
      <4> DEFINE e == [ssid |-> c.ssid, password |-> c.password, bssid |-> c.bssid,
               channel |-> c.channel, scan_method |-> c.scan_method, pmf |-> c.pmf]
      <4>1. [e EXCEPT !.pmf = "NotCapable"] =
              [ssid |-> c.ssid, password |-> c.password, bssid |-> c.bssid,
               channel |-> c.channel, scan_method |-> c.scan_method,
               pmf |-> "NotCapable"]
        OBVIOUS
      <4>2. e = c
        BY <3>1
      <4> QED
        BY <4>1, <4>2
    <3> HIDE DEF d
    <3>6. [d EXCEPT !.channel = None] =
            [ssid |-> c.ssid, password |-> c.password, bssid |-> c.bssid,
             channel |-> None, scan_method |-> c.scan_method, pmf |-> "NotCapable"]
      BY <3>2
    <3> USE DEF d
    <3>3. c.scan_method \in Conf!Methods
      BY <1>1 DEF Conf!ClientType
    <3>4. /\ Conf!ClientOf(sta').scan_method = c.scan_method
          /\ Conf!ClientOf(sta').pmf = "NotCapable"
      BY <2>1, <3>3 DEF Conf!StaConfig, Conf!ClientOf, Conf!Methods
    <3>5. [Conf!ClientOf(sta') EXCEPT !.channel = None] =
            [ssid |-> c.ssid, password |-> c.password, bssid |-> c.bssid,
             channel |-> None, scan_method |-> Conf!ClientOf(sta').scan_method,
             pmf |-> Conf!ClientOf(sta').pmf]
      BY <2>1 DEF Conf!StaConfig, Conf!ClientOf
    <3> HIDE DEF d
    <3> QED
      BY <3>4, <3>5, <3>6
  <2> QED
    BY <2>2, <2>3, <2>4, <2>5
<1> QED
  BY <1>2, <1>3

LEMMA SetApKeeps ==
    ASSUME Conf!WifiConfAssumption, ap \in ApTypeOf, NEW p \in Points,
           Conf!SetAp(p)
    PROVE  ap' \in ApTypeOf /\ Conf!PointOf(ap') = Conf!KeptPoint(p)
<1>1. p \in Conf!PointType
  BY DEF Conf!WifiConfAssumption
<1>2. CASE Conf!PointOf(ap) = p
  <2>1. ap' = ap
    BY <1>2 DEF Conf!SetAp
  <2>2. p.protocols = FALSE /\ p.secondary_channel = None /\ ~ (p.max_connections > 16)
    BY <1>2 DEF Conf!PointOf, ApTypeOf
  <2> QED
    BY <1>1, <1>2, <2>1, <2>2 DEF Conf!KeptPoint, Conf!PointType
<1>3. CASE Conf!PointOf(ap) # p
  <2>1. ap' = Conf!ApConfig(p) /\ ~ Conf!ApRefused(p)
    BY <1>3 DEF Conf!SetAp
  <2>2. Conf!Min({p.max_connections, 16}) =
            IF p.max_connections <= 16 THEN p.max_connections ELSE 16
    BY <1>1, MinOfTwo DEF Conf!PointType
  <2>3. ap' = [ssid |-> p.ssid, password |-> p.password, channel |-> p.channel,
               max_connection |->
                  IF p.max_connections <= 16 THEN p.max_connections ELSE 16]
    BY <2>1, <2>2 DEF Conf!ApConfig
  <2>4. ap' \in ApTypeOf
    BY <1>1, <2>1, <2>3 DEF Conf!ApRefused, Conf!FitsTerminated, Conf!PointType,
                            ApTypeOf
  <2>5. Conf!PointOf(ap') = Conf!KeptPoint(p)
    <3>1. p.max_connections \in Nat
      BY <1>1 DEF Conf!PointType
    <3>2. Conf!KeptPoint(p) =
            [ssid |-> p.ssid, password |-> p.password, channel |-> p.channel,
             secondary_channel |-> None, protocols |-> FALSE, max_connections |->
                IF p.max_connections > 16 THEN 16 ELSE p.max_connections]
      BY DEF Conf!KeptPoint
    <3>3. (IF p.max_connections > 16 THEN 16 ELSE p.max_connections) =
            IF p.max_connections <= 16 THEN p.max_connections ELSE 16
      BY <3>1
    <3> QED
      BY <2>3, <3>2, <3>3 DEF Conf!PointOf
  <2> QED
    BY <2>4, <2>5
<1> QED
  BY <1>2, <1>3

LEMMA ConfSettingKeepsIInv ==
    ASSUME Conf!WifiConfAssumption, ConfIInv,
           \/ \E c \in Clients \union {None}, p \in Points \union {None} : Conf!Set(c, p)
           \/ Conf!RefuseMode
           \/ \E modes \in {{"sta"}, {"ap"}, {"sta", "ap"}} : Conf!RefuseFirst(modes)
           \/ \E c \in Clients : Conf!RefuseAp(c)
           \/ Conf!StartWps,
           UNCHANGED Conf!scanVars
    PROVE  ConfIInv'
<1> USE DEF ConfIInv, ConfKept, Conf!RecordsAreReal, Conf!scanVars
<1>1. ASSUME NEW c \in Clients \union {None}, NEW p \in Points \union {None},
             Conf!Set(c, p)
      PROVE  ConfIInv'
  <2>1. mode' \subseteq {"sta", "ap"} /\ result' = "ok"
    BY <1>1 DEF Conf!Set
  <2>2. /\ sta' \in StaTypeOf /\ client' \in Clients \union {None}
        /\ client' # None => \E d \in Conf!KeptClient(client') :
              /\ Conf!SameChannel(Conf!ClientOf(sta'), d)
              /\ [Conf!ClientOf(sta') EXCEPT !.channel = None]
                   = [d EXCEPT !.channel = None]
    <3>1. CASE c = None
      BY <1>1, <3>1 DEF Conf!Set
    <3>2. CASE c # None
      <4>1. c \in Clients /\ Conf!SetSta(c) /\ client' = c
        BY <1>1, <3>2 DEF Conf!Set
      <4> QED
        BY <4>1, SetStaKeeps
    <3> QED
      BY <3>1, <3>2
  <2>3. /\ ap' \in ApTypeOf /\ point' \in Points \union {None}
        /\ point' # None => Conf!PointOf(ap') = Conf!KeptPoint(point')
    <3>1. CASE p = None
      BY <1>1, <3>1 DEF Conf!Set
    <3>2. CASE p # None
      <4>1. p \in Points /\ Conf!SetAp(p) /\ point' = p
        BY <1>1, <3>2 DEF Conf!Set
      <4> QED
        BY <4>1, SetApKeeps
    <3> QED
      BY <3>1, <3>2
  <2> QED
    BY <2>1, <2>2, <2>3
<1>2. CASE Conf!RefuseMode
  BY <1>2 DEF Conf!RefuseMode
<1>3. ASSUME NEW modes \in {{"sta"}, {"ap"}, {"sta", "ap"}}, Conf!RefuseFirst(modes)
      PROVE  ConfIInv'
  BY <1>3 DEF Conf!RefuseFirst
<1>4. ASSUME NEW c \in Clients, Conf!RefuseAp(c) PROVE ConfIInv'
  <2>1. /\ mode' = {"sta", "ap"} /\ result' = "err" /\ client' = c
        /\ UNCHANGED <<ap, point>> /\ Conf!SetSta(c)
    BY <1>4 DEF Conf!RefuseAp
  <2>2. /\ sta' \in StaTypeOf
        /\ \E d \in Conf!KeptClient(c) :
              /\ Conf!SameChannel(Conf!ClientOf(sta'), d)
              /\ [Conf!ClientOf(sta') EXCEPT !.channel = None]
                   = [d EXCEPT !.channel = None]
    BY <2>1, SetStaKeeps
  <2> QED
    BY <2>1, <2>2
<1>5. CASE Conf!StartWps
  BY <1>5 DEF Conf!StartWps
<1> QED
  BY <1>1, <1>2, <1>3, <1>4, <1>5

(* The list of a scan is made of records that C has written.               *)
LEMMA FetchedAreReal ==
    ASSUME found \in Seq(Conf!RecordType), counted \in Nat,
           infos' = Conf!Infos(Conf!Fetched(Conf!Buffer))
    PROVE  Conf!RecordsAreReal'
<1> DEFINE buffer == Conf!Buffer
           n == IF counted <= Len(found) THEN counted ELSE Len(found)
           records == SubSeq(buffer, 1, n)
           kept == {k \in DOMAIN records : records[k].utf8}
<1>1. Len(found) \in Nat /\ n \in Nat /\ n <= counted /\ n <= Len(found)
  OBVIOUS
<1>2. Len(buffer) = counted
  BY DEF Conf!Buffer
<1>3. Conf!Fetched(buffer) = records
  BY <1>1, <1>2, MinOfTwo DEF Conf!Fetched
<1>4. \A i \in 1 .. n : buffer[i] \in Conf!RecordType
  <2> TAKE i \in 1 .. n
  <2>1. i \in 1 .. counted /\ i <= Len(found) /\ i \in 1 .. Len(found)
    BY <1>1
  <2>2. buffer[i] = found[i]
    BY <2>1 DEF Conf!Buffer
  <2> QED
    BY <2>1, <2>2, ElementOfSeq
<1>5. DOMAIN records = 1 .. n /\ \A i \in 1 .. n : records[i] \in Conf!RecordType
  <2> DEFINE first == 1
  <2>1. first \in Nat /\ first = 1
    OBVIOUS
  <2> HIDE DEF first, buffer, n
  <2>2. /\ SubSeq(buffer, first, n) \in Seq(Conf!RecordType)
        /\ Len(SubSeq(buffer, first, n)) =
                IF first <= n THEN n - first + 1 ELSE 0
    BY <1>1, <1>4, <2>1, SubSeqProperties
  <2>3. Len(records) = n /\ records \in Seq(Conf!RecordType)
    BY <1>1, <2>1, <2>2
  <2> HIDE DEF records
  <2>4. DOMAIN records = 1 .. n
    BY <2>3
  <2> QED
    BY <2>3, <2>4, ElementOfSeq
<1>6. kept \in SUBSET (1 .. n)
  BY <1>5
<1>7. infos' = [i \in 1 .. Cardinality(kept) |-> Conf!Info(records[Conf!Nth(kept, i)])]
  <2>1. Conf!Cardinality(kept) = Cardinality(kept)
    BY SameCardinality
  <2>2. infos' = [i \in 1 .. Conf!Cardinality(kept) |->
                    Conf!Info(records[Conf!Nth(kept, i)])]
    BY <1>3 DEF Conf!Infos
  <2> QED
    BY <2>1, <2>2
<1> HIDE DEF buffer, n, records, kept
<1>8. ASSUME NEW i \in DOMAIN infos'
      PROVE  infos'[i].auth_method \in Conf!AuthMethods \union {None}
  <2>1. i \in 1 .. Cardinality(kept)
    BY <1>7, <1>8
  <2>2. Conf!Nth(kept, i) \in 1 .. n
    BY <1>1, <1>6, <2>1, NthIsThere
  <2>3. records[Conf!Nth(kept, i)].authmode \in Conf!AuthMethods \union {"OWE"}
    BY <1>5, <2>2 DEF Conf!RecordType
  <2>4. infos'[i] = Conf!Info(records[Conf!Nth(kept, i)])
    BY <1>7, <2>1
  <2> QED
    BY <2>3, <2>4 DEF Conf!Info
<1> QED
  BY <1>8 DEF Conf!RecordsAreReal

LEMMA ConfScanKeepsIInv ==
    ASSUME Conf!WifiConfAssumption, ConfIInv,
           \/ \E sight \in Sights : Conf!ScanEnds(sight)
           \/ \E room \in {Room, Len(found)} : Conf!GetScanCount(room)
           \/ Conf!FetchScanResult
    PROVE  ConfIInv'
<1> USE DEF ConfIInv, ConfKept, Conf!confVars
<1>1. found \in Seq(Conf!RecordType) /\ Len(found) \in Nat
  <2>1. found \in Sights \union {<<>>}
    OBVIOUS
  <2>2. \A s \in Sights : s \in Seq(Conf!RecordType)
    BY DEF Conf!WifiConfAssumption
  <2> HIDE DEF ConfIInv, ConfKept
  <2>3. <<>> \in Seq(Conf!RecordType)
    BY EmptySeq
  <2>4. found \in Seq(Conf!RecordType)
    BY <2>1, <2>2, <2>3
  <2> QED
    BY <2>4
<1>2. ASSUME NEW sight \in Sights, Conf!ScanEnds(sight) PROVE ConfIInv'
  BY <1>2 DEF Conf!ScanEnds, Conf!RecordsAreReal
<1>3. ASSUME NEW room \in {Room, Len(found)}, Conf!GetScanCount(room) PROVE ConfIInv'
  <2>1. room \in Nat
    BY <1>1 DEF Conf!WifiConfAssumption
  <2>2. Conf!Min({Len(found), room}) \in Nat
    BY <1>1, <2>1, MinOfTwo
  <2> QED
    BY <1>3, <2>2 DEF Conf!GetScanCount, Conf!RecordsAreReal
<1>4. CASE Conf!FetchScanResult
  <2>1. counted \in Nat /\ counted' = None /\ UNCHANGED Conf!confVars
    BY <1>4 DEF Conf!FetchScanResult
  <2>2. CASE infos' = Conf!Infos(Conf!Fetched(Conf!Buffer)) /\ found' = <<>>
    <3>1. Conf!RecordsAreReal'
      BY <1>1, <2>1, <2>2, FetchedAreReal
    <3> QED
      BY <2>1, <2>2, <3>1
  <2>3. CASE UNCHANGED <<infos, found>>
    BY <2>1, <2>3 DEF Conf!RecordsAreReal
  <2> QED
    BY <1>4, <2>2, <2>3 DEF Conf!FetchScanResult
<1> QED
  BY <1>2, <1>3, <1>4

(* In every reachable state the inductive invariant holds.                 *)
THEOREM ConfInvariance ==
    ASSUME Conf!WifiConfAssumption PROVE Conf!Spec => []ConfIInv
<1>1. ConfIInv /\ [Conf!Next]_(Conf!vars) => ConfIInv'
  <2>1. ConfIInv /\ UNCHANGED Conf!vars => ConfIInv'
    BY DEF Conf!vars, Conf!confVars, Conf!scanVars, ConfIInv, ConfKept,
           Conf!RecordsAreReal
  <2> QED
    BY <2>1, ConfSettingKeepsIInv, ConfScanKeepsIInv DEF Conf!Next
<1> QED
  BY <1>1, ConfInitIInv, PTL DEF Conf!Spec

LEMMA ConfIInvIsSafe ==
    ConfIInv => Conf!TypeOK /\ Conf!ReadsTheLastWrite /\ Conf!RecordsAreReal
<1> SUFFICES ASSUME ConfIInv PROVE Conf!TypeOK /\ Conf!ReadsTheLastWrite
  BY DEF ConfIInv
<1>1. Conf!TypeOK
  BY ConfReads DEF ConfIInv, Conf!TypeOK
<1>2. "ap" \in mode => Conf!Configuration.ap = Conf!PointOf(ap)
  BY DEF Conf!Configuration
<1>3. Conf!ReadsTheLastWrite
  BY <1>2, ConfReads DEF ConfIInv, ConfKept, Conf!ReadsTheLastWrite
<1> QED
  BY <1>1, <1>3

-----------------------------------------------------------------------------
(* The partitions of the flash. What an iterator has given is what matches *)
(* before the place where it is.                                           *)

FlashMatches(i, k) == Flash!Matches(Flash!Wanted(filter[i]), Table[k])

FlashGiven ==
    \A i \in Iterators :
        /\ \A k, l \in DOMAIN given[i] : k < l => given[i][k] < given[i][l]
        /\ \A k \in DOMAIN given[i] : FlashMatches(i, given[i][k])
        /\ raw[i] # None =>
              /\ FlashMatches(i, raw[i])
              /\ \A k \in DOMAIN given[i] : given[i][k] < raw[i]
        /\ raw[i] # None \/ given[i] # <<>> =>
              \A k \in DOMAIN Table :
                  FlashMatches(i, k) /\ (raw[i] # None => k < raw[i]) =>
                      Flash!Contains(given[i], k)

FlashIInv == Flash!TypeOK /\ Flash!HandlesMatch /\ FlashGiven

(* A set of places that is not empty has a first one.                      *)
LEMMA FirstFromIsFirst ==
    ASSUME Flash!PartitionAssumption, NEW f, NEW place \in Nat \ {0}
    PROVE  LET first == Flash!FirstFrom(f, place)
               matches(k) == Flash!Matches(Flash!Wanted(f), Table[k])
           IN  /\ first \in DOMAIN Table \union {None}
               /\ first = None => \A k \in place .. Len(Table) : ~ matches(k)
               /\ first # None =>
                    /\ first >= place /\ matches(first)
                    /\ \A k \in place .. Len(Table) : matches(k) => first <= k
<1> DEFINE matches(k) == Flash!Matches(Flash!Wanted(f), Table[k])
           matching == {k \in place .. Len(Table) : matches(k)}
           first == Flash!FirstFrom(f, place)
<1>1. Len(Table) \in Nat /\ DOMAIN Table = 1 .. Len(Table) /\ None \notin Nat
  BY DEF Flash!PartitionAssumption
<1>2. \A k : k \in matching <=> k \in place .. Len(Table) /\ matches(k)
  OBVIOUS
<1>3. first = IF matching = {} THEN None
              ELSE CHOOSE k \in matching : \A l \in matching : k <= l
  BY DEF Flash!FirstFrom
<1> HIDE DEF matching, matches, first
<1>4. CASE matching = {}
  BY <1>1, <1>2, <1>3, <1>4 DEF first, matches
<1>5. CASE matching # {}
  <2>1. matching \subseteq Nat
    BY <1>1, <1>2
  <2>2. \E k \in matching : \A l \in matching : k <= l
    BY <1>5, <2>1, Smallest
  <2>3. first \in matching /\ \A l \in matching : first <= l
    BY <1>3, <1>5, <2>2
  <2>4. first \in place .. Len(Table) /\ first # None /\ matches(first)
    BY <1>1, <1>2, <2>3
  <2>5. first \in DOMAIN Table /\ first >= place
    BY <1>1, <2>4
  <2>6. \A k \in place .. Len(Table) : matches(k) => first <= k
    BY <1>2, <2>3
  <2> QED
    BY <2>4, <2>5, <2>6 DEF first, matches
<1> QED
  BY <1>4, <1>5

LEMMA FlashInitIInv ==
    ASSUME Flash!PartitionAssumption, Flash!Init PROVE FlashIInv
  BY DEF Flash!PartitionAssumption, Flash!Init, FlashIInv, Flash!TypeOK,
         Flash!HandlesMatch, FlashGiven

LEMMA FlashNewKeepsIInv ==
    ASSUME Flash!PartitionAssumption, FlashIInv, NEW i \in Iterators,
           NEW f \in Filters, Flash!New(i, f)
    PROVE  FlashIInv'
<1> DEFINE first == Flash!FirstFrom(f, 1)
<1>1. /\ i \notin allocated /\ raw[i] = None /\ given[i] = <<>>
      /\ filter' = [filter EXCEPT ![i] = f] /\ raw' = [raw EXCEPT ![i] = first]
      /\ allocated' = IF first = None THEN allocated ELSE allocated \union {i}
      /\ UNCHANGED <<given, use, partitionHandles>>
  BY DEF Flash!New
<1>2. /\ first \in DOMAIN Table \union {None}
      /\ first # None =>
            /\ Flash!Matches(Flash!Wanted(f), Table[first])
            /\ \A k \in 1 .. Len(Table) :
                  Flash!Matches(Flash!Wanted(f), Table[k]) => first <= k
  BY FirstFromIsFirst
<1>3. Flash!TypeOK' /\ Flash!HandlesMatch'
  BY <1>1, <1>2 DEF FlashIInv, Flash!TypeOK, Flash!HandlesMatch
<1>4. DOMAIN Table = 1 .. Len(Table) /\ Len(Table) \in Nat
  BY DEF Flash!PartitionAssumption
<1> HIDE DEF first
<1>5. FlashGiven'
  <2> SUFFICES ASSUME NEW j \in Iterators
               PROVE  /\ \A k, l \in DOMAIN given[j] : k < l => given[j][k] < given[j][l]
                      /\ \A k \in DOMAIN given[j] : FlashMatches(j, given[j][k])'
                      /\ raw'[j] # None =>
                            /\ FlashMatches(j, raw[j])'
                            /\ \A k \in DOMAIN given[j] : given[j][k] < raw'[j]
                      /\ raw'[j] # None \/ given[j] # <<>> =>
                            \A k \in DOMAIN Table :
                                FlashMatches(j, k)' /\ (raw'[j] # None => k < raw'[j])
                                    => Flash!Contains(given[j], k)
    BY <1>1 DEF FlashGiven, FlashMatches, Flash!Contains
  <2>1. CASE j # i
    <3>1. raw'[j] = raw[j] /\ filter'[j] = filter[j]
      BY <1>1, <2>1 DEF FlashIInv, Flash!TypeOK
    <3>2. given' = given
      BY <1>1
    <3>3. \A k : FlashMatches(j, k)' <=> FlashMatches(j, k)
      BY <3>1 DEF FlashMatches
    <3>4. /\ FlashMatches(j, raw[j])' <=> FlashMatches(j, raw[j])
          /\ \A k : FlashMatches(j, given[j][k])' <=> FlashMatches(j, given[j][k])
      BY <3>1, <3>2 DEF FlashMatches
    <3> QED
      BY <3>1, <3>3, <3>4 DEF FlashIInv, FlashGiven
  <2>2. CASE j = i
    <3>1. raw'[i] = first /\ filter'[i] = f /\ given[i] = <<>>
      BY <1>1 DEF FlashIInv, Flash!TypeOK
    <3>2. \A k \in 1 .. Len(Table) :
            Flash!Matches(Flash!Wanted(f), Table[k]) /\ first # None => ~ (k < first)
      BY <1>2, <1>4
    <3> QED
      BY <1>2, <1>4, <2>2, <3>1, <3>2 DEF FlashMatches
  <2> QED
    BY <2>1, <2>2
<1> QED
  BY <1>3, <1>5 DEF FlashIInv

LEMMA FlashNextKeepsIInv ==
    ASSUME Flash!PartitionAssumption, FlashIInv, NEW i \in Iterators,
           Flash!NextPartition(i)
    PROVE  FlashIInv'
<1> DEFINE place == raw[i]
           s == given[i]
           n == Len(s)
           next == Flash!FirstFrom(filter[i], place + 1)
           matches(k) == Flash!Matches(Flash!Wanted(filter[i]), Table[k])
<1>1. /\ raw[i] # None /\ given' = [given EXCEPT ![i] = Append(s, place)]
      /\ raw' = [raw EXCEPT ![i] = next]
      /\ allocated' = IF next = None THEN allocated \ {i} ELSE allocated
      /\ UNCHANGED <<filter, use, partitionHandles>>
  BY DEF Flash!NextPartition, Flash!Advance
<1>2. /\ place \in DOMAIN Table /\ s \in Seq(DOMAIN Table) /\ n \in Nat
      /\ DOMAIN s = 1 .. n
  BY <1>1 DEF FlashIInv, Flash!TypeOK
<1>3. DOMAIN Table = 1 .. Len(Table) /\ Len(Table) \in Nat /\ place \in Nat \ {0}
      /\ place + 1 \in Nat \ {0}
  BY <1>2 DEF Flash!PartitionAssumption
<1>4. /\ next \in DOMAIN Table \union {None}
      /\ next = None => \A k \in place + 1 .. Len(Table) : ~ matches(k)
      /\ next # None =>
            /\ next >= place + 1 /\ matches(next)
            /\ \A k \in place + 1 .. Len(Table) : matches(k) => next <= k
  BY <1>3, FirstFromIsFirst
<1>5. Append(s, place) \in Seq(DOMAIN Table) /\ Len(Append(s, place)) = n + 1
      /\ DOMAIN Append(s, place) = 1 .. n + 1
      /\ \A k \in 1 .. n : Append(s, place)[k] = s[k]
      /\ Append(s, place)[n + 1] = place
  BY <1>2, AppendProperties
<1> HIDE DEF next
<1>6. Flash!TypeOK' /\ Flash!HandlesMatch'
  <2>1. given' \in [Iterators -> Seq(DOMAIN Table)]
    BY <1>1, <1>5 DEF FlashIInv, Flash!TypeOK
  <2>2. raw' \in [Iterators -> DOMAIN Table \union {None}]
    BY <1>1, <1>4 DEF FlashIInv, Flash!TypeOK
  <2> QED
    BY <1>1, <2>1, <2>2 DEF FlashIInv, Flash!TypeOK, Flash!HandlesMatch
<1>7. /\ \A k, l \in 1 .. n : k < l => s[k] < s[l]
      /\ \A k \in 1 .. n : matches(s[k]) /\ s[k] < place
      /\ matches(place)
      /\ \A k \in DOMAIN Table : matches(k) /\ k < place => Flash!Contains(s, k)
  BY <1>1, <1>2 DEF FlashIInv, FlashGiven, FlashMatches
<1> DEFINE t == Append(s, place)
<1>8. t[n + 1] = place /\ DOMAIN t = 1 .. n + 1 /\ \A k \in 1 .. n : t[k] = s[k]
  BY <1>5
<1>9. \A k \in 1 .. n : s[k] \in Nat
  BY <1>2, <1>3, ElementOfSeq
<1> HIDE DEF t
<1>10. \A k, l \in 1 .. n + 1 : k < l => t[k] < t[l]
  <2> SUFFICES ASSUME NEW k \in 1 .. n + 1, NEW l \in 1 .. n + 1, k < l
               PROVE  t[k] < t[l]
    OBVIOUS
  <2>1. k \in 1 .. n
    BY <1>2
  <2>2. CASE l \in 1 .. n
    BY <1>7, <1>8, <2>1, <2>2
  <2>3. CASE l = n + 1
    BY <1>7, <1>8, <2>1, <2>3
  <2> QED
    BY <1>2, <2>2, <2>3
<1>11. \A k \in 1 .. n + 1 :
          matches(t[k]) /\ (next # None => t[k] < next)
  <2> TAKE k \in 1 .. n + 1
  <2>1. CASE k \in 1 .. n
    <3>1. t[k] = s[k] /\ s[k] < place /\ s[k] \in Nat /\ matches(s[k])
      BY <1>7, <1>8, <1>9, <2>1
    <3>2. next # None => next \in Nat /\ place < next
      BY <1>3, <1>4
    <3> QED
      BY <1>3, <3>1, <3>2
  <2>2. CASE k = n + 1
    <3>1. t[k] = place
      BY <1>8, <2>2
    <3>2. next # None => next \in Nat /\ place < next
      BY <1>3, <1>4
    <3> QED
      BY <1>7, <3>1, <3>2
  <2> QED
    BY <1>2, <2>1, <2>2
<1>12. \A k \in DOMAIN Table :
          matches(k) /\ (next # None => k < next) => Flash!Contains(t, k)
  <2> SUFFICES ASSUME NEW k \in DOMAIN Table, matches(k), next # None => k < next
               PROVE  \E l \in 1 .. n + 1 : t[l] = k
    BY <1>5 DEF Flash!Contains, t
  <2>1. k \in Nat /\ k <= Len(Table)
    BY <1>3
  <2>2. CASE k < place
    <3>1. PICK l \in 1 .. n : s[l] = k
      BY <1>7, <2>2 DEF Flash!Contains
    <3>2. l \in 1 .. n + 1 /\ t[l] = k
      BY <1>2, <1>8, <3>1
    <3> QED
      BY <3>2
  <2>3. CASE k = place
    <3>1. n + 1 \in 1 .. n + 1
      BY <1>2
    <3> QED
      BY <1>8, <2>3, <3>1
  <2>4. CASE k > place
    <3>1. k \in place + 1 .. Len(Table)
      BY <1>3, <2>1, <2>4
    <3>2. next # None => next \in Nat /\ next <= k
      BY <1>3, <1>4, <3>1
    <3> QED
      BY <1>4, <2>1, <3>1, <3>2
  <2> QED
    BY <1>3, <2>1, <2>2, <2>3, <2>4
<1>13. FlashGiven'
  <2> SUFFICES ASSUME NEW j \in Iterators
               PROVE  /\ \A k, l \in DOMAIN given'[j] : k < l => given'[j][k] < given'[j][l]
                      /\ \A k \in DOMAIN given'[j] : FlashMatches(j, given[j][k])'
                      /\ raw'[j] # None =>
                            /\ FlashMatches(j, raw[j])'
                            /\ \A k \in DOMAIN given'[j] : given'[j][k] < raw'[j]
                      /\ raw'[j] # None \/ given'[j] # <<>> =>
                            \A k \in DOMAIN Table :
                                FlashMatches(j, k)' /\ (raw'[j] # None => k < raw'[j])
                                    => Flash!Contains(given'[j], k)
    BY DEF FlashGiven, FlashMatches, Flash!Contains
  <2>1. CASE j # i
    <3>1. raw'[j] = raw[j] /\ given'[j] = given[j]
      BY <1>1, <2>1 DEF FlashIInv, Flash!TypeOK
    <3>2. filter' = filter
      BY <1>1
    <3>3. \A k : FlashMatches(j, k)' <=> FlashMatches(j, k)
      BY <3>2 DEF FlashMatches
    <3>4. /\ FlashMatches(j, raw[j])' <=> FlashMatches(j, raw[j])
          /\ \A k : FlashMatches(j, given[j][k])' <=> FlashMatches(j, given[j][k])
      BY <3>1, <3>2 DEF FlashMatches
    <3> QED
      BY <3>1, <3>3, <3>4 DEF FlashIInv, FlashGiven
  <2>2. CASE j = i
    <3>1. raw'[i] = next /\ given'[i] = t /\ filter' = filter
      BY <1>1 DEF FlashIInv, Flash!TypeOK, t
    <3>2. \A k : FlashMatches(i, k)' <=> matches(k)
      BY <3>1 DEF FlashMatches
    <3>3. /\ FlashMatches(i, raw[i])' <=> matches(next)
          /\ \A k : FlashMatches(i, given[i][k])' <=> matches(t[k])
      BY <3>1 DEF FlashMatches
    <3> HIDE DEF matches
    <3> QED
      BY <1>4, <1>8, <1>10, <1>11, <1>12, <2>2, <3>1, <3>2, <3>3
  <2> QED
    BY <2>1, <2>2
<1> QED
  BY <1>6, <1>13 DEF FlashIInv

LEMMA FlashDropKeepsIInv ==
    ASSUME FlashIInv, NEW i \in Iterators, Flash!DropIterator(i)
    PROVE  FlashIInv'
<1>1. /\ raw' = [raw EXCEPT ![i] = None] /\ given' = [given EXCEPT ![i] = <<>>]
      /\ allocated' = allocated \ {i} /\ UNCHANGED <<filter, use, partitionHandles>>
  BY DEF Flash!DropIterator
<1>2. Flash!TypeOK' /\ Flash!HandlesMatch'
  <2>1. <<>> \in Seq(DOMAIN Table)
    BY EmptySeq
  <2> QED
    BY <1>1, <2>1 DEF FlashIInv, Flash!TypeOK, Flash!HandlesMatch
<1>3. FlashGiven'
  <2> SUFFICES ASSUME NEW j \in Iterators
               PROVE  /\ \A k, l \in DOMAIN given'[j] : k < l => given'[j][k] < given'[j][l]
                      /\ \A k \in DOMAIN given'[j] : FlashMatches(j, given[j][k])'
                      /\ raw'[j] # None =>
                            /\ FlashMatches(j, raw[j])'
                            /\ \A k \in DOMAIN given'[j] : given'[j][k] < raw'[j]
                      /\ raw'[j] # None \/ given'[j] # <<>> =>
                            \A k \in DOMAIN Table :
                                FlashMatches(j, k)' /\ (raw'[j] # None => k < raw'[j])
                                    => Flash!Contains(given'[j], k)
    BY DEF FlashGiven, FlashMatches, Flash!Contains
  <2>1. CASE j # i
    <3>1. raw'[j] = raw[j] /\ given'[j] = given[j]
      BY <1>1, <2>1 DEF FlashIInv, Flash!TypeOK
    <3>2. filter' = filter
      BY <1>1
    <3>3. \A k : FlashMatches(j, k)' <=> FlashMatches(j, k)
      BY <3>2 DEF FlashMatches
    <3>4. /\ FlashMatches(j, raw[j])' <=> FlashMatches(j, raw[j])
          /\ \A k : FlashMatches(j, given[j][k])' <=> FlashMatches(j, given[j][k])
      BY <3>1, <3>2 DEF FlashMatches
    <3> QED
      BY <3>1, <3>3, <3>4 DEF FlashIInv, FlashGiven
  <2>2. CASE j = i
    <3>1. raw'[i] = None /\ given'[i] = <<>>
      BY <1>1 DEF FlashIInv, Flash!TypeOK
    <3> QED
      BY <2>2, <3>1
  <2> QED
    BY <2>1, <2>2
<1> QED
  BY <1>2, <1>3 DEF FlashIInv

LEMMA FlashStepKeepsIInv ==
    ASSUME Flash!PartitionAssumption, FlashIInv, [Flash!Next]_(Flash!vars)
    PROVE  FlashIInv'
<1> USE DEF FlashIInv, FlashGiven, FlashMatches, Flash!TypeOK, Flash!HandlesMatch,
            Flash!Contains
<1>1. CASE UNCHANGED Flash!vars
  BY <1>1 DEF Flash!vars
<1>2. ASSUME NEW by \in {"mmap", "wl"}, Flash!Open(by) PROVE FlashIInv'
  BY <1>2, ZenonT(60) DEF Flash!Open
<1>3. CASE Flash!Close
  BY <1>3 DEF Flash!Close, Flash!Release
<1> QED
  BY <1>1, <1>2, <1>3, FlashNewKeepsIInv, FlashNextKeepsIInv, FlashDropKeepsIInv
  DEF Flash!Next

(* In every reachable state the inductive invariant holds.                 *)
THEOREM FlashInvariance ==
    ASSUME Flash!PartitionAssumption PROVE Flash!Spec => []FlashIInv
<1>1. Flash!Init => FlashIInv
  BY FlashInitIInv
<1>2. FlashIInv /\ [Flash!Next]_(Flash!vars) => FlashIInv'
  BY FlashStepKeepsIInv
<1> QED
  BY <1>1, <1>2, PTL DEF Flash!Spec

(* The numbers of the data subtypes differ.                                *)
LEMMA DataNumbersDiffer ==
    /\ \A d \in Flash!DataSubtypes :
          d # "Unknown" /\ Flash!DataNumber[d] \in 0 .. 254
    /\ \A c, d \in Flash!DataSubtypes :
          Flash!DataNumber[c] = Flash!DataNumber[d] => c = d
  BY DEF Flash!DataSubtypes, Flash!DataNumber

(* A number of the table is a type, and the number of that type again.     *)
LEMMA TypeOfNumber ==
    ASSUME NEW e \in Flash!Entry
    PROVE  LET t == Flash!PartitionType(e) IN
           t \in Flash!Types /\ (t.of # "Unknown" => Flash!Raw(t) = e)
<1> USE DEF Flash!Entry, Flash!OTA_MIN, Flash!OTA_MAX, Flash!TEST
<1>1. e = [type |-> e.type, subtype |-> e.subtype] /\ e.type \in {0, 1}
      /\ e.subtype \in 0 .. 254
  OBVIOUS
<1>2. CASE e.type = 0 /\ e.subtype = 0
  BY <1>1, <1>2 DEF Flash!PartitionType, Flash!Types, Flash!Raw
<1>3. CASE e.type = 0 /\ e.subtype = 32
  BY <1>1, <1>3, SMTT(40) DEF Flash!PartitionType, Flash!Types, Flash!Raw
<1>4. CASE e.type = 0 /\ e.subtype \in 16 .. 31
  BY <1>1, <1>4, SMTT(40) DEF Flash!PartitionType, Flash!Types, Flash!Raw
<1>5. CASE e.type = 0 /\ e.subtype \notin {0} \union 16 .. 32
  BY <1>1, <1>5, SMTT(40) DEF Flash!PartitionType, Flash!Types, Flash!Raw
<1>6. CASE e.type = 1
  <2> DEFINE known == \E d \in Flash!DataSubtypes : Flash!DataNumber[d] = e.subtype
             of == IF known
                   THEN CHOOSE d \in Flash!DataSubtypes : Flash!DataNumber[d] = e.subtype
                   ELSE "Unknown"
             t == [kind |-> "Data", n |-> 0, of |-> of]
  <2>1. Flash!PartitionType(e) = t
    BY <1>6 DEF Flash!PartitionType
  <2>2. IF known THEN of \in Flash!DataSubtypes /\ Flash!DataNumber[of] = e.subtype
                 ELSE of = "Unknown"
    OBVIOUS
  <2> HIDE DEF of, known
  <2>3. t \in Flash!Types
    BY <2>2 DEF Flash!Types
  <2>4. t.of # "Unknown" => Flash!Raw(t) = e
    BY <1>1, <1>6, <2>2 DEF Flash!Raw
  <2> QED
    BY <2>1, <2>3, <2>4
<1> QED
  BY <1>1, <1>2, <1>3, <1>4, <1>5, <1>6

(* What matches a type is of that type. *)
LEMMA MatchHasType ==
    ASSUME NEW f \in Flash!Types, NEW e \in Flash!Entry, f.of # "Unknown",
           f.n < Flash!OTA_MAX - Flash!OTA_MIN, Flash!Matches(Flash!Raw(f), e)
    PROVE  Flash!PartitionType(e) = f
<1> USE DEF Flash!Entry, Flash!OTA_MIN, Flash!OTA_MAX, Flash!TEST, Flash!ANY,
            Flash!Matches
<1>1. e.type \in {0, 1} /\ e.subtype \in 0 .. 254
  OBVIOUS
<1>2. CASE f.kind = "App" /\ f.of = "Factory"
  BY <1>1, <1>2 DEF Flash!PartitionType, Flash!Types, Flash!Raw
<1>3. CASE f.kind = "App" /\ f.of = "Test"
  BY <1>1, <1>3, SMTT(40) DEF Flash!PartitionType, Flash!Types, Flash!Raw
<1>4. CASE f.kind = "App" /\ f.of = "Ota"
  <2>1. f = [kind |-> "App", of |-> "Ota", n |-> f.n] /\ f.n \in 0 .. 15
    BY <1>4 DEF Flash!Types
  <2>2. Flash!Raw(f) = [type |-> 0, subtype |-> 16 + f.n]
    BY <2>1 DEF Flash!Raw
  <2>3. e.type = 0 /\ e.subtype = 16 + f.n
    BY <1>1, <2>1, <2>2
  <2> QED
    BY <2>1, <2>3 DEF Flash!PartitionType
<1>5. CASE f.kind = "Data"
  <2>1. f = [kind |-> "Data", of |-> f.of, n |-> 0] /\ f.of \in Flash!DataSubtypes
    BY <1>5 DEF Flash!Types
  <2>2. Flash!Raw(f) = [type |-> 1, subtype |-> Flash!DataNumber[f.of]]
    BY <2>1 DEF Flash!Raw
  <2>3. e.type = 1 /\ e.subtype = Flash!DataNumber[f.of]
    BY <1>1, <2>1, <2>2, DataNumbersDiffer
  <2>4. (CHOOSE d \in Flash!DataSubtypes : Flash!DataNumber[d] = e.subtype) = f.of
    BY <2>1, <2>3, DataNumbersDiffer
  <2> QED
    BY <2>1, <2>3, <2>4 DEF Flash!PartitionType
<1> QED
  BY <1>2, <1>3, <1>4, <1>5 DEF Flash!Types

LEMMA FlashIInvIsSafe ==
    ASSUME Flash!PartitionAssumption, FlashIInv
    PROVE  /\ Flash!TypeOK /\ Flash!HandlesMatch
           /\ Flash!TypesAreFaithful /\ Flash!EachPartitionOnce
<1>1. \A k \in DOMAIN Table : Table[k] \in Flash!Entry
  BY ElementOfSeq DEF Flash!PartitionAssumption
<1>2. Flash!TypesAreFaithful
  BY <1>1, TypeOfNumber DEF Flash!TypesAreFaithful
<1>3. ASSUME NEW i \in Iterators, NEW k \in DOMAIN given[i], filter[i] # None,
             filter[i].of # "Unknown", filter[i].n < Flash!OTA_MAX - Flash!OTA_MIN
      PROVE  Flash!PartitionType(Table[given[i][k]]) = filter[i]
  <2>1. filter[i] \in Flash!Types
    BY <1>3 DEF FlashIInv, Flash!TypeOK, Flash!PartitionAssumption
  <2>2. given[i][k] \in DOMAIN Table
    BY ElementOfSeq DEF FlashIInv, Flash!TypeOK
  <2>3. Flash!Matches(Flash!Raw(filter[i]), Table[given[i][k]])
    BY <1>3 DEF FlashIInv, FlashGiven, FlashMatches, Flash!Wanted
  <2> QED
    BY <1>1, <1>3, <2>1, <2>2, <2>3, MatchHasType
<1>4. ASSUME NEW i \in Iterators, raw[i] = None, given[i] # <<>>
      PROVE  \A k \in DOMAIN Table :
                Flash!Matches(Flash!Wanted(filter[i]), Table[k]) =>
                    Flash!Contains(given[i], k)
  BY <1>4 DEF FlashIInv, FlashGiven, FlashMatches
<1>5. Flash!EachPartitionOnce
  BY <1>3, <1>4 DEF FlashIInv, FlashGiven, Flash!EachPartitionOnce
<1> QED
  BY <1>2, <1>5 DEF FlashIInv

(* What is erased is what was asked for. *)
LEMMA ErasedIsTheRange ==
    ASSUME Flash!PartitionAssumption PROVE Flash!ErasesTheRange
<1> SUFFICES ASSUME NEW from \in 0 .. Size + ErasePage, NEW to \in 0 .. Size + ErasePage
             PROVE  /\ Flash!Erase(from, to).error = "none" =>
                         from <= to /\ Flash!Erase(from, to).erased = from .. to - 1
                    /\ Flash!Erase(from, to).error # "none" =>
                         Flash!Erase(from, to).erased = {}
  BY DEF Flash!ErasesTheRange
<1>1. from \in Nat /\ to \in Nat
  BY DEF Flash!PartitionAssumption
<1>2. CASE to < from
  BY <1>1, <1>2 DEF Flash!Erase, Flash!Fails, Flash!ErrorKind
<1>3. CASE from <= to
  <2> DEFINE size == to - from
             reply == Flash!EraseRange(from, size)
  <2>1. Flash!Erase(from, to) = reply
    BY <1>1, <1>3 DEF Flash!Erase
  <2>2. from + size - 1 = to - 1
    BY <1>1
  <2> HIDE DEF size
  <2>3. \/ reply = Flash!Fails("ESP_ERR_INVALID_SIZE")
        \/ reply = Flash!Fails("ESP_ERR_INVALID_ARG")
        \/ reply = [error |-> "none", erased |-> from .. from + size - 1]
    BY DEF Flash!EraseRange
  <2>4. \A code : Flash!Fails(code).error # "none" /\ Flash!Fails(code).erased = {}
    BY DEF Flash!Fails, Flash!ErrorKind
  <2> HIDE DEF reply
  <2> QED
    BY <1>3, <2>1, <2>2, <2>3, <2>4
<1> QED
  BY <1>1, <1>2, <1>3

-----------------------------------------------------------------------------
(* The SRP client. A buffer is written only while its place is free, and a  *)
(* place is free only while OpenThread does not have it.                    *)

(* A host without a name is none. *)
SrpHost == host.conf = None => host = SrpClient!NoHost

SrpIInv ==
    /\ SrpClient!TypeOK /\ SrpHost
    /\ SrpClient!MemoryIsStable /\ SrpClient!SlotsComeBack

LEMMA SrpInitIInv ==
    ASSUME SrpClient!SrpAssumption, SrpClient!Init PROVE SrpIInv
  BY DEF SrpClient!SrpAssumption, SrpClient!Init, SrpIInv, SrpHost,
     SrpClient!TypeOK,
         SrpClient!MemoryIsStable, SrpClient!SlotsComeBack, SrpClient!Listed,
         SrpClient!OutServices, SrpClient!NoHost, SrpClient!IsEmpty,
         SrpClient!States

(* The place that is given out is free. *)
LEMMA FirstFreeIsFree ==
    ASSUME SrpClient!SrpAssumption, SrpClient!FreeSlots # {}
    PROVE  SrpClient!FirstFree \in Slots \ srpTaken
<1>1. SrpClient!FreeSlots \subseteq Nat
  BY DEF SrpClient!SrpAssumption, SrpClient!FreeSlots
<1>2. \E s \in SrpClient!FreeSlots : \A t \in SrpClient!FreeSlots : s <= t
  <2> HIDE DEF SrpClient!FreeSlots
  <2> QED
    BY <1>1, Smallest
<1>3. SrpClient!FirstFree \in SrpClient!FreeSlots
  BY <1>2 DEF SrpClient!FirstFree
<1> QED
  BY <1>3 DEF SrpClient!FreeSlots

LEMMA SrpStepKeepsIInv ==
    ASSUME SrpClient!SrpAssumption, SrpIInv, [SrpClient!Next]_(SrpClient!vars)
    PROVE  SrpIInv'
<1> USE DEF SrpIInv, SrpHost, SrpClient!TypeOK, SrpClient!MemoryIsStable,
            SrpClient!SlotsComeBack, SrpClient!Listed, SrpClient!OutServices,
            SrpClient!NoHost, SrpClient!IsEmpty, SrpClient!States,
            SrpClient!SrpAssumption
<1>1. CASE UNCHANGED SrpClient!vars
  BY <1>1 DEF SrpClient!vars
<1>2. ASSUME NEW c \in Hosts, SrpClient!SetConf(c) PROVE SrpIInv'
  <2>1. ~ conf_taken /\ host = SrpClient!NoHost
    BY <1>2 DEF SrpClient!SetConf
  <2>2. /\ conf_buf' = c
        /\ UNCHANGED <<srpTaken, buf, list, added, srpRunning, srpPanicked>>
    BY <1>2 DEF SrpClient!SetConf, SrpClient!StoreConf
  <2>3. \/ UNCHANGED <<conf_taken, host>>
        \/ conf_taken' = TRUE /\ host' = host
        \/ conf_taken' = TRUE /\ host' = [conf |-> c, state |-> "ToAdd"]
    BY <1>2 DEF SrpClient!SetConf, SrpClient!TakeConf
  <2>4. SrpClient!TypeOK'
    <3>1. host' \in [conf : Hosts \union {None},
                    state : SrpClient!States \union {"Removed"}]
      BY <2>3
    <3>2. conf_taken' \in BOOLEAN
      BY <2>3
    <3> QED
      BY <2>2, <3>1, <3>2
  <2>5. SrpHost' /\ SrpClient!MemoryIsStable'
    BY <2>1, <2>2, <2>3
  <2>6. SrpClient!SlotsComeBack'
    BY <2>1, <2>2, <2>3
  <2> QED
    BY <2>4, <2>5, <2>6
<1>3. ASSUME NEW published \in Services, SrpClient!AddService(published),
             UNCHANGED <<conf_taken, conf_buf, host, srpRunning>>
      PROVE  SrpIInv'
  <2>1. CASE SrpClient!FreeSlots = {}
    BY <1>3, <2>1 DEF SrpClient!AddService
  <2>2. CASE SrpClient!FreeSlots # {}
    <3> DEFINE place == SrpClient!FirstFree
    <3>1. place \in Slots \ srpTaken
      BY <2>2, FirstFreeIsFree
    <3> HIDE DEF place
    <3>2. buf' = [buf EXCEPT ![place] = published] /\ srpPanicked' = srpPanicked
      BY <1>3, <2>2 DEF SrpClient!AddService, SrpClient!StoreService, place
    <3>3. \/ /\ list' = [list EXCEPT ![place] = "ToAdd"]
             /\ added' = [added EXCEPT ![place] = published]
             /\ srpTaken' = srpTaken \union {place}
          \/ UNCHANGED <<list, added, srpTaken>>
      BY <1>3, <2>2 DEF SrpClient!AddService, place
    <3> QED
      BY <1>3, <3>1, <3>2, <3>3
  <2> QED
    BY <2>1, <2>2
<1>4. ASSUME NEW place \in Slots,
             SrpClient!ClearService(place) \/ SrpClient!RemoveService(place),
             UNCHANGED <<conf_taken, conf_buf, buf, host, added, srpRunning,
                         srpPanicked>>
      PROVE  SrpIInv'
  <2>1. CASE SrpClient!ClearService(place)
    BY <1>4, <2>1 DEF SrpClient!ClearService
  <2>2. CASE SrpClient!RemoveService(place)
    <3>1. srpTaken' = srpTaken
      BY <1>4, <2>2 DEF SrpClient!RemoveService, SrpClient!Schedule
    <3>2. list' = list \/ list' = [list EXCEPT ![place] = "ToRemove"]
      BY <1>4, <2>2 DEF SrpClient!RemoveService, SrpClient!Schedule
    <3>3. list' = list \/ list[place] # None
      BY <1>4, <2>2 DEF SrpClient!RemoveService
    <3>4. list' \in [Slots -> SrpClient!States \union {None}]
      BY <3>2
    <3>5. \A s \in Slots : list'[s] # None <=> list[s] # None
      BY <3>2, <3>3
    <3> QED
      BY <1>4, <3>1, <3>4, <3>5, ZenonT(60)
  <2> QED
    BY <1>4, <2>1, <2>2
<1>5. ASSUME SrpClient!RemoveServiceBeyond,
             UNCHANGED <<conf_taken, conf_buf, srpTaken, buf, host, list, added,
                         srpRunning>>
      PROVE  SrpIInv'
  BY <1>5 DEF SrpClient!RemoveServiceBeyond
<1>6. ASSUME SrpClient!ClearAll,
             UNCHANGED <<conf_buf, buf, added, srpRunning, srpPanicked>>
      PROVE  SrpIInv'
  BY <1>6 DEF SrpClient!ClearAll
<1>7. ASSUME SrpClient!RemoveAll,
             UNCHANGED <<conf_taken, conf_buf, srpTaken, buf, added, srpRunning,
                         srpPanicked>>
      PROVE  SrpIInv'
  BY <1>7 DEF SrpClient!RemoveAll
<1>8. CASE SrpClient!StartStop
  BY <1>8 DEF SrpClient!StartStop
<1>9. CASE SrpClient!Answer
  BY <1>9 DEF SrpClient!Answer, SrpClient!Cleanup
<1> QED
  BY <1>1, <1>2, <1>3, <1>4, <1>5, <1>6, <1>7, <1>8, <1>9 DEF SrpClient!Next

(* In every reachable state the inductive invariant holds.                 *)
THEOREM SrpInvariance ==
    ASSUME SrpClient!SrpAssumption PROVE SrpClient!Spec => []SrpIInv
<1>1. SrpClient!Init => SrpIInv
  BY SrpInitIInv
<1>2. SrpIInv /\ [SrpClient!Next]_(SrpClient!vars) => SrpIInv'
  BY SrpStepKeepsIInv
<1> QED
  BY <1>1, <1>2, PTL DEF SrpClient!Spec

-----------------------------------------------------------------------------
(* The cache of the GATT client. What a query has left in the slice are    *)
(* elements that C has found, and the pages so far are a prefix of what    *)
(* there is.                                                               *)

ClientElements == [kind : Client!Kinds, uuid : Uuids, handle : Nat \ {0}]
ClientSlots == ClientElements \union {Client!Blank}

ClientPages ==
    query \in Client!Paged /\ ~ changed =>
        /\ Len(collected) <= Len(Client!FoundPaged)
        /\ \A i \in 1 .. Len(collected) : collected[i] = Client!FoundPaged[i]
        /\ phase = "answered" =>
              /\ answer = Client!Least(Len(Client!FoundPaged) - Len(collected),
                                       Len(results))
              /\ \A i \in 1 .. answer :
                    results[i] = Client!FoundPaged[Len(collected) + i]
        /\ phase = "refused" => Len(collected) >= Len(Client!FoundPaged)

ClientIInv ==
    /\ Client!TypeOK
    /\ results \in Seq(ClientSlots) /\ collected \in Seq(ClientSlots)
    /\ Client!ReportsWhatIsThere /\ ClientPages

(* A handle is the place of its element in the cache.                      *)
LEMMA CacheHasPlaces ==
    ASSUME Client!GattClientAssumption, Client!TypeOK
    PROVE  /\ cache \in Seq(ClientElements)
           /\ Len(cache) \in Nat /\ DOMAIN cache = 1 .. Len(cache)
           /\ \A k \in DOMAIN cache : cache[k].handle = k
<1>1. PICK db \in Contents : cache = Client!Database(db)
  BY DEF Client!TypeOK
<1>2. db \in Seq([kind : Client!Kinds, uuid : Uuids])
  BY DEF Client!GattClientAssumption
<1>3. DOMAIN db = 1 .. Len(db) /\ Len(db) \in Nat
  BY <1>2
<1>4. \A k \in 1 .. Len(db) : db[k] \in [kind : Client!Kinds, uuid : Uuids]
  BY <1>2, ElementOfSeq
<1>5. cache = [i \in 1 .. Len(db) |->
                [kind |-> db[i].kind, uuid |-> db[i].uuid, handle |-> i]]
  BY <1>1, <1>3 DEF Client!Database
<1> DEFINE n == Len(db)
<1>6. n \in Nat
  BY <1>3
<1> HIDE DEF n
<1>7. cache \in [1 .. n -> ClientElements]
  BY <1>4, <1>5, <1>6 DEF ClientElements, n
<1>8. cache \in Seq(ClientElements) /\ Len(cache) = n
  BY <1>6, <1>7
<1> QED
  BY <1>5, <1>6, <1>7, <1>8 DEF n

(* What C finds at a set of places. *)
LEMMA FoundAtPlaces ==
    ASSUME Client!GattClientAssumption, Client!TypeOK, NEW S \in SUBSET DOMAIN cache
    PROVE  /\ Client!At(S) \in Seq(ClientElements)
           /\ Cardinality(S) \in Nat /\ Len(Client!At(S)) = Cardinality(S)
           /\ DOMAIN Client!At(S) = 1 .. Cardinality(S)
           /\ \A n \in 1 .. Cardinality(S) : Client!At(S)[n] = cache[Client!Nth(S, n)]
<1> DEFINE n == Cardinality(S)
<1>1. Len(cache) \in Nat /\ S \in SUBSET (1 .. Len(cache))
  BY CacheHasPlaces
<1>2. n \in Nat
  <2>1. IsFiniteSet(1 .. Len(cache))
    BY <1>1, FS_Interval
  <2>2. IsFiniteSet(S)
    BY <1>1, <2>1, FS_Subset
  <2> QED
    BY <2>2, FS_CardinalityType
<1>3. Client!At(S) = [i \in 1 .. n |-> cache[Client!Nth(S, i)]]
  <2>1. Client!Cardinality(S) = n
    BY SameCardinality
  <2> QED
    BY <2>1 DEF Client!At
<1>4. \A i \in 1 .. n : cache[Client!Nth(S, i)] \in ClientElements
  <2> TAKE i \in 1 .. n
  <2>1. Client!Nth(S, i) \in 1 .. Len(cache)
    BY <1>1, NthIsThere
  <2> QED
    BY <2>1, CacheHasPlaces, ElementOfSeq
<1> HIDE DEF n
<1>5. Client!At(S) \in [1 .. n -> ClientElements]
  BY <1>3, <1>4
<1>6. Client!At(S) \in Seq(ClientElements) /\ Len(Client!At(S)) = n
  BY <1>2, <1>5
<1> QED
  BY <1>2, <1>3, <1>6 DEF n

LEMMA WhatIsFound ==
    ASSUME Client!GattClientAssumption, Client!TypeOK
    PROVE  /\ \A uuid : Client!GetService(uuid) \in Seq(ClientElements)
           /\ Client!GetAllCharacteristics \in Seq(ClientElements)
           /\ \A h : Client!GetAllDescriptors(h) \in Seq(ClientElements)
           /\ \A uuid : Client!GetCharacteristicByUuid(uuid) \in Seq(ClientElements)
           /\ \A c, uuid : Client!GetDescriptorByUuid(c, uuid) \in Seq(ClientElements)
           /\ \A h, uuid :
                Client!GetDescriptorByCharHandle(h, uuid) \in Seq(ClientElements)
           /\ \A uuid : Client!GetIncludeService(uuid) \in Seq(ClientElements)
           /\ Client!GetDb \in Seq(ClientElements)
<1>1. /\ Client!CharPlaces \in SUBSET DOMAIN cache
      /\ \A h : Client!DescriptorsOf(h) \in SUBSET DOMAIN cache
      /\ \A uuid : Client!ServicesOf(uuid) \in SUBSET DOMAIN cache
  BY DEF Client!CharPlaces, Client!DescriptorsOf, Client!ServicesOf
<1>2. \A S \in SUBSET DOMAIN cache : Client!At(S) \in Seq(ClientElements)
  BY FoundAtPlaces
<1>3. \A uuid : Client!GetService(uuid) \in Seq(ClientElements)
  BY <1>1, <1>2 DEF Client!GetService
<1>4. Client!GetAllCharacteristics \in Seq(ClientElements)
  BY <1>1, <1>2 DEF Client!GetAllCharacteristics
<1>5. \A h : Client!GetAllDescriptors(h) \in Seq(ClientElements)
  BY <1>1, <1>2 DEF Client!GetAllDescriptors
<1>6. \A uuid : Client!GetCharacteristicByUuid(uuid) \in Seq(ClientElements)
  BY <1>1, <1>2 DEF Client!GetCharacteristicByUuid
<1>7. \A c, uuid : Client!GetDescriptorByUuid(c, uuid) \in Seq(ClientElements)
  BY <1>2 DEF Client!GetDescriptorByUuid
<1>8. \A h, uuid :
          Client!GetDescriptorByCharHandle(h, uuid) \in Seq(ClientElements)
  BY <1>1, <1>2 DEF Client!GetDescriptorByCharHandle
<1>9. \A uuid : Client!GetIncludeService(uuid) \in Seq(ClientElements)
  BY <1>2 DEF Client!GetIncludeService
<1>10. Client!GetDb \in Seq(ClientElements)
  BY CacheHasPlaces DEF Client!GetDb
<1> QED
  BY <1>3, <1>4, <1>5, <1>6, <1>7, <1>8, <1>9, <1>10

LEMMA FoundPagedType ==
    ASSUME Client!GattClientAssumption, Client!TypeOK, query \in Client!Paged
    PROVE  Client!FoundPaged \in Seq(ClientElements)
  BY WhatIsFound DEF Client!FoundPaged, Client!Paged

(* They depend on nothing but the cache. *)
LEMMA FoundIsOfTheCache ==
    ASSUME cache' = cache
    PROVE  /\ \A uuid : Client!GetService(uuid)' = Client!GetService(uuid)
           /\ Client!GetAllCharacteristics' = Client!GetAllCharacteristics
           /\ \A h : Client!GetAllDescriptors(h)' = Client!GetAllDescriptors(h)
           /\ Client!SomeChar' = Client!SomeChar
  BY DEF Client!GetService, Client!ServicesOf, Client!GetAllCharacteristics,
         Client!GetAllDescriptors, Client!SomeChar, Client!DescriptorsOf,
         Client!CharPlaces, Client!At

(* What C writes, and where. *)
LEMMA WrittenElements ==
    ASSUME NEW s \in Seq(ClientElements), NEW offset \in Nat, NEW count \in Nat
    PROVE  LET w == Client!Written(s, offset, count)
               n == IF offset > Len(s) THEN 0
                    ELSE Client!Least(Len(s) - offset, count)
           IN  /\ w \in Seq(ClientElements) /\ Len(w) = n
               /\ \A i \in 1 .. n : w[i] = s[offset + i]
<1> DEFINE w == Client!Written(s, offset, count)
           n == IF offset > Len(s) THEN 0 ELSE Client!Least(Len(s) - offset, count)
           first == offset + 1
           final == Client!Least(offset + count, Len(s))
<1>1. Len(s) \in Nat /\ first \in Nat /\ final \in Nat /\ first = offset + 1
      /\ final <= Len(s) /\ n \in Nat
      /\ n = IF first <= final THEN final - first + 1 ELSE 0
  BY DEF Client!Least
<1>2. w = SubSeq(s, first, final)
  BY DEF Client!Written
<1> HIDE DEF w, n, first, final
<1>3. \A i \in first .. final : s[i] \in ClientElements
  <2> TAKE i \in first .. final
  <2>1. i \in 1 .. Len(s)
    BY <1>1
  <2> QED
    BY <2>1, ElementOfSeq
<1>4. /\ w \in Seq(ClientElements)
      /\ Len(w) = IF first <= final THEN final - first + 1 ELSE 0
      /\ \A i \in 1 .. final - first + 1 : w[i] = s[first + i - 1]
  BY <1>1, <1>2, <1>3, SubSeqProperties
<1>5. \A i \in 1 .. n : w[i] = s[offset + i]
  <2> TAKE i \in 1 .. n
  <2>1. i \in 1 .. final - first + 1 /\ first + i - 1 = offset + i
    BY <1>1
  <2> QED
    BY <1>4, <2>1
<1> QED
  BY <1>1, <1>4, <1>5 DEF w, n

LEMMA OverlaidSlice ==
    ASSUME NEW s \in Seq(ClientSlots), NEW w \in Seq(ClientElements)
    PROVE  LET o == Client!Overlay(s, w)
           IN  /\ o \in Seq(ClientSlots) /\ Len(o) = Len(s)
               /\ \A i \in 1 .. Len(s) : i <= Len(w) => o[i] = w[i]
<1> DEFINE o == Client!Overlay(s, w)
           n == Len(s)
<1>1. n \in Nat /\ DOMAIN s = 1 .. n /\ Len(w) \in Nat
  OBVIOUS
<1>2. o = [i \in 1 .. n |-> IF i <= Len(w) THEN w[i] ELSE s[i]]
  BY <1>1 DEF Client!Overlay
<1> HIDE DEF o, n
<1>3. \A i \in 1 .. n : (IF i <= Len(w) THEN w[i] ELSE s[i]) \in ClientSlots
  <2> TAKE i \in 1 .. n
  <2>1. s[i] \in ClientSlots
    BY ElementOfSeq DEF n
  <2>2. i <= Len(w) => w[i] \in ClientElements
    BY <1>1, ElementOfSeq
  <2> QED
    BY <2>1, <2>2 DEF ClientSlots
<1>4. o \in [1 .. n -> ClientSlots]
  BY <1>2, <1>3
<1>5. o \in Seq(ClientSlots) /\ Len(o) = n
  BY <1>1, <1>4
<1> QED
  BY <1>1, <1>2, <1>5 DEF o, n

LEMMA NotBlank == \A e \in ClientElements : e # Client!Blank
  BY DEF ClientElements, Client!Blank

LEMMA ClientInitIInv ==
    ASSUME Client!GattClientAssumption, Client!Init PROVE ClientIInv
<1>1. Len(results) = 0 /\ results \in Seq(ClientSlots) /\ collected \in Seq(ClientSlots)
  BY EmptySeq DEF Client!Init
<1>2. /\ query = None /\ phase = "ask" /\ answer = 0 /\ filled = 0
      /\ changed = FALSE /\ None \notin Client!Paged
  BY DEF Client!Init, Client!GattClientAssumption
<1>3. cache \in {Client!Database(db) : db \in Contents}
  BY DEF Client!Init
<1>4. Client!TypeOK
  <2>1. {answer, filled} \subseteq Nat
    BY <1>2
  <2>2. query \in {None} \union Client!Paged \union Client!Single
        /\ phase \in {"ask", "answered", "refused"} /\ changed \in BOOLEAN
    BY <1>2
  <2>3. Len(results) \in Rooms \union {0}
    BY <1>1
  <2> QED
    BY <1>3, <2>1, <2>2, <2>3, Zenon DEF Client!TypeOK
<1> QED
  BY <1>1, <1>2, <1>4 DEF ClientIInv, Client!ReportsWhatIsThere, ClientPages

LEMMA ClientStartKeepsIInv ==
    ASSUME Client!GattClientAssumption, ClientIInv,
           NEW q \in Client!Paged \union Client!Single, NEW room \in Rooms,
           Client!Start(q, room)
    PROVE  ClientIInv'
<1>1. /\ query' = q /\ phase' = "ask" /\ answer' = 0 /\ filled' = 0
      /\ collected' = <<>> /\ changed' = FALSE /\ cache' = cache
      /\ results' = [i \in 1 .. room |-> Client!Blank]
  BY DEF Client!Start
<1>2. room \in Nat
  BY DEF Client!GattClientAssumption
<1>3. results' \in Seq(ClientSlots) /\ Len(results') = room
  <2>1. results' \in [1 .. room -> ClientSlots]
    BY <1>1 DEF ClientSlots
  <2> QED
    BY <1>2, <2>1
<1>4. Client!TypeOK'
  <2>1. cache' \in {Client!Database(db) : db \in Contents}
    BY <1>1 DEF ClientIInv, Client!TypeOK
  <2>2. {answer', filled'} \subseteq Nat
    BY <1>1
  <2> QED
    BY <1>1, <1>3, <2>1, <2>2 DEF Client!TypeOK
<1>5. collected' \in Seq(ClientSlots) /\ Len(collected') = 0
  BY <1>1, EmptySeq
<1>6. ClientPages'
  <2>1. query' \in Client!Paged => Client!FoundPaged' \in Seq(ClientElements)
    <3>1. /\ Client!GetService(None) \in Seq(ClientElements)
          /\ Client!GetAllCharacteristics \in Seq(ClientElements)
          /\ Client!GetAllDescriptors(Client!SomeChar) \in Seq(ClientElements)
      BY WhatIsFound DEF ClientIInv
    <3>2. /\ Client!GetService(None)' \in Seq(ClientElements)
          /\ Client!GetAllCharacteristics' \in Seq(ClientElements)
          /\ Client!GetAllDescriptors(Client!SomeChar)' \in Seq(ClientElements)
      BY <1>1, <3>1, FoundIsOfTheCache
    <3> QED
      BY <3>2 DEF Client!FoundPaged, Client!Paged
  <2>2. query' \in Client!Paged => 0 <= Len(Client!FoundPaged')
    BY <2>1
  <2> QED
    BY <1>1, <1>5, <2>2 DEF ClientPages
<1> QED
  BY <1>1, <1>3, <1>4, <1>5, <1>6 DEF ClientIInv, Client!ReportsWhatIsThere

LEMMA ClientPageKeepsIInv ==
    ASSUME Client!GattClientAssumption, ClientIInv, Client!Page
    PROVE  ClientIInv'
<1> DEFINE s == Client!FoundPaged
           offset == Len(collected)
           room == Len(results)
           w == Client!Written(s, offset, room)
           n == IF offset > Len(s) THEN 0 ELSE Client!Least(Len(s) - offset, room)
<1>1. /\ query \in Client!Paged /\ phase = "ask"
      /\ UNCHANGED <<cache, query, collected, changed>>
  BY DEF Client!Page
<1>2. s \in Seq(ClientElements) /\ offset \in Nat /\ room \in Nat /\ Len(s) \in Nat
      /\ room \in Rooms \union {0}
  BY <1>1, FoundPagedType DEF ClientIInv, Client!TypeOK
<1>3. Client!FoundPaged' = s
  BY <1>1, FoundIsOfTheCache DEF Client!FoundPaged
<1>4. n \in Nat /\ n <= room
  BY <1>2 DEF Client!Least
<1>5. /\ w \in Seq(ClientElements) /\ Len(w) = n
      /\ \A i \in 1 .. n : w[i] = s[offset + i]
  BY <1>2, WrittenElements
<1>6. CASE /\ results' = Client!Overlay(results, w) /\ filled' = Len(w)
           /\ answer' = Client!PageLen(Len(s), offset, room) /\ phase' = "answered"
  <2>1. answer' = n /\ filled' = n
    BY <1>5, <1>6 DEF Client!PageLen
  <2>2. /\ results' \in Seq(ClientSlots) /\ Len(results') = room
        /\ \A i \in 1 .. room : i <= n => results'[i] = w[i]
    BY <1>5, <1>6, OverlaidSlice DEF ClientIInv
  <2> HIDE DEF s, offset, room, w, n
  <2>3. Client!TypeOK'
    BY <1>1, <1>2, <1>4, <1>6, <2>1, <2>2 DEF ClientIInv, Client!TypeOK
  <2>4. \A i \in 1 .. n : results'[i] = s[offset + i] /\ results'[i] # Client!Blank
    <3> TAKE i \in 1 .. n
    <3>1. i \in 1 .. room /\ i <= n
      BY <1>2, <1>4
    <3>2. results'[i] = w[i] /\ w[i] = s[offset + i]
      BY <1>5, <2>2, <3>1
    <3>3. w[i] \in ClientElements
      BY <1>5, ElementOfSeq
    <3> QED
      BY <3>2, <3>3, NotBlank
  <2>5. Client!ReportsWhatIsThere'
    BY <1>4, <2>1, <2>2, <2>4 DEF Client!ReportsWhatIsThere
  <2>6. ClientPages'
    <3> SUFFICES ASSUME ~ changed
                 PROVE  /\ Len(collected') <= Len(Client!FoundPaged')
                        /\ \A i \in 1 .. Len(collected') :
                              collected'[i] = Client!FoundPaged'[i]
                        /\ answer' = Client!Least(Len(Client!FoundPaged') - Len(collected'),
                                                  Len(results'))
                        /\ \A i \in 1 .. answer' :
                              results'[i] = Client!FoundPaged'[Len(collected') + i]
      BY <1>1, <1>6 DEF ClientPages
    <3>1. offset <= Len(s) /\ \A i \in 1 .. offset : collected[i] = s[i]
      BY <1>1 DEF ClientIInv, ClientPages, s, offset
    <3>2. n = Client!Least(Len(s) - offset, room)
      BY <1>2, <3>1 DEF n
    <3>3. collected' = collected /\ Len(collected') = offset
      BY <1>1 DEF offset
    <3> QED
      BY <1>3, <2>1, <2>2, <2>4, <3>1, <3>2, <3>3
  <2> QED
    BY <1>1, <2>2, <2>3, <2>5, <2>6 DEF ClientIInv
<1>7. CASE /\ offset >= Len(s) /\ phase' = "refused"
           /\ UNCHANGED <<results, answer, filled>>
  <2>1. Client!TypeOK' /\ Client!ReportsWhatIsThere'
    BY <1>1, <1>7 DEF ClientIInv, Client!TypeOK, Client!ReportsWhatIsThere
  <2>2. ClientPages'
    BY <1>1, <1>3, <1>7 DEF ClientIInv, ClientPages
  <2> QED
    BY <1>1, <1>7, <2>1, <2>2 DEF ClientIInv
<1> QED
  BY <1>6, <1>7 DEF Client!Page

LEMMA ClientNextPageKeepsIInv ==
    ASSUME Client!GattClientAssumption, ClientIInv, Client!NextPage
    PROVE  ClientIInv'
<1> DEFINE s == Client!FoundPaged
           offset == Len(collected)
           page == SubSeq(results, 1, answer)
<1>1. /\ query \in Client!Paged /\ phase = "answered" /\ answer > 0
      /\ collected' = collected \o page /\ phase' = "ask"
      /\ UNCHANGED <<cache, query, results, answer, filled, changed>>
  BY DEF Client!NextPage
<1>2. s \in Seq(ClientElements) /\ offset \in Nat /\ Len(s) \in Nat
      /\ answer \in Nat /\ collected \in Seq(ClientSlots) /\ results \in Seq(ClientSlots)
  BY <1>1, FoundPagedType DEF ClientIInv, Client!TypeOK
<1>3. Client!FoundPaged' = s
  BY <1>1, FoundIsOfTheCache DEF Client!FoundPaged
<1>4. answer <= Len(results)
  <2>1. query # None /\ ~ Client!ServiceByUuid
    BY <1>1 DEF Client!GattClientAssumption, Client!ServiceByUuid, Client!Paged
  <2> QED
    BY <1>1, <2>1 DEF ClientIInv, Client!ReportsWhatIsThere
<1>5. /\ page \in Seq(ClientSlots) /\ Len(page) = answer
      /\ \A i \in 1 .. answer : page[i] = results[i]
  <2> DEFINE first == 1
             final == answer
  <2>1. first \in Nat /\ first = 1 /\ final \in Nat /\ final = answer
    BY <1>2
  <2>2. page = SubSeq(results, first, final)
    OBVIOUS
  <2> HIDE DEF page, first, final
  <2>3. \A i \in first .. final : results[i] \in ClientSlots
    <3> TAKE i \in first .. final
    <3>1. i \in 1 .. Len(results)
      BY <1>2, <1>4, <2>1
    <3> QED
      BY <1>2, <3>1, ElementOfSeq
  <2>4. /\ page \in Seq(ClientSlots)
        /\ Len(page) = IF first <= final THEN final - first + 1 ELSE 0
        /\ \A i \in 1 .. final - first + 1 : page[i] = results[first + i - 1]
    BY <2>1, <2>2, <2>3, SubSeqProperties
  <2>5. \A i \in 1 .. answer : i \in 1 .. final - first + 1 /\ first + i - 1 = i
    BY <2>1
  <2> QED
    BY <1>1, <2>1, <2>4, <2>5
<1> HIDE DEF s, page
<1>6. /\ collected' \in Seq(ClientSlots) /\ Len(collected') = offset + answer
      /\ \A i \in 1 .. offset : collected'[i] = collected[i]
      /\ \A i \in offset + 1 .. offset + answer : collected'[i] = page[i - offset]
  <2>1. /\ collected \o page \in Seq(ClientSlots)
        /\ Len(collected \o page) = Len(collected) + Len(page)
        /\ \A i \in 1 .. Len(collected) + Len(page) : (collected \o page)[i] =
              IF i <= Len(collected) THEN collected[i] ELSE page[i - Len(collected)]
    BY <1>2, <1>5, ConcatProperties
  <2>2. \A i \in 1 .. offset : i \in 1 .. offset + answer /\ i <= offset
    BY <1>2
  <2>3. \A i \in offset + 1 .. offset + answer :
            i \in 1 .. offset + answer /\ ~ (i <= offset)
    BY <1>2
  <2> QED
    BY <1>1, <1>5, <2>1, <2>2, <2>3
<1> HIDE DEF offset
<1>7. ClientPages'
  <2> SUFFICES ASSUME ~ changed
               PROVE  /\ Len(collected') <= Len(s)
                      /\ \A i \in 1 .. Len(collected') : collected'[i] = s[i]
    BY <1>1, <1>3 DEF ClientPages
  <2>1. /\ offset <= Len(s) /\ \A i \in 1 .. offset : collected[i] = s[i]
        /\ answer = Client!Least(Len(s) - offset, Len(results))
        /\ \A i \in 1 .. answer : results[i] = s[offset + i]
    BY <1>1 DEF ClientIInv, ClientPages, s, offset
  <2>2. offset + answer <= Len(s)
    BY <1>2, <2>1 DEF Client!Least
  <2>3. ASSUME NEW i \in 1 .. offset + answer PROVE collected'[i] = s[i]
    <3>1. CASE i \in 1 .. offset
      BY <1>6, <2>1, <3>1
    <3>2. CASE i \in offset + 1 .. offset + answer
      <4>1. i - offset \in 1 .. answer /\ offset + (i - offset) = i
        BY <1>2, <3>2
      <4> QED
        BY <1>5, <1>6, <2>1, <3>2, <4>1
    <3> QED
      BY <1>2, <3>1, <3>2
  <2> QED
    BY <1>6, <2>2, <2>3
<1>8. Client!TypeOK' /\ Client!ReportsWhatIsThere'
  BY <1>1 DEF ClientIInv, Client!TypeOK, Client!ReportsWhatIsThere
<1> QED
  BY <1>1, <1>2, <1>6, <1>7, <1>8 DEF ClientIInv

LEMMA ClientOnceKeepsIInv ==
    ASSUME Client!GattClientAssumption, ClientIInv, Client!Once
    PROVE  ClientIInv'
<1> DEFINE room == Len(results)
           count == IF query = "service" THEN 1 ELSE room
<1>1. /\ query \in Client!Single /\ UNCHANGED <<cache, query, collected, changed>>
      /\ room \in Nat /\ count \in Nat /\ room \in Rooms \union {0}
      /\ results \in Seq(ClientSlots)
  BY DEF Client!Once, ClientIInv, Client!TypeOK
<1>2. query \notin Client!Paged
  BY <1>1 DEF Client!Single, Client!Paged
<1>3. PICK seen \in Seq(ClientElements) :
        /\ results' = Client!Overlay(results, Client!Written(seen, 0, count))
        /\ filled' = Len(Client!Written(seen, 0, count))
        /\ answer' = Client!AllLen(Len(seen), room)
        /\ phase' = "answered"
  <2>1. PICK uuid \in Uuids, char_uuid \in Uuids :
          LET seen ==
                CASE query = "service" -> Client!GetService(uuid)
                  [] query = "char_by_uuid" -> Client!GetCharacteristicByUuid(uuid)
                  [] query = "descr_by_uuid" ->
                        Client!GetDescriptorByUuid(char_uuid, uuid)
                  [] query = "descr_by_handle" ->
                        Client!GetDescriptorByCharHandle(Client!SomeChar, uuid)
                  [] query = "included" -> Client!GetIncludeService(uuid)
                  [] query = "db" -> Client!GetDb
          IN  /\ results' = Client!Overlay(results, Client!Written(seen, 0, count))
              /\ filled' = Len(Client!Written(seen, 0, count))
              /\ answer' = Client!AllLen(Len(seen), room)
              /\ phase' = "answered"
    BY DEF Client!Once
  <2>2. /\ Client!GetService(uuid) \in Seq(ClientElements)
        /\ Client!GetCharacteristicByUuid(uuid) \in Seq(ClientElements)
        /\ Client!GetDescriptorByUuid(char_uuid, uuid) \in Seq(ClientElements)
        /\ Client!GetDescriptorByCharHandle(Client!SomeChar, uuid)
                \in Seq(ClientElements)
        /\ Client!GetIncludeService(uuid) \in Seq(ClientElements)
        /\ Client!GetDb \in Seq(ClientElements)
    BY WhatIsFound DEF ClientIInv
  <2>3. (CASE query = "service" -> Client!GetService(uuid)
           [] query = "char_by_uuid" -> Client!GetCharacteristicByUuid(uuid)
           [] query = "descr_by_uuid" -> Client!GetDescriptorByUuid(char_uuid, uuid)
           [] query = "descr_by_handle" ->
                 Client!GetDescriptorByCharHandle(Client!SomeChar, uuid)
           [] query = "included" -> Client!GetIncludeService(uuid)
           [] query = "db" -> Client!GetDb) \in Seq(ClientElements)
    BY <1>1, <2>2 DEF Client!Single
  <2> QED
    BY <2>1, <2>3
<1> DEFINE w == Client!Written(seen, 0, count)
           n == Client!Least(Len(seen), count)
<1>4. Len(seen) \in Nat /\ n \in Nat /\ n <= count /\ Len(seen) - 0 = Len(seen)
      /\ ~ (0 > Len(seen))
  BY <1>1 DEF Client!Least
<1>5. /\ w \in Seq(ClientElements) /\ Len(w) = n
      /\ \A i \in 1 .. n : w[i] = seen[i]
  <2> DEFINE offset == 0
  <2>1. /\ offset \in Nat /\ ~ (offset > Len(seen)) /\ Len(seen) - offset = Len(seen)
        /\ w = Client!Written(seen, offset, count)
        /\ \A i \in 1 .. n : offset + i = i
    BY <1>4
  <2> DEFINE most == IF offset > Len(seen) THEN 0
                     ELSE Client!Least(Len(seen) - offset, count)
  <2>2. most = n
    BY <2>1
  <2> HIDE DEF offset, count, w, n
  <2>3. /\ w \in Seq(ClientElements) /\ Len(w) = most
        /\ \A i \in 1 .. most : w[i] = seen[offset + i]
    BY <1>1, <2>1, WrittenElements
  <2> QED
    BY <2>1, <2>2, <2>3, ZenonT(40)
<1>6. /\ results' \in Seq(ClientSlots) /\ Len(results') = room
      /\ \A i \in 1 .. room : i <= n => results'[i] = w[i]
  BY <1>1, <1>3, <1>5, OverlaidSlice
<1>7. filled' = n /\ answer' = Client!Least(Len(seen), room) /\ answer' \in Nat
  BY <1>1, <1>3, <1>4, <1>5 DEF Client!AllLen, Client!Least
<1>8. Client!TypeOK'
  <2>1. {answer', filled'} \subseteq Nat
    BY <1>4, <1>7
  <2> QED
    BY <1>1, <1>3, <1>6, <2>1 DEF ClientIInv, Client!TypeOK
<1>9. Client!ReportsWhatIsThere'
  <2>1. CASE query = "service" /\ (room = 0 \/ answer' > filled')
    BY <1>1, <1>6, <2>1 DEF Client!ReportsWhatIsThere, Client!ServiceByUuid
  <2>2. CASE ~ (query = "service" /\ (room = 0 \/ answer' > filled'))
    <3>1. answer' = filled' /\ filled' <= room
      <4>1. CASE query = "service"
        <5>1. room # 0 /\ ~ (answer' > filled')
          BY <2>2, <4>1
        <5> QED
          BY <1>1, <1>4, <1>7, <4>1, <5>1 DEF Client!Least
      <4>2. CASE query # "service"
        BY <1>1, <1>4, <1>7, <4>2 DEF Client!Least
      <4> QED
        BY <4>1, <4>2
    <3>2. ASSUME NEW i \in 1 .. answer' PROVE results'[i] # Client!Blank
      <4>1. i \in 1 .. n /\ i \in 1 .. room /\ i <= n
        BY <1>1, <1>4, <1>7, <3>1
      <4>2. w[i] \in ClientElements
        BY <1>5, <4>1, ElementOfSeq
      <4> QED
        BY <1>6, <4>1, <4>2, NotBlank
    <3> QED
      BY <1>6, <3>1, <3>2 DEF Client!ReportsWhatIsThere
  <2> QED
    BY <2>1, <2>2
<1> QED
  BY <1>1, <1>2, <1>6, <1>8, <1>9 DEF ClientIInv, ClientPages

LEMMA ClientStepKeepsIInv ==
    ASSUME Client!GattClientAssumption, ClientIInv, [Client!Next]_(Client!vars)
    PROVE  ClientIInv'
<1>1. CASE UNCHANGED Client!vars
  <2>1. UNCHANGED <<cache, query, phase, results, answer, filled, collected, changed>>
    BY <1>1 DEF Client!vars
  <2>2. Client!FoundPaged' = Client!FoundPaged
    BY <2>1, FoundIsOfTheCache DEF Client!FoundPaged
  <2> QED
    BY <2>1, <2>2 DEF ClientIInv, Client!TypeOK, Client!ReportsWhatIsThere,
                      Client!ServiceByUuid, ClientPages
<1>2. CASE Client!Done
  <2>1. /\ query' = None
        /\ UNCHANGED <<cache, phase, results, answer, filled, collected, changed>>
    BY <1>2 DEF Client!Done
  <2>2. None \notin Client!Paged
    BY DEF Client!GattClientAssumption
  <2> QED
    BY <2>1, <2>2 DEF ClientIInv, Client!TypeOK, Client!ReportsWhatIsThere, ClientPages
<1>3. CASE Client!Discover
  <2>1. /\ cache' \in {Client!Database(db) : db \in Contents} /\ changed' = TRUE
        /\ UNCHANGED <<query, phase, results, answer, filled, collected>>
    BY <1>3 DEF Client!Discover
  <2> QED
    BY <2>1 DEF ClientIInv, Client!TypeOK, Client!ReportsWhatIsThere,
                Client!ServiceByUuid, ClientPages
<1> QED
  BY <1>1, <1>2, <1>3, ClientStartKeepsIInv, ClientPageKeepsIInv,
     ClientNextPageKeepsIInv, ClientOnceKeepsIInv
  DEF Client!Next

(* In every reachable state the inductive invariant holds.                 *)
THEOREM ClientInvariance ==
    ASSUME Client!GattClientAssumption PROVE Client!Spec => []ClientIInv
<1>1. Client!Init => ClientIInv
  BY ClientInitIInv
<1>2. ClientIInv /\ [Client!Next]_(Client!vars) => ClientIInv'
  BY ClientStepKeepsIInv
<1> QED
  BY <1>1, <1>2, PTL DEF Client!Spec

(* An empty page, or a refusal, is the end of what there is. *)
LEMMA PagesToTheEnd ==
    ASSUME Client!GattClientAssumption, ClientIInv PROVE Client!PagesAreTheWhole
<1> DEFINE s == Client!FoundPaged
<1> SUFFICES ASSUME query \in Client!Paged, ~ changed, Len(results) > 0,
                    phase = "refused" \/ (phase = "answered" /\ answer = 0)
             PROVE  collected = s
  BY DEF Client!PagesAreTheWhole
<1>1. s \in Seq(ClientElements)
  BY FoundPagedType DEF ClientIInv
<1>2. collected \in Seq(ClientSlots) /\ results \in Seq(ClientSlots)
  BY DEF ClientIInv
<1>3. Len(s) \in Nat /\ Len(collected) \in Nat /\ Len(results) \in Nat
  BY <1>1, <1>2
<1>4. /\ Len(collected) <= Len(s) /\ \A i \in 1 .. Len(collected) : collected[i] = s[i]
      /\ phase = "answered" => answer = Client!Least(Len(s) - Len(collected), Len(results))
      /\ phase = "refused" => Len(collected) >= Len(s)
  BY DEF ClientIInv, ClientPages
<1> HIDE DEF s
<1>5. Len(collected) = Len(s)
  BY <1>3, <1>4 DEF Client!Least
<1>6. s \in Seq(ClientSlots)
  <2>1. \A i \in 1 .. Len(s) : s[i] \in ClientSlots
    BY <1>1, ElementOfSeq DEF ClientSlots
  <2> QED
    BY <1>1, <2>1
<1> QED
  BY <1>2, <1>4, <1>5, <1>6, SeqEqual

(* The counts are those of the elements. *)
LEMMA CountsOfElements ==
    ASSUME Client!GattClientAssumption, Client!TypeOK PROVE Client!CountsAreEnough
<1> DEFINE n == Len(cache)
<1>1. n \in Nat /\ DOMAIN cache = 1 .. n
  BY CacheHasPlaces
<1>2. Client!Counted("AllAttributes", Client!AttrCountArgs("AllAttributes", 1, n)) = n
  <2>1. {k \in DOMAIN cache :
            /\ k \in 1 .. n
            /\ "AllAttributes" \in {"AllAttributes", cache[k].kind}} = 1 .. n
    BY <1>1
  <2>2. Cardinality(1 .. n) = n
    <3> DEFINE first == 1
    <3>1. first \in Int /\ n \in Int
          /\ (IF first > n THEN 0 ELSE n - first + 1) = n
      BY <1>1
    <3> HIDE DEF first, n
    <3>2. Cardinality(first .. n) = IF first > n THEN 0 ELSE n - first + 1
      BY <3>1, FS_Interval
    <3> QED
      BY <3>1, <3>2 DEF first
  <2> QED
    BY <2>1, <2>2, SameCardinality
    DEF Client!Counted, Client!AttrCountArgs, Client!INVALID_HANDLE
<1>3. Client!Counted("Characteristic", Client!AttrCountArgs("Characteristic", 1, n))
        = Len(Client!GetAllCharacteristics)
  <2>1. {k \in DOMAIN cache :
            /\ k \in 1 .. n
            /\ "Characteristic" \in {"AllAttributes", cache[k].kind}}
        = Client!CharPlaces
    BY <1>1 DEF Client!CharPlaces
  <2>2. Client!CharPlaces \in SUBSET DOMAIN cache
    BY DEF Client!CharPlaces
  <2>3. Len(Client!GetAllCharacteristics) = Cardinality(Client!CharPlaces)
    BY <2>2, FoundAtPlaces DEF Client!GetAllCharacteristics
  <2> QED
    BY <2>1, <2>3, SameCardinality
    DEF Client!Counted, Client!AttrCountArgs, Client!INVALID_HANDLE
<1>4. Client!SomeChar # 0
  <2> DEFINE chars == Client!GetAllCharacteristics
  <2>1. CASE chars = <<>>
    BY <2>1 DEF Client!SomeChar
  <2>2. CASE chars # <<>>
    <3>1. chars \in Seq(ClientElements)
      BY WhatIsFound
    <3> HIDE DEF chars
    <3>2. Len(chars) \in 1 .. Len(chars)
      BY <2>2, <3>1
    <3>3. chars[Len(chars)] \in ClientElements
      BY <3>1, <3>2, ElementOfSeq
    <3> QED
      BY <2>2, <3>3 DEF Client!SomeChar, ClientElements, chars
  <2> QED
    BY <2>1, <2>2
<1>5. Client!Counted("Descriptor", Client!AttrCountArgs("Descriptor", Client!SomeChar, 0))
        = Len(Client!GetAllDescriptors(Client!SomeChar))
  <2> DEFINE places == Client!DescriptorsOf(Client!SomeChar)
  <2>1. places \in SUBSET DOMAIN cache
    BY DEF Client!DescriptorsOf
  <2>2. Len(Client!GetAllDescriptors(Client!SomeChar)) = Cardinality(places)
    BY <2>1, FoundAtPlaces DEF Client!GetAllDescriptors
  <2>3. Client!Counted("Descriptor",
                       Client!AttrCountArgs("Descriptor", Client!SomeChar, 0))
          = Client!Cardinality(places)
    BY <1>4 DEF Client!Counted, Client!AttrCountArgs, Client!INVALID_HANDLE
  <2> QED
    BY <2>2, <2>3, SameCardinality
<1> QED
  BY <1>2, <1>3, <1>5 DEF Client!CountsAreEnough, Client!GetDb

LEMMA ClientIInvIsSafe ==
    ASSUME Client!GattClientAssumption, ClientIInv
    PROVE  /\ Client!TypeOK /\ Client!ReportsWhatIsThere
           /\ Client!PagesAreTheWhole /\ Client!CountsAreEnough
  BY PagesToTheEnd, CountsOfElements DEF ClientIInv

-----------------------------------------------------------------------------
(* The GATT server. An attribute has what the application has given it     *)
(* last, as far as a u16 can tell its length.                              *)

ServerValues == Server!Values \union {Server!Empty}

ServerIInv ==
    /\ service \in {"none", "created", "started"} /\ request \in BOOLEAN
    /\ outcome.is \in Server!Outcomes
    /\ value \in [Characteristics -> ServerValues]
    /\ DOMAIN attr = Characteristics
    /\ \A h \in Characteristics : attr[h] # None =>
        /\ attr[h].value = Server!Cut(value[h])
        /\ attr[h].max \in 0 .. U16 - 1 /\ attr[h].value.len <= attr[h].max
        /\ attr[h].by_gatt \in BOOLEAN
    /\ response \in ServerValues /\ intended = response
    /\ response.len <= MaxAttrLen
    /\ Server!GetsTheLastValue /\ Server!PeerGetsTheWhole

LEMMA ServerNumbers ==
    Server!GattServerAssumption =>
        /\ U16 \in Nat /\ MaxResponse \in Nat /\ MaxAttrLen \in Nat
        /\ Lengths \subseteq Nat
        /\ 0 < U16 /\ 0 <= MaxAttrLen /\ MaxAttrLen < U16
<1> SUFFICES ASSUME Server!GattServerAssumption
             PROVE  U16 \in Nat /\ MaxResponse \in Nat /\ MaxAttrLen \in Nat
  BY DEF Server!GattServerAssumption
<1>1. {U16, MaxResponse, MaxAttrLen} \subseteq Nat
  BY DEF Server!GattServerAssumption
<1> QED
  BY <1>1, Zenon

(* Lengths that fit into a u16 are not cut. *)
LEMMA CutKeeps ==
    ASSUME Server!GattServerAssumption, NEW v \in ServerValues
    PROVE  /\ v.len \in Nat /\ Server!Cut(v).len \in 0 .. U16 - 1
           /\ Server!Cut(v) = v \/ v.len >= U16
<1>1. U16 \in Nat /\ 0 < U16 /\ Lengths \subseteq Nat
  BY ServerNumbers
<1>2. v = [text |-> v.text, len |-> v.len] /\ v.len \in Nat
  <2>1. CASE v \in Server!Values
    BY <1>1, <2>1 DEF Server!Values
  <2>2. CASE v = Server!Empty
    BY <2>2 DEF Server!Empty
  <2> QED
    BY <2>1, <2>2 DEF ServerValues
<1>3. v.len % U16 \in 0 .. U16 - 1
  BY <1>1, <1>2
<1>4. v.len < U16 => v.len % U16 = v.len
  BY <1>1, <1>2
<1>5. Server!Cut(v) = [text |-> v.text, len |-> v.len % U16]
  BY <1>2 DEF Server!Cut
<1> QED
  BY <1>1, <1>2, <1>3, <1>4, <1>5

LEMMA ServerInitIInv ==
    ASSUME Server!GattServerAssumption, Server!Init
    PROVE  ServerIInv
<1>1. MaxAttrLen \in Nat /\ 0 <= MaxAttrLen
  BY ServerNumbers
<1>2. Server!Empty.len = 0 /\ outcome.is = "ok"
  BY DEF Server!Empty, Server!Init, Server!Is
<1>3. response = Server!Empty /\ intended = Server!Empty
  BY DEF Server!Init
<1>4. value \in [Characteristics -> ServerValues]
  BY DEF Server!Init, ServerValues
<1> QED
  BY <1>1, <1>2, <1>3, <1>4
  DEF Server!Init, ServerIInv, ServerValues,
      Server!Outcomes, Server!GetsTheLastValue, Server!PeerGetsTheWhole

(* The service begins and ends. *)
LEMMA ServerLifeKeepsIInv ==
    ASSUME ServerIInv,
           \/ Server!CreateService \/ Server!StartService \/ Server!StopService
           \/ Server!DeleteService \/ Server!Request
    PROVE  ServerIInv'
<1> USE DEF ServerIInv, ServerValues, Server!Is, Server!Outcomes,
            Server!GetsTheLastValue, Server!PeerGetsTheWhole
<1>1. CASE Server!CreateService
  BY <1>1 DEF Server!CreateService
<1>2. CASE Server!StartService
  BY <1>2 DEF Server!StartService
<1>3. CASE Server!StopService
  BY <1>3 DEF Server!StopService
<1>4. CASE Server!DeleteService
  BY <1>4 DEF Server!DeleteService
<1>5. CASE Server!Request
  BY <1>5 DEF Server!Request
<1> QED
  BY <1>1, <1>2, <1>3, <1>4, <1>5

(* An attribute is made or gets a value. *)
LEMMA ServerAttributesKeepIInv ==
    ASSUME Server!GattServerAssumption, ServerIInv, NEW h \in Characteristics,
           \/ \E max_len \in Lengths, by_gatt \in BOOLEAN, v \in Server!Values :
                Server!AddCharacteristic(h, max_len, by_gatt, v)
           \/ \E v \in Server!Values : Server!SetAttr(h, v) \/ Server!PeerWrites(h, v)
           \/ Server!AddDescriptor(h)
    PROVE  ServerIInv'
<1>1. U16 \in Nat /\ 0 < U16 /\ Lengths \subseteq Nat
  BY ServerNumbers
<1> SUFFICES ASSUME NEW a, NEW v \in ServerValues,
                    attr' = [attr EXCEPT ![h] = a],
                    value' = [value EXCEPT ![h] = v],
                    a.value = Server!Cut(v), a.max \in 0 .. U16 - 1,
                    a.by_gatt \in BOOLEAN, a.value.len <= a.max,
                    outcome' = Server!Is("ok", Server!Empty),
                    UNCHANGED <<service, response, intended, request>>
             PROVE  ServerIInv'
  <2>1. ASSUME outcome' = Server!Is("error", Server!Empty),
               UNCHANGED <<attr, value, service, response, intended, request>>
        PROVE  ServerIInv'
    BY <2>1 DEF ServerIInv, Server!Is, Server!Outcomes, Server!GetsTheLastValue,
                Server!PeerGetsTheWhole
  <2>2. CASE Server!AddDescriptor(h)
    <3> DEFINE a == [max |-> 0, by_gatt |-> FALSE, value |-> Server!Empty]
    <3>1. Server!Empty \in ServerValues
      BY DEF ServerValues
    <3>2. 0 % U16 = 0 /\ 0 \in 0 .. U16 - 1
      BY <1>1
    <3>3. Server!Cut(Server!Empty) = Server!Empty /\ Server!Empty.len = 0
      BY <3>2 DEF Server!Cut, Server!Empty
    <3>4. /\ attr' = [attr EXCEPT ![h] = a]
          /\ value' = [value EXCEPT ![h] = Server!Empty]
          /\ outcome' = Server!Is("ok", Server!Empty)
          /\ UNCHANGED <<service, response, intended, request>>
      BY <2>2 DEF Server!AddDescriptor
    <3>5. a.value = Server!Cut(Server!Empty) /\ a.max \in 0 .. U16 - 1
          /\ a.value.len <= a.max /\ a.by_gatt \in BOOLEAN
      BY <3>2, <3>3
    <3> HIDE DEF a
    <3> QED
      BY <3>1, <3>4, <3>5
  <2>3. ASSUME NEW max_len \in Lengths, NEW by_gatt \in BOOLEAN, NEW v \in Server!Values,
               Server!AddCharacteristic(h, max_len, by_gatt, v)
        PROVE  ServerIInv'
    <3> DEFINE a ==
          [max |-> max_len % U16, by_gatt |-> by_gatt, value |-> Server!Cut(v)]
    <3>1. v \in ServerValues
      BY DEF ServerValues
    <3>2. max_len % U16 \in 0 .. U16 - 1
      BY <1>1
    <3>3. CASE v.len > max_len \/ Server!Cut(v).len > max_len % U16
      BY <2>1, <2>3, <3>3 DEF Server!AddCharacteristic
    <3>4. CASE ~ (v.len > max_len \/ Server!Cut(v).len > max_len % U16)
      <4>1. /\ attr' = [attr EXCEPT ![h] = a]
            /\ value' = [value EXCEPT ![h] = v]
            /\ outcome' = Server!Is("ok", Server!Empty)
            /\ UNCHANGED <<service, response, intended, request>>
        BY <2>3, <3>4 DEF Server!AddCharacteristic
      <4>2. Server!Cut(v).len \in 0 .. U16 - 1
        BY <3>1, CutKeeps
      <4>3. Server!Cut(v).len <= max_len % U16
        BY <1>1, <3>2, <3>4, <4>2
      <4>4. a.value = Server!Cut(v) /\ a.max \in 0 .. U16 - 1 /\ a.value.len <= a.max
            /\ a.by_gatt \in BOOLEAN
        BY <3>2, <4>3
      <4> HIDE DEF a
      <4> QED
        BY <3>1, <4>1, <4>4
    <3> QED
      BY <3>3, <3>4
  <2>4. ASSUME NEW v \in Server!Values, Server!SetAttr(h, v) PROVE ServerIInv'
    <3> DEFINE a == [attr[h] EXCEPT !.value = Server!Cut(v)]
    <3>1. v \in ServerValues
      BY DEF ServerValues
    <3>2. CASE Server!Cut(v).len > attr[h].max
      BY <2>1, <2>4, <3>2 DEF Server!SetAttr
    <3>3. CASE ~ (Server!Cut(v).len > attr[h].max)
      <4>1. /\ attr' = [attr EXCEPT ![h] = a]
            /\ value' = [value EXCEPT ![h] = v]
            /\ outcome' = Server!Is("ok", Server!Empty)
            /\ UNCHANGED <<service, response, intended, request>>
        BY <2>4, <3>3 DEF Server!SetAttr
      <4>2. Server!Cut(v).len \in 0 .. U16 - 1
        BY <3>1, CutKeeps
      <4>3. attr[h].max \in 0 .. U16 - 1 /\ attr[h].by_gatt \in BOOLEAN
        BY <2>4 DEF Server!SetAttr, ServerIInv
      <4>4. Server!Cut(v).len <= attr[h].max
        BY <1>1, <3>3, <4>2, <4>3
      <4>5. a.value = Server!Cut(v) /\ a.max = attr[h].max
            /\ a.by_gatt = attr[h].by_gatt
        BY <2>4 DEF Server!SetAttr, ServerIInv
      <4> HIDE DEF a
      <4> QED
        BY <3>1, <4>1, <4>3, <4>4, <4>5
    <3> QED
      BY <3>2, <3>3
  <2>5. ASSUME NEW v \in Server!Values, Server!PeerWrites(h, v) PROVE ServerIInv'
    <3> DEFINE a == [attr[h] EXCEPT !.value = v]
    <3>1. v \in ServerValues
      BY DEF ServerValues
    <3>2. /\ attr' = [attr EXCEPT ![h] = a]
          /\ value' = [value EXCEPT ![h] = v]
          /\ outcome' = Server!Is("ok", Server!Empty)
          /\ UNCHANGED <<service, response, intended, request>>
          /\ v.len <= attr[h].max
      BY <2>5 DEF Server!PeerWrites
    <3>3. attr[h].max \in 0 .. U16 - 1 /\ attr[h].by_gatt \in BOOLEAN
      BY <2>5 DEF Server!PeerWrites, ServerIInv
    <3>4. Server!Cut(v) = v
      BY <1>1, <3>1, <3>2, <3>3, CutKeeps
    <3>5. attr[h].value = Server!Cut(value[h])
      BY <2>5 DEF Server!PeerWrites, ServerIInv
    <3>6. a.value = v
      BY <3>5
    <3>7. a.max = attr[h].max
      BY <3>5
    <3>8. a.by_gatt = attr[h].by_gatt
      BY <3>5
    <3> HIDE DEF a
    <3> QED
      BY <3>1, <3>2, <3>3, <3>4, <3>6, <3>7, <3>8
  <2> QED
    BY <2>2, <2>3, <2>4, <2>5
<1>2. \A g \in Characteristics : attr'[g] # None =>
        /\ attr'[g].value = Server!Cut(value'[g])
        /\ attr'[g].max \in 0 .. U16 - 1 /\ attr'[g].value.len <= attr'[g].max
        /\ attr'[g].by_gatt \in BOOLEAN
  BY DEF ServerIInv
<1> QED
  BY <1>2 DEF ServerIInv, Server!Is, Server!Outcomes, Server!GetsTheLastValue,
              Server!PeerGetsTheWhole

(* A value is read, sent or answered with. *)
LEMMA ServerExchangeKeepsIInv ==
    ASSUME Server!GattServerAssumption, ServerIInv,
           \/ \E h \in Characteristics, room \in Lengths : Server!GetAttr(h, room)
           \/ \E v \in Server!Values : Server!ResponseValue(v)
           \/ \E h \in Characteristics, v \in Server!Values : Server!Indicate(h, v)
           \/ Server!SendResponse
    PROVE  ServerIInv'
<1> USE DEF ServerIInv, Server!Outcomes, Server!GetsTheLastValue,
            Server!PeerGetsTheWhole
<1>1. ASSUME outcome' = Server!Is("error", Server!Empty),
             UNCHANGED <<service, attr, value, response, intended, request>>
      PROVE  ServerIInv'
  BY <1>1 DEF Server!Is
<1>2. ASSUME NEW h \in Characteristics, NEW room \in Lengths, Server!GetAttr(h, room)
      PROVE  ServerIInv'
  <2>1. UNCHANGED <<service, attr, value, response, intended, request>>
    BY <1>2 DEF Server!GetAttr
  <2>2. CASE room < attr[h].value.len
    BY <1>1, <1>2, <2>2 DEF Server!GetAttr
  <2>3. CASE ~ (room < attr[h].value.len)
    <3>1. outcome' = [is |-> "got", value |-> attr[h].value, of |-> h]
          /\ attr[h].value = Server!Cut(value[h]) /\ value[h] \in ServerValues
      BY <1>2, <2>3 DEF Server!GetAttr
    <3>2. Server!Cut(value[h]) = value[h] \/ value[h].len >= U16
      BY <3>1, CutKeeps
    <3> QED
      BY <2>1, <3>1, <3>2
  <2> QED
    BY <2>2, <2>3
<1>3. ASSUME NEW v \in Server!Values, Server!ResponseValue(v) PROVE ServerIInv'
  <2>1. v \in ServerValues /\ v.len \in Nat /\ MaxAttrLen \in Nat
    BY CutKeeps, ServerNumbers DEF ServerValues
  <2>2. UNCHANGED <<service, attr, value, request>>
    BY <1>3 DEF Server!ResponseValue
  <2>3. CASE v.len > MaxResponse
    BY <1>1, <1>3, <2>2, <2>3 DEF Server!ResponseValue
  <2>4. CASE ~ (v.len > MaxResponse) /\ v.len > MaxAttrLen
    <3>1. outcome' = Server!Is("panic", v) /\ UNCHANGED <<response, intended>>
      BY <1>3, <2>4 DEF Server!ResponseValue
    <3> QED
      BY <2>2, <2>4, <3>1 DEF Server!Is
  <2>5. CASE ~ (v.len > MaxResponse) /\ ~ (v.len > MaxAttrLen)
    <3>1. /\ response' = v /\ intended' = v
          /\ outcome' = Server!Is("ok", Server!Empty)
      BY <1>3, <2>5 DEF Server!ResponseValue
    <3>2. v.len <= MaxAttrLen
      BY <2>1, <2>5
    <3> QED
      BY <2>1, <2>2, <3>1, <3>2 DEF Server!Is
  <2> QED
    BY <2>3, <2>4, <2>5
<1>4. ASSUME NEW h \in Characteristics, NEW v \in Server!Values,
             Server!Indicate(h, v)
      PROVE  ServerIInv'
  <2>1. Server!Cut(v) = v \/ v.len >= U16
    BY CutKeeps DEF ServerValues
  <2> QED
    BY <1>4, <2>1 DEF Server!Indicate
<1>5. CASE Server!SendResponse
  BY <1>5 DEF Server!SendResponse, Server!Is
<1> QED
  BY <1>2, <1>3, <1>4, <1>5

(* In every reachable state the inductive invariant holds.                 *)
THEOREM ServerInvariance ==
    ASSUME Server!GattServerAssumption PROVE Server!Spec => []ServerIInv
<1>1. Server!Init => ServerIInv
  BY ServerInitIInv
<1>2. ServerIInv /\ [Server!Next]_(Server!vars) => ServerIInv'
  <2>1. ServerIInv /\ UNCHANGED Server!vars => ServerIInv'
    BY DEF Server!vars, ServerIInv, Server!GetsTheLastValue,
           Server!PeerGetsTheWhole
  <2> QED
    BY <2>1, ServerLifeKeepsIInv, ServerAttributesKeepIInv, ServerExchangeKeepsIInv
    DEF Server!Next
<1> QED
  BY <1>1, <1>2, PTL DEF Server!Spec

LEMMA ServerIInvIsSafe ==
    ASSUME Server!GattServerAssumption, ServerIInv
    PROVE  Server!TypeOK /\ Server!GetsTheLastValue /\ Server!PeerGetsTheWhole
<1>1. U16 \in Nat
  BY ServerNumbers
<1> QED
  BY <1>1 DEF ServerIInv, ServerValues, Server!TypeOK

-----------------------------------------------------------------------------
(* A name of a partition has one owner and can be taken again when its     *)
(* partition is dropped, whose unwrap() does not panic (nvs.rs), and there *)
(* is one EspOta (ota.rs).                                                 *)
THEOREM OwnerSafety == Spec => []OneOwner
<1>1. Nvs!Spec => [](Nvs!OneOwner /\ Nvs!DropSucceeds)
  BY Assumptions, NvsOwnerSafety
<1>2. Update!Spec => []Update!OneInstance
  BY Assumptions, OtaExclusion
<1> QED
  BY <1>1, <1>2, Components, PTL DEF OneOwner

(* No update erases or overwrites the image that runs (ota.rs).            *)
THEOREM ImageSafety == Spec => []RunningIntact
<1>1. Update!Spec => []Update!RunningIntact
  BY Assumptions, OtaImageSafety
<1> QED
  BY <1>1, Components, PTL DEF RunningIntact

(* A handle of ESP-IDF is valid exactly as long as the object that wraps   *)
(* it, with a handler or a transmission under way, across resets and after *)
(* every error (nvs.rs, ota.rs, netif.rs, partition.rs, thread/srp.rs), but *)
(* for what HandlesMatch excepts: a default partition of NVS that is taken *)
(* by its name as well, drivers whose constructor has failed, interfaces   *)
(* lent to a driver that is gone.                                          *)
THEOREM HandleSafety == Spec => []HandlesMatch
<1>1. Nvs!Spec => []Nvs!HandlesStayValid
  BY Assumptions, NvsHandleSafety
<1>2. Update!Spec => []Update!HandlesMatch
  BY Assumptions, OtaHandleSafety
<1>3. Net!Spec => [](Net!CalledWhileAlive /\ Net!OneAddressSource)
  <2>1. NetIInv => Net!CalledWhileAlive /\ Net!OneAddressSource
    BY Assumptions, NetIInvIsSafe
  <2> QED
    BY <2>1, Assumptions, NetInvariance, PTL
<1>4. Flash!Spec => []Flash!HandlesMatch
  <2>1. FlashIInv => Flash!HandlesMatch
    BY Assumptions, FlashIInvIsSafe
  <2> QED
    BY <2>1, Assumptions, FlashInvariance, PTL
<1>5. SrpClient!Spec => [](SrpClient!MemoryIsStable /\ SrpClient!SlotsComeBack)
  <2>1. SrpIInv => SrpClient!MemoryIsStable /\ SrpClient!SlotsComeBack
    BY DEF SrpIInv
  <2> QED
    BY <2>1, Assumptions, SrpInvariance, PTL
<1> QED
  BY <1>1, <1>2, <1>3, <1>4, <1>5, Components, PTL DEF HandlesMatch

(* What is kept keeps to its types (nvs.rs, ota.rs, netif.rs, wifi.rs,     *)
(* thread/srp.rs, partition.rs, bt/ble/gatt/client.rs and server.rs).      *)
THEOREM TypeCorrect == Spec => []TypeOK
<1>1. /\ Nvs!Spec => []Nvs!TypeOK
      /\ Update!Spec => []Update!TypeOK
  BY Assumptions, NvsTypeCorrect, OtaTypeCorrect
<1>2. Store!Spec => []Store!TypeOK
  <2>1. StoreIInv => Store!TypeOK
    BY DEF StoreIInv
  <2> QED
    BY <2>1, Assumptions, StoreInvariance, PTL
<1>3. Net!Spec => []Net!TypeOK
  <2>1. NetIInv => Net!TypeOK
    BY Assumptions, NetIInvIsSafe
  <2> QED
    BY <2>1, Assumptions, NetInvariance, PTL
<1>4. Conf!Spec => []Conf!TypeOK
  <2>1. ConfIInv => Conf!TypeOK
    BY ConfIInvIsSafe
  <2> QED
    BY <2>1, Assumptions, ConfInvariance, PTL
<1>5. SrpClient!Spec => []SrpClient!TypeOK
  <2>1. SrpIInv => SrpClient!TypeOK
    BY DEF SrpIInv
  <2> QED
    BY <2>1, Assumptions, SrpInvariance, PTL
<1>6. Flash!Spec => []Flash!TypeOK
  <2>1. FlashIInv => Flash!TypeOK
    BY DEF FlashIInv
  <2> QED
    BY <2>1, Assumptions, FlashInvariance, PTL
<1>7. Client!Spec => []Client!TypeOK
  <2>1. ClientIInv => Client!TypeOK
    BY Assumptions, ClientIInvIsSafe
  <2> QED
    BY <2>1, Assumptions, ClientInvariance, PTL
<1>8. Server!Spec => []Server!TypeOK
  <2>1. ServerIInv => Server!TypeOK
    BY Assumptions, ServerIInvIsSafe
  <2> QED
    BY <2>1, Assumptions, ServerInvariance, PTL
<1> QED
  BY <1>1, <1>2, <1>3, <1>4, <1>5, <1>6, <1>7, <1>8, Components, PTL DEF TypeOK

(* The Wi-Fi configuration and the access points that are read are what    *)
(* was set and found (wifi.rs); an iterator gives each partition of its    *)
(* type once, and the range that is erased is the one asked for            *)
(* (partition.rs); queries of the GATT client report what is there, and    *)
(* page through all of it, and values of the GATT server arrive whole      *)
(* (bt/ble/gatt/client.rs and server.rs).                                  *)
THEOREM ReadSafety ==
    Spec => [](/\ Conf!ReadsTheLastWrite /\ Conf!RecordsAreReal
               /\ Flash!TypesAreFaithful /\ Flash!EachPartitionOnce
               /\ Flash!ErasesTheRange
               /\ Client!ReportsWhatIsThere /\ Client!PagesAreTheWhole
               /\ Client!CountsAreEnough
               /\ Server!GetsTheLastValue /\ Server!PeerGetsTheWhole)
<1>1. Conf!Spec => [](Conf!ReadsTheLastWrite /\ Conf!RecordsAreReal)
  <2>1. ConfIInv => Conf!ReadsTheLastWrite /\ Conf!RecordsAreReal
    BY ConfIInvIsSafe
  <2> QED
    BY <2>1, Assumptions, ConfInvariance, PTL
<1>2. Flash!Spec =>
        [](Flash!TypesAreFaithful /\ Flash!EachPartitionOnce /\ Flash!ErasesTheRange)
  <2>1. FlashIInv =>
          Flash!TypesAreFaithful /\ Flash!EachPartitionOnce /\ Flash!ErasesTheRange
    BY Assumptions, FlashIInvIsSafe, ErasedIsTheRange
  <2> QED
    BY <2>1, Assumptions, FlashInvariance, PTL
<1>3. Client!Spec => [](/\ Client!ReportsWhatIsThere /\ Client!PagesAreTheWhole
                        /\ Client!CountsAreEnough)
  <2>1. ClientIInv => /\ Client!ReportsWhatIsThere /\ Client!PagesAreTheWhole
                      /\ Client!CountsAreEnough
    BY Assumptions, ClientIInvIsSafe
  <2> QED
    BY <2>1, Assumptions, ClientInvariance, PTL
<1>4. Server!Spec => [](Server!GetsTheLastValue /\ Server!PeerGetsTheWhole)
  <2>1. ServerIInv => Server!GetsTheLastValue /\ Server!PeerGetsTheWhole
    BY Assumptions, ServerIInvIsSafe
  <2> QED
    BY <2>1, Assumptions, ServerInvariance, PTL
<1> QED
  BY <1>1, <1>2, <1>3, <1>4, Components, PTL

(* What is read is what was written: as above, and in NVS as long as one   *)
(* task writes the key and no erase that failed has left an item (nvs.rs). *)
THEOREM WriteSafety ==
    ASSUME \A t, o \in Writers : t = o PROVE Spec => []ReadsTheLastWrite
<1>1. Store!Spec => [](Store!ReadsTheLastWrite /\ Store!OneItem)
  BY Assumptions, StoreSafety
<1> QED
  BY <1>1, ReadSafety, Components, PTL DEF ReadsTheLastWrite
=============================================================================
