------------------------- MODULE LocalResources_proofs -------------------------
(* Proofs that the lock of an installed resource counts those who read it,      *)
(* whatever managers and clients do, and that the file of a resource that is    *)
(* read stays where it is as long as no two managers work on one resource.      *)
EXTENDS LocalResources, FiniteSetTheorems, TLAPS

CallType == [pc : {"idle", "lock", "wait", "remove", "install", "unlock"},
             kind : CallKinds \cup {"none"}, id : ResourceIds,
             object : Installed \cup {NoInstalled}]

-----------------------------------------------------------------------------
(* The inductive invariant of the locks.                                        *)

ListTypes ==
    /\ lrListed \in [ResourceIds -> Installed \cup {NoInstalled}]
    /\ lrFile \in [ResourceIds -> Installed \cup {NoInstalled}]
LockType == lrLock \in [Installed -> Int]
CallTypes == lrCall \in [Managers -> CallType]
ClientTypes ==
    /\ lrKnown \in [Clients -> SUBSET Installed] /\ lrRead \in [Clients -> SUBSET Installed]
    /\ lrReading \subseteq Clients
CallsLeft == lrCalls \in 0..MaxCalls

\* The list's lock is held by the call that is past its first step.
HolderOK ==
    /\ \A m \in Managers : lrHolder = m <=> lrCall[m].pc \notin {"idle", "lock"}
    /\ lrHolder \in Managers \cup {NoManager}

\* Who locks a resource has one, and who has no interface reads nothing.
ObjectsOK ==
    /\ \A m \in Managers : lrCall[m].pc = "wait" => lrCall[m].object \in Installed
    /\ \A m \in Managers : lrCall[m].pc \notin {"idle", "unlock"} /\ lrCall[m].kind = "uninstall"
                              => lrCall[m].object \in Installed
    /\ \A c \in Clients \ lrReading : lrRead[c] = {}

LockInv ==
    /\ ListTypes /\ LockType /\ CallTypes /\ ClientTypes /\ CallsLeft
    /\ HolderOK /\ ObjectsOK /\ CounterTellsReaders

-----------------------------------------------------------------------------
(* The inductive invariant of the files.                                        *)

Files == {lrFile[id] : id \in ResourceIds}
Busy(m) == lrCall[m].pc # "idle"

\* A call has its resource for itself.
CallsApart == \A m, n \in Managers : Busy(m) /\ Busy(n) /\ lrCall[m].id = lrCall[n].id => m = n

\* A call that is going to touch the file has locked the object it replaces, and
\* nothing else is listed for its resource.
CallOK(m) ==
    LET call == lrCall[m] IN
    /\ call.pc # "idle" /\ call.kind = "uninstall" => lrListed[call.id] = NoInstalled
    /\ call.pc = "lock" /\ call.kind # "uninstall" => call.object = NoInstalled
    /\ call.pc = "install" => call.kind # "uninstall"
    /\ call.pc \in {"wait", "remove", "install"} => lrListed[call.id] \in {NoInstalled, call.object}
    /\ call.pc \in {"remove", "install"} /\ call.object # NoInstalled => lrLock[call.object] < 0
CallsOK == \A m \in Managers : CallOK(m)

\* The file of a resource is listed, or locked for writing for good, or held by the
\* call that has taken it from the list.
Accounted(id) ==
    LET i == lrFile[id] IN
    \/ i = NoInstalled \/ lrListed[id] = i
    \/ i \in Installed /\ lrLock[i] < 0
    \/ \E m \in Managers : /\ lrCall[m].pc \in {"lock", "wait"} /\ lrCall[m].id = id
                           /\ lrCall[m].object = i
FilesAccounted == \A id \in ResourceIds : Accounted(id)

\* What can be read has its file.
ReadableHasFile == \A i \in Installed : InUse(i) /\ lrLock[i] >= 0 => i \in Files

FileInv == LockInv /\ CallsApart /\ CallsOK /\ FilesAccounted /\ ReadableHasFile

-----------------------------------------------------------------------------
(* Counting readers.                                                            *)

Count(i) == Cardinality({c \in Clients : i \in lrRead[c]})
Tells(i) == lrLock[i] = Count(i) \/ (lrLock[i] < 0 /\ Count(i) = 0)

UsedTells == \A i \in Installed : InUse(i) => Tells(i)

LEMMA CounterIs == CounterTellsReaders <=> UsedTells
BY DEF CounterTellsReaders, UsedTells, Tells, Count

LEMMA CounterTold == CounterTellsReaders' <=> UsedTells'
BY CounterIs, PTL

\* Clients are finitely many, so that the readers of an object can be counted.
LEMMA CountIsNat ==
    ASSUME NEW i
    PROVE  Count(i) \in Nat /\ (Count(i) = 0 <=> \A c \in Clients : i \notin lrRead[c])
<1> DEFINE R == {c \in Clients : i \in lrRead[c]}
<1>1. IsFiniteSet(R)
  BY LocalNamesAssumption, FS_Subset
<1>2. Cardinality(R) \in Nat /\ (Cardinality(R) = 0 <=> R = {})
  BY <1>1, FS_CardinalityType, FS_EmptySet
<1>3. QED
  BY <1>2 DEF Count

LEMMA CountSame ==
    ASSUME NEW i, \A c \in Clients : i \in lrRead'[c] <=> i \in lrRead[c]
    PROVE  Count(i)' = Count(i)
<1>1. {c \in Clients : i \in lrRead'[c]} = {c \in Clients : i \in lrRead[c]}
  OBVIOUS
<1>2. QED
  BY <1>1 DEF Count

LEMMA CountMore ==
    ASSUME NEW i, NEW c \in Clients, i \notin lrRead[c], i \in lrRead'[c],
           \A d \in Clients \ {c} : i \in lrRead'[d] <=> i \in lrRead[d]
    PROVE  Count(i)' = Count(i) + 1
<1> DEFINE R == {d \in Clients : i \in lrRead[d]}
<1>1. {d \in Clients : i \in lrRead'[d]} = R \cup {c} /\ c \notin R
  OBVIOUS
<1>2. IsFiniteSet(R)
  BY LocalNamesAssumption, FS_Subset
<1>3. Cardinality(R \cup {c}) = Cardinality(R) + 1
  BY <1>1, <1>2, FS_AddElement
<1>4. QED
  BY <1>1, <1>3 DEF Count

LEMMA CountLess ==
    ASSUME NEW i, NEW c \in Clients, i \in lrRead[c], i \notin lrRead'[c],
           \A d \in Clients \ {c} : i \in lrRead'[d] <=> i \in lrRead[d]
    PROVE  Count(i)' = Count(i) - 1
<1> DEFINE R == {d \in Clients : i \in lrRead[d]}
<1>1. {d \in Clients : i \in lrRead'[d]} = R \ {c} /\ c \in R
  OBVIOUS
<1>2. IsFiniteSet(R)
  BY LocalNamesAssumption, FS_Subset
<1>3. Cardinality(R \ {c}) = Cardinality(R) - 1
  BY <1>1, <1>2, FS_RemoveElement
<1>4. QED
  BY <1>1, <1>3 DEF Count

-----------------------------------------------------------------------------
(* Managers and the locks.                                                      *)

\* Nothing comes into use, and no lock changes, except perhaps that of one object.
KeepsLocks(k) == \A i \in Installed \ {k} : InUse(i)' => InUse(i) /\ lrLock'[i] = lrLock[i]
LockedOnce(k) == InUse(k) /\ lrLock[k] <= 0 /\ lrLock'[k] = lrLock[k] - 1
Fresh(k) == ~InUse(k) /\ lrLock'[k] = 0

\* A manager reads nothing: what is in use was so before, and its lock is what it
\* was or locked for writing once more, or it is an object without a reader.
LEMMA ManagersCount ==
    ASSUME LockInv, UNCHANGED lrRead, NEW k, KeepsLocks(k),
           k \in Installed => LockedOnce(k) \/ Fresh(k)
    PROVE  CounterTellsReaders'
<1> SUFFICES ASSUME NEW i \in Installed, InUse(i)' PROVE Tells(i)'
  BY CounterTold DEF UsedTells
<1>1. Count(i)' = Count(i) /\ Count(i) \in Nat /\ lrLock[i] \in Int
  BY CountSame, CountIsNat DEF LockInv, LockType
<1>2. InUse(i) => Tells(i)
  BY CounterIs DEF LockInv, UsedTells
<1>3. ~InUse(i) => Count(i) = 0
  BY CountIsNat DEF InUse
<1>4. QED
  BY <1>1, <1>2, <1>3 DEF Tells, KeepsLocks, LockedOnce, Fresh

LEMMA ManagersQuiet ==
    ASSUME LockInv, UNCHANGED <<lrRead, lrLock>>, \A i \in Installed : InUse(i)' => InUse(i)
    PROVE  CounterTellsReaders'
<1>1. NoInstalled \notin Installed
  BY LocalNamesAssumption
<1>2. KeepsLocks(NoInstalled)
  BY DEF KeepsLocks
<1>3. QED
  BY <1>1, <1>2, ManagersCount

LEMMA StartCallLock ==
    ASSUME LockInv, NEW m \in Managers, NEW kind \in CallKinds, NEW id \in ResourceIds,
           StartCall(m, kind, id)
    PROVE  LockInv'
<1> USE LocalNamesAssumption DEF LockInv
<1>1. lrListed[id] \in Installed \cup {NoInstalled}
  BY DEF ListTypes
<1>2. ListTypes' /\ LockType'
  BY DEF ListTypes, LockType, StartCall
<1>3. CallTypes'
  BY <1>1 DEF CallTypes, CallType, StartCall
<1>4. ClientTypes' /\ CallsLeft'
  BY LocalBoundsAssumption DEF ClientTypes, CallsLeft, StartCall, clientPart
<1>5. HolderOK'
  BY DEF HolderOK, CallTypes, CallType, StartCall
<1>6. ObjectsOK'
  BY <1>1 DEF ObjectsOK, CallTypes, CallType, StartCall, clientPart
<1>7. \A i \in Installed : InUse(i)' => InUse(i)
  BY DEF InUse, ListTypes, CallTypes, StartCall, clientPart
<1>8. CounterTellsReaders'
  BY <1>7, ManagersQuiet DEF StartCall, clientPart
<1>9. QED
  BY <1>2, <1>3, <1>4, <1>5, <1>6, <1>8

LEMMA LockListLock ==
    ASSUME LockInv, NEW m \in Managers, LockList(m)
    PROVE  LockInv'
<1> USE LocalNamesAssumption DEF LockInv
<1> DEFINE call == lrCall[m]
           object == IF call.kind = "uninstall" THEN call.object ELSE lrListed[call.id]
<1>1. call \in CallType /\ object \in Installed \cup {NoInstalled} /\ call.pc = "lock"
  BY DEF ListTypes, CallTypes, CallType, LockList
<1>2. PICK next \in {"wait", "unlock", "install"} :
         /\ next = "wait" => object # NoInstalled
         /\ call.kind = "uninstall" => object \in Installed
         /\ lrCall' = [lrCall EXCEPT ![m].pc = next, ![m].object = object]
  BY <1>1 DEF LockList, ObjectsOK
<1> HIDE DEF object
<1>3. ListTypes' /\ LockType'
  BY <1>1 DEF ListTypes, LockType, LockList, CallType
<1>4. CallTypes'
  BY <1>1, <1>2 DEF CallTypes, CallType
<1>5. ClientTypes' /\ CallsLeft'
  BY DEF ClientTypes, CallsLeft, LockList, clientPart
<1>6. HolderOK'
  BY <1>1, <1>2 DEF HolderOK, CallTypes, CallType, LockList
<1>7. ObjectsOK'
  BY <1>1, <1>2 DEF ObjectsOK, CallTypes, CallType, LockList, clientPart
<1>8. \A i \in Installed : object = i => InUse(i)
  BY <1>1 DEF InUse, object, CallType
<1>9. \A i \in Installed : InUse(i)' => InUse(i)
  BY <1>1, <1>2, <1>8 DEF InUse, ListTypes, CallTypes, CallType, LockList, clientPart
<1>10. CounterTellsReaders'
  BY <1>9, ManagersQuiet DEF LockList, clientPart
<1>11. QED
  BY <1>3, <1>4, <1>5, <1>6, <1>7, <1>10

LEMMA LockForWritingLock ==
    ASSUME LockInv, NEW m \in Managers, LockForWriting(m)
    PROVE  LockInv'
<1> USE LocalNamesAssumption DEF LockInv
<1> PICK i \in Installed : i = lrCall[m].object
  BY DEF ObjectsOK, LockForWriting
<1>1. /\ lrCall[m].pc = "wait" /\ lrLock[i] \in Int /\ lrLock[i] <= 0
      /\ lrLock' = [lrLock EXCEPT ![i] = @ - 1]
      /\ lrCall' = [lrCall EXCEPT ![m].pc = "remove"]
  BY DEF ObjectsOK, LockType, LockForWriting
<1>2. ListTypes' /\ LockType' /\ ClientTypes' /\ CallsLeft'
  BY <1>1 DEF ListTypes, LockType, ClientTypes, CallsLeft, LockForWriting, clientPart
<1>3. CallTypes'
  BY <1>1 DEF CallTypes, CallType
<1>4. HolderOK'
  BY <1>1 DEF HolderOK, CallTypes, CallType, LockForWriting
<1>5. ObjectsOK'
  BY <1>1 DEF ObjectsOK, CallTypes, CallType, LockForWriting, clientPart
<1>6. \A j \in Installed : InUse(j)' => InUse(j)
  BY <1>1 DEF InUse, CallTypes, CallType, LockForWriting, clientPart
<1>7. InUse(i)
  BY DEF InUse
<1>8. \A j \in Installed \ {i} : lrLock'[j] = lrLock[j]
  BY <1>1 DEF LockType
<1>9. lrLock'[i] = lrLock[i] - 1
  BY <1>1 DEF LockType
<1>10. CounterTellsReaders'
  <2>1. KeepsLocks(i)
    BY <1>6, <1>8 DEF KeepsLocks
  <2>2. LockedOnce(i)
    BY <1>1, <1>7, <1>9 DEF LockedOnce
  <2>3. UNCHANGED lrRead
    BY DEF LockForWriting, clientPart
  <2>4. QED
    BY <2>1, <2>2, <2>3, ManagersCount
<1>11. QED
  BY <1>2, <1>3, <1>4, <1>5, <1>10

LEMMA RemoveFileLock ==
    ASSUME LockInv, NEW m \in Managers, RemoveFile(m)
    PROVE  LockInv'
<1> USE LocalNamesAssumption DEF LockInv
<1>1. PICK next \in {"unlock", "install"} :
         /\ lrCall[m].kind = "uninstall" => next = "unlock"
         /\ lrCall' = [lrCall EXCEPT ![m].pc = next]
  BY DEF RemoveFile
<1>2. lrCall[m].pc = "remove"
  BY DEF RemoveFile
<1>3. ListTypes' /\ LockType' /\ ClientTypes' /\ CallsLeft'
  BY DEF ListTypes, LockType, ClientTypes, CallsLeft, RemoveFile, clientPart
<1>4. CallTypes'
  BY <1>1 DEF CallTypes, CallType
<1>5. HolderOK'
  BY <1>1, <1>2 DEF HolderOK, CallTypes, CallType, RemoveFile
<1>6. ObjectsOK'
  BY <1>1 DEF ObjectsOK, CallTypes, CallType, RemoveFile, clientPart
<1>7. \A i \in Installed : InUse(i)' => InUse(i)
  BY <1>1 DEF InUse, ListTypes, CallTypes, CallType, RemoveFile, clientPart
<1>8. CounterTellsReaders'
  BY <1>7, ManagersQuiet DEF RemoveFile, clientPart
<1>9. QED
  BY <1>3, <1>4, <1>5, <1>6, <1>8

\* What InstallFile does when it succeeds: an unreferenced object becomes the file.
Installs(m, i) ==
    /\ ~InUse(i)
    /\ lrFile' = [lrFile EXCEPT ![lrCall[m].id] = i]
    /\ lrListed' = [lrListed EXCEPT ![lrCall[m].id] = i]
    /\ lrLock' = [lrLock EXCEPT ![i] = 0]

LEMMA InstallCases ==
    ASSUME NEW m \in Managers, InstallFile(m)
    PROVE  (\E i \in Installed : Installs(m, i)) \/ UNCHANGED <<lrFile, lrListed, lrLock>>
BY DEF InstallFile, Installs

LEMMA InstallFileLock ==
    ASSUME LockInv, NEW m \in Managers, InstallFile(m)
    PROVE  LockInv'
<1> USE LocalNamesAssumption DEF LockInv
<1>1. lrCall' = [lrCall EXCEPT ![m].pc = "unlock"] /\ lrCall[m].pc = "install"
  BY DEF InstallFile
<1>2. ClientTypes' /\ CallsLeft'
  BY DEF ClientTypes, CallsLeft, InstallFile, clientPart
<1>3. CallTypes'
  BY <1>1 DEF CallTypes, CallType
<1>4. HolderOK'
  BY <1>1 DEF HolderOK, CallTypes, CallType, InstallFile
<1>5. ObjectsOK'
  BY <1>1 DEF ObjectsOK, CallTypes, CallType, InstallFile, clientPart
<1>6. ListTypes' /\ LockType' /\ CounterTellsReaders'
  <2>1. CASE UNCHANGED <<lrFile, lrListed, lrLock>>
    <3>1. \A i \in Installed : InUse(i)' => InUse(i)
      BY <1>1, <2>1 DEF InUse, CallTypes, CallType, InstallFile, clientPart
    <3>2. CounterTellsReaders'
      BY <2>1, <3>1, ManagersQuiet DEF InstallFile, clientPart
    <3>3. QED
      BY <2>1, <3>2 DEF ListTypes, LockType
  <2>2. ASSUME NEW i \in Installed, Installs(m, i)
        PROVE  ListTypes' /\ LockType' /\ CounterTellsReaders'
    <3>1. ListTypes' /\ LockType'
      <4>1. lrCall[m].id \in ResourceIds
        BY DEF CallTypes, CallType
      <4>2. LockType'
        BY <2>2 DEF LockType, Installs
      <4>3. QED
        BY <2>2, <4>1, <4>2 DEF ListTypes, Installs
    <3>2. \A j \in Installed \ {i} : InUse(j)' => InUse(j)
      BY <1>1, <2>2 DEF InUse, ListTypes, CallTypes, CallType, Installs, InstallFile, clientPart
    <3>3. \A j \in Installed \ {i} : lrLock'[j] = lrLock[j]
      BY <2>2 DEF LockType, Installs
    <3>4. Fresh(i)
      BY <2>2 DEF LockType, Installs, Fresh
    <3>5. KeepsLocks(i)
      BY <3>2, <3>3 DEF KeepsLocks
    <3>6. CounterTellsReaders'
      BY <3>4, <3>5, ManagersCount DEF InstallFile, clientPart
    <3>7. QED
      BY <3>1, <3>6
  <2>3. QED
    BY <2>1, <2>2, InstallCases
<1>7. QED
  BY <1>2, <1>3, <1>4, <1>5, <1>6

LEMMA UnlockListLock ==
    ASSUME LockInv, NEW m \in Managers, UnlockList(m)
    PROVE  LockInv'
<1> USE LocalNamesAssumption DEF LockInv
<1>1. PICK id \in ResourceIds :
         lrCall' = [lrCall EXCEPT ![m] = [pc |-> "idle", kind |-> "none", id |-> id,
                                          object |-> NoInstalled]]
  BY DEF UnlockList, NoCall
<1>2. lrCall[m].pc = "unlock" /\ lrHolder' = NoManager
  BY DEF UnlockList
<1>3. ListTypes' /\ LockType' /\ ClientTypes' /\ CallsLeft'
  BY DEF ListTypes, LockType, ClientTypes, CallsLeft, UnlockList, clientPart
<1>4. CallTypes'
  BY <1>1 DEF CallTypes, CallType
<1>5. HolderOK'
  BY <1>1, <1>2 DEF HolderOK, CallTypes, CallType
<1>6. ObjectsOK'
  BY <1>1 DEF ObjectsOK, CallTypes, CallType, UnlockList, clientPart
<1>7. \A i \in Installed : InUse(i)' => InUse(i)
  BY <1>1 DEF InUse, CallTypes, CallType, UnlockList, clientPart
<1>8. CounterTellsReaders'
  BY <1>7, ManagersQuiet DEF UnlockList, clientPart
<1>9. QED
  BY <1>3, <1>4, <1>5, <1>6, <1>8

-----------------------------------------------------------------------------
(* Clients and the locks.                                                       *)

LEMMA OpenInterfaceLock ==
    ASSUME LockInv, UNCHANGED managerPart, CallsLeft', NEW c \in Clients, c \notin lrReading,
           NEW objects \in SUBSET Installed, \A i \in objects : InUse(i), OpenInterface(c, objects)
    PROVE  LockInv'
<1> USE LocalNamesAssumption DEF LockInv
<1> DEFINE free == {i \in objects : lrLock[i] >= 0}
<1>1. /\ lrRead' = [lrRead EXCEPT ![c] = free] /\ lrRead[c] = {}
      /\ lrKnown' = [lrKnown EXCEPT ![c] = {}] /\ lrReading' = lrReading \cup {c}
      /\ lrLock' = [i \in Installed |-> IF i \in free THEN lrLock[i] + 1 ELSE lrLock[i]]
  BY DEF OpenInterface, ObjectsOK
<1>2. ListTypes' /\ CallTypes' /\ HolderOK'
  BY DEF ListTypes, CallTypes, HolderOK, managerPart
<1>3. LockType' /\ ClientTypes'
  BY <1>1 DEF LockType, ClientTypes
<1>4. ObjectsOK'
  BY <1>1 DEF ObjectsOK, ClientTypes, managerPart
<1>5. CounterTellsReaders'
  <2> SUFFICES ASSUME NEW i \in Installed, InUse(i)' PROVE Tells(i)'
    BY CounterTold DEF UsedTells
  <2>1. InUse(i)
    BY <1>1 DEF InUse, ClientTypes, managerPart
  <2>2. Tells(i) /\ Count(i) \in Nat /\ lrLock[i] \in Int
    BY <2>1, CounterIs, CountIsNat DEF LockType, UsedTells
  <2>3. CASE i \in free
    <3>1. Count(i)' = Count(i) + 1
      BY <1>1, <2>3, CountMore DEF ClientTypes
    <3>2. lrLock[i] >= 0 /\ lrLock'[i] = lrLock[i] + 1
      BY <1>1, <2>3
    <3>3. QED
      BY <2>2, <3>1, <3>2 DEF Tells
  <2>4. CASE i \notin free
    <3>1. Count(i)' = Count(i)
      BY <1>1, <2>4, CountSame DEF ClientTypes
    <3>2. lrLock'[i] = lrLock[i]
      BY <1>1, <2>4
    <3>3. QED
      BY <2>2, <3>1, <3>2 DEF Tells
  <2>5. QED
    BY <2>3, <2>4
<1>6. QED
  BY <1>2, <1>3, <1>4, <1>5

LEMMA OpenLock ==
    ASSUME LockInv, NEW c \in Clients, OpenListed(c) \/ OpenKnown(c)
    PROVE  LockInv'
<1>1. CASE OpenListed(c)
  <2>1. ListedObjects \subseteq Installed /\ \A i \in ListedObjects : InUse(i)
    BY DEF ListedObjects, InUse, LockInv, ListTypes
  <2>2. CallsLeft'
    BY <1>1, LocalBoundsAssumption DEF LockInv, CallsLeft, OpenListed
  <2>3. QED
    BY <1>1, <2>1, <2>2, OpenInterfaceLock DEF OpenListed
<1>2. CASE OpenKnown(c)
  <2>1. lrKnown[c] \subseteq Installed /\ \A i \in lrKnown[c] : InUse(i)
    BY DEF InUse, LockInv, ClientTypes
  <2>2. CallsLeft'
    BY <1>2 DEF LockInv, CallsLeft, OpenKnown
  <2>3. QED
    BY <1>2, <2>1, <2>2, OpenInterfaceLock DEF OpenKnown
<1>3. QED
  BY <1>1, <1>2

LEMMA AskLock ==
    ASSUME LockInv, NEW c \in Clients, AskLocalResources(c)
    PROVE  LockInv'
<1> USE DEF LockInv
<1>1. ListedObjects \subseteq Installed /\ \A i \in ListedObjects : InUse(i)
  BY DEF ListedObjects, InUse, ListTypes
<1>2. /\ lrKnown' = [lrKnown EXCEPT ![c] = ListedObjects] /\ UNCHANGED <<lrRead, lrReading, lrLock>>
      /\ UNCHANGED managerPart
  BY DEF AskLocalResources
<1>3. ListTypes' /\ LockType' /\ CallTypes' /\ HolderOK' /\ ObjectsOK'
  BY <1>2 DEF ListTypes, LockType, CallTypes, HolderOK, ObjectsOK, managerPart
<1>4. ClientTypes'
  BY <1>1, <1>2 DEF ClientTypes
<1>5. CallsLeft'
  BY LocalBoundsAssumption DEF CallsLeft, AskLocalResources
<1>6. \A i \in Installed : InUse(i)' => InUse(i)
  BY <1>1, <1>2 DEF InUse, ClientTypes, managerPart
<1>7. CounterTellsReaders'
  BY <1>2, <1>6, ManagersQuiet
<1>8. QED
  BY <1>3, <1>4, <1>5, <1>7

LEMMA ReleaseLock ==
    ASSUME LockInv, NEW c \in Clients, ReleaseOne(c)
    PROVE  LockInv'
<1> USE DEF LockInv
<1>1. UNCHANGED managerPart /\ UNCHANGED <<lrCalls, lrKnown>>
  BY DEF ReleaseOne
<1>2. ListTypes' /\ CallTypes' /\ HolderOK' /\ CallsLeft'
  BY <1>1 DEF ListTypes, CallTypes, HolderOK, CallsLeft, managerPart
<1>3. CASE lrRead[c] = {} /\ lrReading' = lrReading \ {c} /\ UNCHANGED <<lrRead, lrLock>>
  <2>1. LockType' /\ ClientTypes' /\ ObjectsOK'
    BY <1>1, <1>3 DEF LockType, ClientTypes, ObjectsOK, managerPart
  <2>2. \A i \in Installed : InUse(i)' => InUse(i)
    BY <1>1, <1>3 DEF InUse, managerPart
  <2>3. CounterTellsReaders'
    BY <1>3, <2>2, ManagersQuiet
  <2>4. QED
    BY <1>2, <2>1, <2>3
<1>4. ASSUME NEW r \in lrRead[c], lrRead' = [lrRead EXCEPT ![c] = @ \ {r}],
             lrLock' = [lrLock EXCEPT ![r] = @ - 1], UNCHANGED lrReading
      PROVE  LockInv'
  <2>1. r \in Installed /\ InUse(r) /\ c \in lrReading
    BY DEF ClientTypes, InUse, ReleaseOne
  <2>2. LockType' /\ ClientTypes' /\ ObjectsOK'
    BY <1>1, <1>4, <2>1 DEF LockType, ClientTypes, ObjectsOK, managerPart
  <2>3. CounterTellsReaders'
    <3> SUFFICES ASSUME NEW i \in Installed, InUse(i)' PROVE Tells(i)'
      BY CounterTold DEF UsedTells
    <3>1. InUse(i)
      BY <1>1, <1>4 DEF InUse, ClientTypes, managerPart
    <3>2. Tells(i) /\ Count(i) \in Nat /\ lrLock[i] \in Int
      BY <3>1, CounterIs, CountIsNat DEF LockType, UsedTells
    <3>3. CASE i = r
      <4>1. Count(i)' = Count(i) - 1 /\ Count(i) # 0
        BY <1>4, <3>3, CountLess, CountIsNat DEF ClientTypes
      <4>2. lrLock'[i] = lrLock[i] - 1
        BY <1>4, <3>3 DEF LockType
      <4>3. QED
        BY <3>2, <4>1, <4>2 DEF Tells
    <3>4. CASE i # r
      <4>1. Count(i)' = Count(i)
        BY <1>4, <3>4, CountSame DEF ClientTypes
      <4>2. lrLock'[i] = lrLock[i]
        BY <1>4, <3>4 DEF LockType
      <4>3. QED
        BY <3>2, <4>1, <4>2 DEF Tells
    <3>5. QED
      BY <3>3, <3>4
  <2>4. QED
    BY <1>2, <2>2, <2>3
<1>5. QED
  BY <1>3, <1>4 DEF ReleaseOne

LEMMA LockInitially == LocalInit => LockInv
<1> SUFFICES ASSUME LocalInit PROVE LockInv
  OBVIOUS
<1> USE LocalNamesAssumption, LocalBoundsAssumption DEF LocalInit
<1>1. \A m \in Managers : lrCall[m] \in CallType /\ lrCall[m].pc = "idle"
  BY DEF NoCall, CallType
<1>2. ListTypes /\ LockType /\ CallTypes /\ ClientTypes /\ CallsLeft
  BY <1>1 DEF ListTypes, LockType, CallTypes, ClientTypes, CallsLeft
<1>3. HolderOK /\ ObjectsOK
  BY <1>1 DEF HolderOK, ObjectsOK
<1>4. \A i \in Installed : Count(i) = 0 /\ lrLock[i] = 0
  BY CountIsNat
<1>5. CounterTellsReaders
  BY <1>4, CounterIs DEF Tells, UsedTells
<1>6. QED
  BY <1>2, <1>3, <1>5 DEF LockInv

LEMMA LockSteps == LockInv /\ [LocalNext]_lrVars => LockInv'
<1> SUFFICES ASSUME LockInv, [LocalNext]_lrVars PROVE LockInv'
  OBVIOUS
<1>1. CASE \E m \in Managers, kind \in CallKinds, id \in ResourceIds : StartCall(m, kind, id)
  BY <1>1, StartCallLock
<1>2. CASE \E m \in Managers : ManagerStep(m)
  BY <1>2, LockListLock, LockForWritingLock, RemoveFileLock, InstallFileLock, UnlockListLock
     DEF ManagerStep
<1>3. CASE \E c \in Clients : OpenListed(c) \/ AskLocalResources(c) \/ OpenKnown(c) \/ ReleaseOne(c)
  BY <1>3, OpenLock, AskLock, ReleaseLock
<1>4. CASE UNCHANGED lrVars
  <2> USE <1>4 DEF LockInv, lrVars, managerPart, clientPart
  <2>1. /\ ListTypes' /\ LockType' /\ CallTypes' /\ ClientTypes' /\ CallsLeft'
        /\ HolderOK' /\ ObjectsOK'
    BY DEF ListTypes, LockType, CallTypes, ClientTypes, CallsLeft, HolderOK, ObjectsOK
  <2>2. CounterTellsReaders'
    BY DEF CounterTellsReaders, InUse
  <2>3. QED
    BY <2>1, <2>2
<1>5. QED
  BY <1>1, <1>2, <1>3, <1>4 DEF LocalNext

-----------------------------------------------------------------------------
(* Managers and the files.                                                      *)

FileParts == CallsApart /\ CallsOK /\ FilesAccounted /\ ReadableHasFile

\* A call about to replace or remove the file of its resource has locked whoever
\* read it out.
LEMMA OldFileLocked ==
    ASSUME FileInv, NEW m \in Managers, lrCall[m].pc \in {"remove", "install"},
           NEW i \in Installed, lrFile[lrCall[m].id] = i
    PROVE  lrLock[i] < 0
<1> USE LocalNamesAssumption DEF FileInv
<1> PICK id \in ResourceIds : id = lrCall[m].id
  BY DEF LockInv, CallTypes, CallType
<1>1. Accounted(id)
  BY DEF FilesAccounted
<1>2. CASE lrListed[id] = i
  BY <1>2 DEF CallsOK, CallOK
<1>3. CASE \E n \in Managers : lrCall[n].pc \in {"lock", "wait"} /\ lrCall[n].id = id
  BY <1>3 DEF CallsApart, Busy
<1>4. QED
  BY <1>1, <1>2, <1>3 DEF Accounted

LEMMA StartCallFile ==
    ASSUME ~Overlap, FileInv, NEW m \in Managers, NEW kind \in CallKinds, NEW id \in ResourceIds,
           StartCall(m, kind, id)
    PROVE  FileParts'
<1> USE LocalNamesAssumption DEF FileInv, FileParts
<1>1. /\ lrCall[m].pc = "idle" /\ UNCHANGED <<lrFile, lrLock, lrKnown, lrRead>>
      /\ \A n \in Managers : Busy(n) => lrCall[n].id # id
      /\ lrListed[id] \in Installed \cup {NoInstalled}
  BY DEF StartCall, Busy, clientPart, LockInv, ListTypes
<1>2. PICK object \in Installed \cup {NoInstalled} :
         /\ lrCall' = [lrCall EXCEPT ![m] = [pc |-> "lock", kind |-> kind, id |-> id,
                                             object |-> object]]
         /\ kind = "uninstall" => object = lrListed[id] /\ object # NoInstalled
         /\ kind # "uninstall" => object = NoInstalled
         /\ lrListed' = [lrListed EXCEPT ![id] = IF kind = "uninstall" THEN NoInstalled ELSE @]
  BY <1>1 DEF StartCall
<1>3. /\ lrCall'[m] = [pc |-> "lock", kind |-> kind, id |-> id, object |-> object]
      /\ \A n \in Managers \ {m} : lrCall'[n] = lrCall[n]
  BY <1>2 DEF LockInv, CallTypes
<1>4. /\ lrListed'[id] = IF kind = "uninstall" THEN NoInstalled ELSE lrListed[id]
      /\ \A k \in ResourceIds \ {id} : lrListed'[k] = lrListed[k]
  BY <1>2 DEF LockInv, ListTypes
<1>5. \A n \in Managers : lrCall[n].id \in ResourceIds
  BY DEF LockInv, CallTypes, CallType
<1>6. CallsApart'
  BY <1>1, <1>3 DEF CallsApart, Busy
<1>7. CallsOK'
  <2> SUFFICES ASSUME NEW n \in Managers PROVE CallOK(n)'
    BY DEF CallsOK
  <2>1. CASE n = m
    BY <1>2, <1>3, <1>4, <2>1 DEF CallOK
  <2>2. CASE n # m
    BY <1>1, <1>3, <1>4, <1>5, <2>2 DEF CallsOK, CallOK, Busy
  <2>3. QED
    BY <2>1, <2>2
<1>8. FilesAccounted'
  <2> SUFFICES ASSUME NEW k \in ResourceIds PROVE Accounted(k)'
    BY DEF FilesAccounted
  <2>1. Accounted(k)
    BY DEF FilesAccounted
  <2>2. \A n \in Managers : lrCall[n].pc \in {"lock", "wait"} => n # m
    BY <1>1
  <2>3. QED
    BY <1>1, <1>2, <1>3, <1>4, <2>1, <2>2 DEF Accounted
<1>9. \A i \in Installed : InUse(i)' => InUse(i)
  BY <1>1, <1>2, <1>3, <1>4 DEF InUse
<1>10. ReadableHasFile'
  BY <1>1, <1>9 DEF ReadableHasFile, Files
<1>11. QED
  BY <1>6, <1>7, <1>8, <1>10

LEMMA LockListFile ==
    ASSUME FileInv, NEW m \in Managers, LockList(m)
    PROVE  FileParts'
<1> USE LocalNamesAssumption DEF FileInv, FileParts
<1> PICK id \in ResourceIds : id = lrCall[m].id
  BY DEF LockInv, CallTypes, CallType
<1> PICK kind \in CallKinds \cup {"none"} : kind = lrCall[m].kind
  BY DEF LockInv, CallTypes, CallType
<1> PICK object \in Installed \cup {NoInstalled} :
       object = IF kind = "uninstall" THEN lrCall[m].object ELSE lrListed[id]
  BY DEF LockInv, CallTypes, CallType, ListTypes
<1>1. PICK next \in {"wait", "unlock", "install"} :
         /\ next = "wait" => object # NoInstalled
         /\ next = "install" => object = NoInstalled
         /\ object # NoInstalled /\ kind # "install" => next = "wait"
         /\ lrCall' = [lrCall EXCEPT ![m].pc = next, ![m].object = object]
  BY DEF LockList
<1>2. /\ lrCall[m].pc = "lock" /\ UNCHANGED <<lrFile, lrLock, lrKnown, lrRead>>
      /\ lrListed' = [lrListed EXCEPT ![id] = IF kind = "import" THEN NoInstalled ELSE @]
  BY DEF LockList, clientPart
<1>3. /\ lrCall'[m].pc = next /\ lrCall'[m].kind = kind /\ lrCall'[m].id = id
      /\ lrCall'[m].object = object
      /\ \A n \in Managers \ {m} : lrCall'[n] = lrCall[n]
  BY <1>1 DEF LockInv, CallTypes, CallType
<1>4. /\ lrListed'[id] = IF kind = "import" THEN NoInstalled ELSE lrListed[id]
      /\ \A k \in ResourceIds \ {id} : lrListed'[k] = lrListed[k]
  BY <1>2 DEF LockInv, ListTypes
<1>5. \A n \in Managers : lrCall[n].id \in ResourceIds
  BY DEF LockInv, CallTypes, CallType
<1>6. \A n \in Managers : Busy(n) /\ lrCall[n].id = id => n = m
  BY <1>2 DEF CallsApart, Busy
<1>7. /\ kind = "uninstall" => lrListed[id] = NoInstalled
      /\ kind # "uninstall" => lrCall[m].object = NoInstalled
      /\ kind = "uninstall" => next # "install"
  BY <1>1, <1>2 DEF CallsOK, CallOK, LockInv, ObjectsOK
<1>8. CallsApart'
  BY <1>2, <1>3 DEF CallsApart, Busy
<1>9. CallsOK'
  <2> SUFFICES ASSUME NEW n \in Managers PROVE CallOK(n)'
    BY DEF CallsOK
  <2>1. CASE n = m
    BY <1>1, <1>3, <1>4, <1>7, <2>1 DEF CallOK
  <2>2. CASE n # m
    BY <1>2, <1>3, <1>4, <1>5, <1>6, <2>2 DEF CallsOK, CallOK, Busy
  <2>3. QED
    BY <2>1, <2>2
<1>10. FilesAccounted'
  <2> SUFFICES ASSUME NEW k \in ResourceIds PROVE Accounted(k)'
    BY DEF FilesAccounted
  <2>1. Accounted(k)
    BY DEF FilesAccounted
  <2>2. CASE k # id
    BY <1>2, <1>3, <1>4, <2>1, <2>2 DEF Accounted
  <2>3. CASE k = id
    BY <1>1, <1>2, <1>3, <1>4, <1>6, <1>7, <2>1, <2>3 DEF Accounted, Busy
  <2>4. QED
    BY <2>2, <2>3
<1>11. \A i \in Installed : InUse(i)' => InUse(i)
  BY <1>2, <1>3, <1>4 DEF InUse
<1>12. ReadableHasFile'
  BY <1>2, <1>11 DEF ReadableHasFile, Files
<1>13. QED
  BY <1>8, <1>9, <1>10, <1>12

LEMMA LockForWritingFile ==
    ASSUME FileInv, NEW m \in Managers, LockForWriting(m)
    PROVE  FileParts'
<1> USE LocalNamesAssumption DEF FileInv, FileParts
<1> PICK i \in Installed : i = lrCall[m].object
  BY DEF LockInv, ObjectsOK, LockForWriting
<1>1. /\ lrCall[m].pc = "wait" /\ lrLock[i] <= 0 /\ \A j \in Installed : lrLock[j] \in Int
      /\ UNCHANGED <<lrListed, lrFile, lrKnown, lrRead>>
  BY DEF LockInv, LockType, LockForWriting, clientPart
<1>2. /\ lrCall'[m].pc = "remove" /\ lrCall'[m].kind = lrCall[m].kind
      /\ lrCall'[m].id = lrCall[m].id /\ lrCall'[m].object = i
      /\ \A n \in Managers \ {m} : lrCall'[n] = lrCall[n]
  BY DEF LockInv, CallTypes, CallType, LockForWriting
<1>3. lrLock'[i] = lrLock[i] - 1 /\ \A j \in Installed \ {i} : lrLock'[j] = lrLock[j]
  BY DEF LockInv, LockType, LockForWriting
<1>4. lrLock'[i] < 0 /\ \A j \in Installed : lrLock[j] < 0 => lrLock'[j] < 0
  BY <1>1, <1>3
<1>5. CallsApart'
  BY <1>1, <1>2 DEF CallsApart, Busy
<1>6. CallsOK'
  <2> SUFFICES ASSUME NEW n \in Managers PROVE CallOK(n)'
    BY DEF CallsOK
  <2>1. lrCall[n].object \in Installed \cup {NoInstalled}
    BY DEF LockInv, CallTypes, CallType
  <2>2. CallOK(n)
    BY DEF CallsOK
  <2>3. CASE n = m
    BY <1>1, <1>2, <1>4, <2>2, <2>3 DEF CallOK
  <2>4. CASE n # m
    BY <1>1, <1>2, <1>4, <2>1, <2>2, <2>4 DEF CallOK
  <2>5. QED
    BY <2>3, <2>4
<1>7. FilesAccounted'
  <2> SUFFICES ASSUME NEW k \in ResourceIds PROVE Accounted(k)'
    BY DEF FilesAccounted
  <2>1. Accounted(k)
    BY DEF FilesAccounted
  <2>2. CASE lrFile[k] = i
    BY <1>1, <1>4, <2>2 DEF Accounted
  <2>3. CASE lrFile[k] # i
    BY <1>1, <1>2, <1>4, <2>1, <2>3 DEF Accounted
  <2>4. QED
    BY <2>2, <2>3
<1>8. \A j \in Installed : InUse(j)' => InUse(j)
  BY <1>1, <1>2 DEF InUse
<1>9. \A j \in Installed : lrLock'[j] >= 0 => lrLock[j] >= 0
  BY <1>1, <1>3
<1>10. ReadableHasFile'
  BY <1>1, <1>8, <1>9 DEF ReadableHasFile, Files
<1>11. QED
  BY <1>5, <1>6, <1>7, <1>10

LEMMA RemoveFileFile ==
    ASSUME FileInv, NEW m \in Managers, RemoveFile(m)
    PROVE  FileParts'
<1> USE LocalNamesAssumption DEF FileInv, FileParts
<1> PICK id \in ResourceIds : id = lrCall[m].id
  BY DEF LockInv, CallTypes, CallType
<1>1. /\ lrCall[m].pc = "remove" /\ UNCHANGED <<lrListed, lrLock, lrKnown, lrRead>>
      /\ lrFile' \in {lrFile, [lrFile EXCEPT ![id] = NoInstalled]}
  BY DEF RemoveFile, clientPart
<1>2. PICK next \in {"unlock", "install"} :
         /\ lrCall[m].kind = "uninstall" => next = "unlock"
         /\ lrCall' = [lrCall EXCEPT ![m].pc = next]
  BY DEF RemoveFile
<1>3. /\ lrCall'[m].pc = next /\ lrCall'[m].kind = lrCall[m].kind
      /\ lrCall'[m].id = lrCall[m].id /\ lrCall'[m].object = lrCall[m].object
      /\ \A n \in Managers \ {m} : lrCall'[n] = lrCall[n]
  BY <1>2 DEF LockInv, CallTypes, CallType
<1>4. /\ \A k \in ResourceIds : lrFile'[k] = lrFile[k] \/ (k = id /\ lrFile'[k] = NoInstalled)
  BY <1>1 DEF LockInv, ListTypes
<1>5. CallsApart'
  BY <1>1, <1>3 DEF CallsApart, Busy
<1>6. CallsOK'
  BY <1>1, <1>2, <1>3 DEF CallsOK, CallOK
<1>7. FilesAccounted'
  BY <1>1, <1>3, <1>4 DEF FilesAccounted, Accounted
<1>8. \A j \in Installed : InUse(j)' => InUse(j)
  BY <1>1, <1>3, <1>4 DEF InUse
<1>9. ReadableHasFile'
  <2> SUFFICES ASSUME NEW i \in Installed, InUse(i), lrLock[i] >= 0 PROVE i \in Files'
    BY <1>1, <1>8 DEF ReadableHasFile
  <2>1. PICK k \in ResourceIds : lrFile[k] = i
    BY DEF ReadableHasFile, Files
  <2>2. k # id
    BY <1>1, <2>1, OldFileLocked DEF LockInv, LockType
  <2>3. QED
    BY <1>4, <2>1, <2>2 DEF Files
<1>10. QED
  BY <1>5, <1>6, <1>7, <1>9

LEMMA InstallFileFile ==
    ASSUME FileInv, NEW m \in Managers, InstallFile(m)
    PROVE  FileParts'
<1> USE LocalNamesAssumption DEF FileInv, FileParts
<1> PICK id \in ResourceIds : id = lrCall[m].id
  BY DEF LockInv, CallTypes, CallType
<1>1. /\ lrCall[m].pc = "install" /\ UNCHANGED <<lrKnown, lrRead>>
      /\ lrCall' = [lrCall EXCEPT ![m].pc = "unlock"]
  BY DEF InstallFile, clientPart
<1>2. /\ lrCall'[m].pc = "unlock" /\ lrCall'[m].kind = lrCall[m].kind
      /\ lrCall'[m].id = lrCall[m].id /\ lrCall'[m].object = lrCall[m].object
      /\ \A n \in Managers \ {m} : lrCall'[n] = lrCall[n]
  BY <1>1 DEF LockInv, CallTypes, CallType
<1>3. CallsApart'
  BY <1>1, <1>2 DEF CallsApart, Busy
<1>4. \A n \in Managers : Busy(n) /\ lrCall[n].id = id => n = m
  BY <1>1 DEF CallsApart, Busy
<1>5. lrCall[m].kind # "uninstall"
  BY <1>1 DEF CallsOK, CallOK
<1>6. CASE UNCHANGED <<lrFile, lrListed, lrLock>>
  <2>1. CallsOK' /\ FilesAccounted'
    BY <1>1, <1>2, <1>6 DEF CallsOK, CallOK, FilesAccounted, Accounted
  <2>2. \A j \in Installed : InUse(j)' => InUse(j)
    BY <1>1, <1>2, <1>6 DEF InUse
  <2>3. ReadableHasFile'
    BY <1>6, <2>2 DEF ReadableHasFile, Files
  <2>4. QED
    BY <1>3, <2>1, <2>3
<1>7. ASSUME NEW i \in Installed, Installs(m, i) PROVE FileParts'
  <2>1. /\ lrFile'[id] = i /\ lrListed'[id] = i
        /\ \A k \in ResourceIds \ {id} : lrFile'[k] = lrFile[k] /\ lrListed'[k] = lrListed[k]
    BY <1>7 DEF Installs, LockInv, ListTypes
  <2>2. ~InUse(i) /\ \A j \in Installed \ {i} : lrLock'[j] = lrLock[j]
    BY <1>7 DEF Installs, LockInv, LockType
  <2>3. /\ \A n \in Managers : lrCall[n].object # i /\ lrCall[n].id \in ResourceIds
        /\ \A n \in Managers : lrCall[n].object \in Installed \cup {NoInstalled}
        /\ \A k \in ResourceIds : lrFile[k] # i /\ lrFile[k] \in Installed \cup {NoInstalled}
    BY <2>2 DEF InUse, LockInv, CallTypes, CallType, ListTypes
  <2>4. CallsOK'
    <3> SUFFICES ASSUME NEW n \in Managers PROVE CallOK(n)'
      BY DEF CallsOK
    <3>1. CallOK(n)
      BY DEF CallsOK
    <3>2. CASE n = m
      BY <1>2, <1>5, <3>2 DEF CallOK
    <3>3. CASE n # m
      BY <1>2, <1>4, <2>1, <2>2, <2>3, <3>1, <3>3 DEF CallOK, Busy
    <3>4. QED
      BY <3>2, <3>3
  <2>5. FilesAccounted'
    <3> SUFFICES ASSUME NEW k \in ResourceIds PROVE Accounted(k)'
      BY DEF FilesAccounted
    <3>1. Accounted(k)
      BY DEF FilesAccounted
    <3>2. CASE k = id
      BY <2>1, <3>2 DEF Accounted
    <3>3. CASE k # id
      BY <1>1, <1>2, <2>1, <2>2, <2>3, <3>1, <3>3 DEF Accounted
    <3>4. QED
      BY <3>2, <3>3
  <2>6. \A j \in Installed \ {i} : InUse(j)' => InUse(j)
    BY <1>1, <1>2, <2>1 DEF InUse
  <2>7. ReadableHasFile'
    <3> SUFFICES ASSUME NEW j \in Installed, InUse(j)', lrLock'[j] >= 0 PROVE j \in Files'
      BY DEF ReadableHasFile
    <3>1. CASE j = i
      BY <2>1, <3>1 DEF Files
    <3>2. CASE j # i
      <4>1. PICK k \in ResourceIds : lrFile[k] = j
        BY <2>2, <2>6, <3>2 DEF ReadableHasFile, Files
      <4>2. lrLock[j] >= 0 /\ lrLock[j] \in Int
        BY <2>2, <3>2 DEF LockInv, LockType
      <4>3. k # id
        BY <1>1, <4>1, <4>2, OldFileLocked
      <4>4. QED
        BY <2>1, <4>1, <4>3 DEF Files
    <3>3. QED
      BY <3>1, <3>2
  <2>8. QED
    BY <1>3, <2>4, <2>5, <2>7
<1>8. QED
  BY <1>6, <1>7, InstallCases

LEMMA UnlockListFile ==
    ASSUME FileInv, NEW m \in Managers, UnlockList(m)
    PROVE  FileParts'
<1> USE LocalNamesAssumption DEF FileInv, FileParts
<1>1. /\ lrCall[m].pc = "unlock" /\ UNCHANGED <<lrListed, lrFile, lrLock, lrKnown, lrRead>>
      /\ lrCall' = [lrCall EXCEPT ![m] = NoCall]
  BY DEF UnlockList, clientPart
<1>2. /\ lrCall'[m].pc = "idle" /\ lrCall'[m].object = NoInstalled
      /\ \A n \in Managers \ {m} : lrCall'[n] = lrCall[n]
  BY <1>1 DEF LockInv, CallTypes, NoCall
<1>3. CallsApart'
  BY <1>2 DEF CallsApart, Busy
<1>4. CallsOK'
  BY <1>1, <1>2 DEF CallsOK, CallOK
<1>5. FilesAccounted'
  BY <1>1, <1>2 DEF FilesAccounted, Accounted
<1>6. \A j \in Installed : InUse(j)' => InUse(j)
  BY <1>1, <1>2 DEF InUse
<1>7. ReadableHasFile'
  BY <1>1, <1>6 DEF ReadableHasFile, Files
<1>8. QED
  BY <1>3, <1>4, <1>5, <1>7

-----------------------------------------------------------------------------
(* Clients and the files.                                                       *)

\* A client counts up what it can read, and counts down what it has read.
LEMMA ClientsFile ==
    ASSUME FileInv, LockInv', UNCHANGED managerPart,
           \A i \in Installed : InUse(i)' => InUse(i),
           \A i \in Installed : lrLock'[i] < 0 <=> lrLock[i] < 0
    PROVE  FileParts'
<1> USE LocalNamesAssumption DEF FileInv, FileParts, managerPart
<1>1. CallsApart'
  BY DEF CallsApart, Busy
<1>2. CallsOK'
  BY DEF CallsOK, CallOK, LockInv, CallTypes, CallType
<1>3. FilesAccounted'
  BY DEF FilesAccounted, Accounted
<1>4. \A i \in Installed : lrLock'[i] >= 0 => lrLock[i] >= 0
  BY DEF LockInv, LockType
<1>5. ReadableHasFile'
  BY <1>4 DEF ReadableHasFile, Files
<1>6. QED
  BY <1>1, <1>2, <1>3, <1>5

LEMMA ClientStepFile ==
    ASSUME FileInv, LockInv', NEW c \in Clients,
           OpenListed(c) \/ AskLocalResources(c) \/ OpenKnown(c) \/ ReleaseOne(c)
    PROVE  FileParts'
<1> USE DEF FileInv
<1>1. \A i \in Installed : lrLock[i] \in Int
  BY DEF LockInv, LockType
<1>2. ASSUME NEW objects \in SUBSET Installed, \A i \in objects : InUse(i),
             UNCHANGED managerPart, OpenInterface(c, objects)
      PROVE  FileParts'
  <2>1. \A i \in Installed : lrLock'[i] < 0 <=> lrLock[i] < 0
    BY <1>1, <1>2 DEF OpenInterface
  <2>2. \A i \in Installed : InUse(i)' => InUse(i)
    BY <1>2 DEF InUse, OpenInterface, LockInv, ClientTypes, managerPart
  <2>3. QED
    BY <1>2, <2>1, <2>2, ClientsFile
<1>3. ListedObjects \subseteq Installed /\ \A i \in ListedObjects : InUse(i)
  BY DEF ListedObjects, InUse, LockInv, ListTypes
<1>4. lrKnown[c] \subseteq Installed /\ \A i \in lrKnown[c] : InUse(i)
  BY DEF InUse, LockInv, ClientTypes
<1>5. CASE OpenListed(c)
  BY <1>2, <1>3, <1>5 DEF OpenListed
<1>6. CASE OpenKnown(c)
  BY <1>2, <1>4, <1>6 DEF OpenKnown
<1>7. CASE AskLocalResources(c)
  <2>1. \A i \in Installed : InUse(i)' => InUse(i)
    BY <1>3, <1>7 DEF InUse, LockInv, ClientTypes, managerPart, AskLocalResources
  <2>2. QED
    BY <1>7, <2>1, ClientsFile DEF AskLocalResources
<1>8. CASE ReleaseOne(c)
  <2>1. \A i \in Installed : InUse(i)' => InUse(i)
    BY <1>8 DEF InUse, LockInv, ClientTypes, managerPart, ReleaseOne
  <2>2. \A i \in Installed : lrLock'[i] < 0 <=> lrLock[i] < 0
    <3>1. CASE UNCHANGED lrLock
      BY <3>1
    <3>2. CASE \E r \in lrRead[c] : lrLock' = [lrLock EXCEPT ![r] = @ - 1]
      <4>1. PICK r \in lrRead[c] : lrLock' = [lrLock EXCEPT ![r] = @ - 1]
        BY <3>2
      <4>2. r \in Installed /\ InUse(r)
        BY DEF LockInv, ClientTypes, InUse
      <4>3. Count(r) \in Nat /\ Count(r) # 0
        BY CountIsNat
      <4>4. lrLock[r] >= 1
        BY <4>2, <4>3, CounterIs DEF LockInv, UsedTells, Tells
      <4>5. QED
        BY <1>1, <4>1, <4>2, <4>4 DEF LockInv, LockType
    <3>3. QED
      BY <1>8, <3>1, <3>2 DEF ReleaseOne
  <2>3. QED
    BY <1>8, <2>1, <2>2, ClientsFile DEF ReleaseOne
<1>9. QED
  BY <1>5, <1>6, <1>7, <1>8

LEMMA FileInitially == LocalInit => FileInv
<1> SUFFICES ASSUME LocalInit PROVE FileInv
  OBVIOUS
<1> USE LocalNamesAssumption, LocalBoundsAssumption DEF LocalInit
<1>1. \A m \in Managers : lrCall[m].pc = "idle" /\ lrCall[m].object = NoInstalled
  BY DEF NoCall
<1>2. CallsApart /\ CallsOK
  BY <1>1 DEF CallsApart, Busy, CallsOK, CallOK
<1>3. FilesAccounted
  BY DEF FilesAccounted, Accounted
<1>4. \A i \in Installed : ~InUse(i)
  BY <1>1 DEF InUse
<1>5. QED
  BY <1>2, <1>3, <1>4, LockInitially DEF FileInv, ReadableHasFile

LEMMA FileSteps == ~Overlap => (FileInv /\ [LocalNext]_lrVars => FileInv')
<1> SUFFICES ASSUME ~Overlap, FileInv, [LocalNext]_lrVars PROVE FileInv'
  OBVIOUS
<1>1. LockInv'
  BY LockSteps DEF FileInv
<1>2. FileParts'
  <2>1. CASE \E m \in Managers, kind \in CallKinds, id \in ResourceIds : StartCall(m, kind, id)
    BY <2>1, StartCallFile
  <2>2. CASE \E m \in Managers : ManagerStep(m)
    BY <2>2, LockListFile, LockForWritingFile, RemoveFileFile, InstallFileFile, UnlockListFile
       DEF ManagerStep
  <2>3. CASE \E c \in Clients : \/ OpenListed(c) \/ AskLocalResources(c) \/ OpenKnown(c)
                                \/ ReleaseOne(c)
    BY <1>1, <2>3, ClientStepFile
  <2>4. CASE UNCHANGED lrVars
    <3>1. \A i \in Installed : InUse(i)' => InUse(i)
      BY <2>4 DEF lrVars, managerPart, clientPart, InUse
    <3>2. \A i \in Installed : lrLock'[i] < 0 <=> lrLock[i] < 0
      BY <2>4 DEF lrVars
    <3>3. QED
      BY <1>1, <2>4, <3>1, <3>2, ClientsFile DEF lrVars
  <2>5. QED
    BY <2>1, <2>2, <2>3, <2>4 DEF LocalNext
<1>3. QED
  BY <1>1, <1>2 DEF FileInv, FileParts

-----------------------------------------------------------------------------
(* The theorems.                                                                *)

\* The inductive invariant of the locks, for any resources, objects, managers and
\* clients, whether or not managers work on one resource at once.
THEOREM LocksInvariance == LocalSpec => []LockInv
BY LockInitially, LockSteps, PTL DEF LocalSpec

\* Types, and that the list is locked by the one call that works on it.
THEOREM LocalTypes == LocalSpec => []LocalTypeOK
<1>1. LockInv => LocalTypeOK
  BY DEF LockInv, ListTypes, LockType, CallTypes, CallType, ClientTypes, CallsLeft, HolderOK,
         LocalTypeOK
<1>2. QED
  BY <1>1, LocksInvariance, PTL

\* The assertions of AccessLockCounter_P hold: the counter of an object that anybody
\* refers to counts the interfaces that read it, or it is negative and nobody does,
\* even if two managers work on one resource.
THEOREM CounterIsTrue == LocalSpec => []CounterTellsReaders
<1>1. LockInv => CounterTellsReaders
  BY DEF LockInv
<1>2. QED
  BY <1>1, LocksInvariance, PTL

\* What is read has its file.
LEMMA ReadHasFile == FileInv => ReadFileIsThere
<1> SUFFICES ASSUME FileInv, NEW c \in Clients, NEW i \in lrRead[c]
             PROVE  i \in Files
  BY DEF ReadFileIsThere, Files
<1>1. i \in Installed /\ InUse(i)
  BY DEF FileInv, LockInv, ClientTypes, InUse
<1>2. Count(i) \in Nat /\ Count(i) # 0
  BY CountIsNat
<1>3. lrLock[i] >= 0
  BY <1>1, <1>2, CounterIs DEF FileInv, LockInv, UsedTells, Tells
<1>4. QED
  BY <1>1, <1>3 DEF FileInv, ReadableHasFile

\* As long as no two managers work on one resource at once, the file of a resource
\* that an interface holds is neither removed nor replaced, whenever the interface
\* learnt of the resource and whatever fails.
THEOREM ReadFileStays == ~Overlap => (LocalSpec => []ReadFileIsThere)
<1> SUFFICES ASSUME ~Overlap PROVE LocalSpec => []ReadFileIsThere
  OBVIOUS
<1>1. LocalInit => FileInv
  BY FileInitially
<1>2. FileInv /\ [LocalNext]_lrVars => FileInv'
  BY FileSteps
<1>3. FileInv => ReadFileIsThere
  BY ReadHasFile
<1>4. QED
  BY <1>1, <1>2, <1>3, PTL DEF LocalSpec
=============================================================================
