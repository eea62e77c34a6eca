----------------------------- MODULE LocalResources -----------------------------
(* Installed resources and those who read their files: the list of local        *)
(* resources of ResourcesManager_P under its read-write lock, the lock each      *)
(* installed resource carries (AccessLockCounter_P, a counter that is positive   *)
(* with readers and negative with writers), and the data interfaces that hold    *)
(* it (ObfDataInterfaceProxy).                                                   *)
(*                                                                               *)
(* uninstallResource() takes the resource from the list before it asks for any   *)
(* lock. What the list's memory looks like when that meets another thread's      *)
(* access is outside of the model: the list changes at once.                     *)
EXTENDS Integers, FiniteSets

CONSTANTS
    ResourceIds,       \* identities of resources
    Installed, \* identities of InstalledResource objects, used again when unreferenced
    NoInstalled,
    Managers,  \* threads that install, update and uninstall
    NoManager,
    Clients,   \* threads that read map data
    Overlap,   \* whether two managers may work on one resource at once
    MaxCalls   \* bound on the managers' calls and the clients' reads

ASSUME LocalNamesAssumption ==
    /\ NoInstalled \notin Installed /\ NoManager \notin Managers
    /\ ResourceIds # {} /\ IsFiniteSet(Clients)
ASSUME LocalBoundsAssumption == Overlap \in BOOLEAN /\ MaxCalls \in Nat

VARIABLES
    lrListed, \* [ResourceIds -> the object in _localResources]
    lrFile,   \* [ResourceIds -> the object whose file is at localPath]
    lrLock,   \* [Installed -> _lockCounter]
    lrHolder, \* the manager that holds _localResourcesLock for writing
    lrCall,   \* [Managers -> [pc, kind, id, object]]
    lrKnown,  \* [Clients -> objects got from getLocalResources()]
    lrRead,   \* [Clients -> lockedResources of its data interface]
    lrReading,\* clients that have a data interface
    lrCalls   \* calls left

managerPart == <<lrListed, lrFile, lrHolder, lrCall>>
clientPart == <<lrKnown, lrRead, lrReading>>
lrVars == <<managerPart, clientPart, lrLock, lrCalls>>

NoCall == [pc |-> "idle", kind |-> "none", id |-> CHOOSE id \in ResourceIds : TRUE, object |-> NoInstalled]
InUse(i) ==
    \/ \E id \in ResourceIds : lrListed[id] = i \/ lrFile[id] = i
    \/ \E m \in Managers : lrCall[m].object = i
    \/ \E c \in Clients : i \in lrKnown[c] \cup lrRead[c]
ListedObjects == {lrListed[id] : id \in ResourceIds} \ {NoInstalled}

LocalInit ==
    /\ lrListed = [id \in ResourceIds |-> NoInstalled] /\ lrFile = [id \in ResourceIds |-> NoInstalled]
    /\ lrLock = [i \in Installed |-> 0]
    /\ lrHolder = NoManager /\ lrCall = [m \in Managers |-> NoCall]
    /\ lrKnown = [c \in Clients |-> {}] /\ lrRead = [c \in Clients |-> {}]
    /\ lrReading = {} /\ lrCalls = MaxCalls

-----------------------------------------------------------------------------
(* Managers. The lock for writing of an uninstalled or replaced resource is     *)
(* never released.                                                              *)

StartCall(m, kind, id) ==
    /\ lrCall[m].pc = "idle" /\ lrCalls > 0
    /\ Overlap \/ \A n \in Managers : lrCall[n].pc # "idle" => lrCall[n].id # id
    /\ kind = "uninstall" => lrListed[id] # NoInstalled
    /\ lrCall' = [lrCall EXCEPT ![m] = [pc |-> "lock", kind |-> kind, id |-> id,
                      object |-> IF kind = "uninstall" THEN lrListed[id] ELSE NoInstalled]]
    /\ lrListed' = [lrListed EXCEPT ![id] = IF kind = "uninstall" THEN NoInstalled ELSE @]
    /\ lrCalls' = lrCalls - 1
    /\ UNCHANGED <<lrFile, lrHolder, lrLock, clientPart>>

\* With the list locked: installFromFile() wants the resource absent,
\* updateFromFile() wants it present, installImportedResource() uninstalls it.
\* A faulty variant: the list is not kept locked.
LockListBriefly(m) ==
    LET call == lrCall[m]
        listed == lrListed[call.id]
        object == IF call.kind = "uninstall" THEN call.object ELSE listed
        next == IF object # NoInstalled
                THEN IF call.kind = "install" THEN "unlock" ELSE "wait"
                ELSE IF call.kind = "update" THEN "unlock" ELSE "install"
    IN
    /\ call.pc = "lock" /\ lrHolder = NoManager
    /\ lrCall' = [lrCall EXCEPT ![m].pc = next, ![m].object = object]
    /\ lrListed' = [lrListed EXCEPT ![call.id] = IF call.kind = "import" THEN NoInstalled ELSE @]
    /\ UNCHANGED <<lrFile, lrHolder, lrLock, lrCalls, clientPart>>
LockList(m) ==
    LET call == lrCall[m]
        listed == lrListed[call.id]
        object == IF call.kind = "uninstall" THEN call.object ELSE listed
        next == IF object # NoInstalled
                THEN IF call.kind = "install" THEN "unlock" ELSE "wait"
                ELSE IF call.kind = "update" THEN "unlock" ELSE "install"
    IN
    /\ call.pc = "lock" /\ lrHolder = NoManager
    /\ lrHolder' = m
    /\ lrCall' = [lrCall EXCEPT ![m].pc = next, ![m].object = object]
    /\ lrListed' = [lrListed EXCEPT ![call.id] = IF call.kind = "import" THEN NoInstalled ELSE @]
    /\ UNCHANGED <<lrFile, lrLock, lrCalls, clientPart>>

\* lockForWriting(), which other writers do not hinder
\* A faulty variant: nobody is waited for.
LockAnyway(m) ==
    LET i == lrCall[m].object IN
    /\ lrCall[m].pc = "wait"
    /\ lrLock' = [lrLock EXCEPT ![i] = @ - 1]
    /\ lrCall' = [lrCall EXCEPT ![m].pc = "remove"]
    /\ UNCHANGED <<lrListed, lrFile, lrHolder, lrCalls, clientPart>>
LockForWriting(m) ==
    LET i == lrCall[m].object IN
    /\ lrCall[m].pc = "wait" /\ lrLock[i] <= 0
    /\ lrLock' = [lrLock EXCEPT ![i] = @ - 1]
    /\ lrCall' = [lrCall EXCEPT ![m].pc = "remove"]
    /\ UNCHANGED <<lrListed, lrFile, lrHolder, lrCalls, clientPart>>

\* The file may resist. Only uninstallResource() asks, and has nothing to undo.
RemoveFile(m) ==
    LET call == lrCall[m] IN
    /\ call.pc = "remove"
    /\ lrFile' \in {lrFile, [lrFile EXCEPT ![call.id] = NoInstalled]}
    /\ lrCall' = [lrCall EXCEPT ![m].pc = IF call.kind = "uninstall" THEN "unlock" ELSE "install"]
    /\ UNCHANGED <<lrListed, lrHolder, lrLock, lrCalls, clientPart>>

\* A file that cannot be installed leaves an updated resource listed and locked.
InstallFile(m) ==
    LET id == lrCall[m].id IN
    /\ lrCall[m].pc = "install"
    /\ \/ \E i \in Installed :
             /\ ~InUse(i) /\ i = CHOOSE j \in Installed : ~InUse(j)
             /\ lrFile' = [lrFile EXCEPT ![id] = i]
             /\ lrListed' = [lrListed EXCEPT ![id] = i]
             /\ lrLock' = [lrLock EXCEPT ![i] = 0]
       \/ UNCHANGED <<lrFile, lrListed, lrLock>>
    /\ lrCall' = [lrCall EXCEPT ![m].pc = "unlock"]
    /\ UNCHANGED <<lrHolder, lrCalls, clientPart>>

UnlockList(m) ==
    /\ lrCall[m].pc = "unlock"
    /\ lrHolder' = NoManager
    /\ lrCall' = [lrCall EXCEPT ![m] = NoCall]
    /\ UNCHANGED <<lrListed, lrFile, lrLock, lrCalls, clientPart>>

-----------------------------------------------------------------------------
(* Clients.                                                                     *)

\* tryLockForReading() of each object; those that cannot be read are passed over.
\* A faulty variant: the lock is not looked at.
OpenAny(c, objects) ==
    /\ lrRead' = [lrRead EXCEPT ![c] = objects]
    /\ lrLock' = [i \in Installed |-> IF i \in objects THEN lrLock[i] + 1 ELSE lrLock[i]]
    /\ lrReading' = lrReading \cup {c}
    /\ lrKnown' = [lrKnown EXCEPT ![c] = {}]
OpenInterface(c, objects) ==
    LET free == {i \in objects : lrLock[i] >= 0} IN
    /\ lrRead' = [lrRead EXCEPT ![c] = free]
    /\ lrLock' = [i \in Installed |-> IF i \in free THEN lrLock[i] + 1 ELSE lrLock[i]]
    /\ lrReading' = lrReading \cup {c}
    /\ lrKnown' = [lrKnown EXCEPT ![c] = {}]

\* obtainDataInterface() for an area: the listed resources, with the list locked
OpenListed(c) ==
    /\ c \notin lrReading /\ lrCalls > 0 /\ lrHolder = NoManager
    /\ OpenInterface(c, ListedObjects)
    /\ lrCalls' = lrCalls - 1
    /\ UNCHANGED managerPart

\* getLocalResources(), and obtainDataInterface() for the resources known from it
AskLocalResources(c) ==
    /\ c \notin lrReading /\ lrCalls > 0 /\ lrHolder = NoManager
    /\ lrKnown[c] = {} /\ ListedObjects # {}
    /\ lrKnown' = [lrKnown EXCEPT ![c] = ListedObjects]
    /\ lrCalls' = lrCalls - 1
    /\ UNCHANGED <<managerPart, lrLock, lrRead, lrReading>>
OpenKnown(c) ==
    /\ c \notin lrReading /\ lrKnown[c] # {}
    /\ OpenInterface(c, lrKnown[c])
    /\ UNCHANGED <<managerPart, lrCalls>>

\* ~ObfDataInterfaceProxy(), one resource after the other
\* A faulty variant: the last resource stays locked.
ReleaseButLast(c) ==
    /\ c \in lrReading
    /\ \/ \E i \in lrRead[c] :
             /\ lrRead' = [lrRead EXCEPT ![c] = @ \ {i}]
             /\ lrLock' = [lrLock EXCEPT ![i] = IF lrRead[c] = {i} THEN @ ELSE @ - 1]
             /\ UNCHANGED lrReading
       \/ lrRead[c] = {} /\ lrReading' = lrReading \ {c} /\ UNCHANGED <<lrRead, lrLock>>
    /\ UNCHANGED <<managerPart, lrCalls, lrKnown>>
ReleaseOne(c) ==
    /\ c \in lrReading
    /\ \/ \E i \in lrRead[c] :
             /\ lrRead' = [lrRead EXCEPT ![c] = @ \ {i}]
             /\ lrLock' = [lrLock EXCEPT ![i] = @ - 1]
             /\ UNCHANGED lrReading
       \/ lrRead[c] = {} /\ lrReading' = lrReading \ {c} /\ UNCHANGED <<lrRead, lrLock>>
    /\ UNCHANGED <<managerPart, lrCalls, lrKnown>>

-----------------------------------------------------------------------------
CallKinds == {"install", "update", "uninstall", "import"}
ManagerStep(m) == \/ LockList(m) \/ LockForWriting(m) \/ RemoveFile(m) \/ InstallFile(m)
                  \/ UnlockList(m)
LocalNext ==
    \/ \E m \in Managers :
          (\E kind \in CallKinds, id \in ResourceIds : StartCall(m, kind, id)) \/ ManagerStep(m)
    \/ \E c \in Clients : OpenListed(c) \/ AskLocalResources(c) \/ OpenKnown(c) \/ ReleaseOne(c)

\* A call goes on unless it waits, and a data interface is let go in the end.
\* The calls of managers are finite in number, so weak fairness is enough for the
\* list's lock.
LocalFairness == /\ \A m \in Managers : WF_lrVars(ManagerStep(m))
                 /\ \A c \in Clients : WF_lrVars(ReleaseOne(c))
LocalSpec == LocalInit /\ [][LocalNext]_lrVars /\ LocalFairness

-----------------------------------------------------------------------------
\* Types, and that one call at a time works on the list, the one that locked it.
LocalTypeOK ==
    /\ \A m \in Managers : lrHolder = m <=> lrCall[m].pc \notin {"idle", "lock"}
    /\ lrListed \in [ResourceIds -> Installed \cup {NoInstalled}]
    /\ lrFile \in [ResourceIds -> Installed \cup {NoInstalled}]
    /\ lrLock \in [Installed -> Int] /\ lrHolder \in Managers \cup {NoManager}
    /\ lrCall \in [Managers -> [pc : {"idle", "lock", "wait", "remove", "install", "unlock"},
                                kind : CallKinds \cup {"none"}, id : ResourceIds,
                                object : Installed \cup {NoInstalled}]]
    /\ lrKnown \in [Clients -> SUBSET Installed] /\ lrRead \in [Clients -> SUBSET Installed]
    /\ lrReading \subseteq Clients /\ lrCalls \in 0..MaxCalls

\* The assertions of AccessLockCounter_P and what the sign of its counter says: it
\* counts the interfaces that hold the resource, or nobody holds it.
CounterTellsReaders ==
    \A i \in Installed : InUse(i) =>
        LET readers == Cardinality({c \in Clients : i \in lrRead[c]})
        IN lrLock[i] = readers \/ (lrLock[i] < 0 /\ readers = 0)

\* While a data interface holds a resource, the file stays what it was: nobody
\* removes or replaces it, whoever learnt of the resource when.
ReadFileIsThere ==
    \A c \in Clients : lrRead[c] \subseteq {lrFile[id] : id \in ResourceIds}

\* Once no more calls begin, every one returns, although it waits for readers while
\* it keeps the list locked against every other thread.
CallsReturn == <>[](\A m \in Managers : lrCall[m].pc = "idle")

\* A listed resource can be read, unless it is being changed.
ListedIsReadable ==
    lrHolder = NoManager => \A i \in ListedObjects : lrLock[i] >= 0 /\ i \in {lrFile[id] : id \in ResourceIds}
=============================================================================
