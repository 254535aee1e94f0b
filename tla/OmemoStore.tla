----------------------------- MODULE OmemoStore -----------------------------
(***************************************************************************)
(* omemo.JSONStore: a MemoryStore that is written to a file after every    *)
(* change.  A call changes the memory under mu and then persists: under    *)
(* persistMu it takes a snapshot, writes it to a temporary file, and       *)
(* renames that.  Calls run on any goroutine, writes to the disk fail, and *)
(* the process may die at any point and open the file again.               *)
(*                                                                         *)
(* What PutDeviceList, PutBundle and SetTrust store is abstracted to the   *)
(* number of the change: of two values of a key the later one is the       *)
(* larger.  A crash is the end of the process, not a loss of power: what   *)
(* was written stays.                                                      *)
(***************************************************************************)
EXTENDS Naturals, FiniteSets

CONSTANTS
    StoreCalls,    \* calls of the store's methods
    Keys,          \* keys of Lists, Bundles and Trust
    DeviceIDs,     \* device IDs, 0 not among them
    Nobody,
    MaxPuts,       \* bound: changes
    MaxCrashes, MaxDiskFails  \* bounds: ends of the process, failures of the disk

ASSUME StoreAssumption == 0 \notin DeviceIDs /\ Nobody \notin StoreCalls /\ MaxPuts \in Nat
                          /\ MaxCrashes \in Nat /\ MaxDiskFails \in Nat

VARIABLES
    memory,      \* MemoryStore.data
    disk, tmp,   \* the file and the temporary file
    persisting,  \* the call that holds persistMu, or Nobody
    storeCall,   \* each call: where it is, and its locals
    puts,        \* changes so far
    confirmed,   \* history: the latest change of each key that a call reported as done
    returned,    \* history: device IDs that OwnDeviceID returned since one was last set
    inProcess,   \* history: those of them that this process returned
    crashes, diskFails

storeHistory == <<confirmed, returned, inProcess>>
storeBounds == <<puts, crashes, diskFails>>
storeVars == <<memory, disk, tmp, persisting, storeCall, storeHistory, storeBounds>>

Data == [own : DeviceIDs \cup {0}, at : [Keys -> 0..MaxPuts]]
Empty == [own |-> 0, at |-> [k \in Keys |-> 0]]
Torn == [torn |-> TRUE]
IdleCall == [pc |-> "idle", key |-> "", change |-> 0, id |-> 0, before |-> 0, snap |-> Empty,
             counts |-> TRUE]
At(c, pc) == storeCall[c].pc = pc
GoTo(c, pc) == storeCall' = [storeCall EXCEPT ![c].pc = pc]

StoreTypeOK ==
    /\ memory \in Data
    /\ disk \in Data \cup {Torn} /\ tmp \in Data \cup {Torn}
    /\ persisting \in StoreCalls \cup {Nobody}
    /\ \A c \in StoreCalls : storeCall[c].pc \in {"idle", "read", "generate", "persist", "marshal",
                                                  "write", "writing", "rename", "done", "failed"}
    /\ confirmed \in [Keys -> 0..MaxPuts] /\ inProcess \subseteq DeviceIDs /\ returned \subseteq DeviceIDs
    /\ puts \in 0..MaxPuts /\ crashes \in 0..MaxCrashes /\ diskFails \in 0..MaxDiskFails

\* There is no file yet, which reads as one without contents.
StoreInit ==
    /\ memory = Empty /\ disk = Empty /\ tmp = Torn /\ persisting = Nobody
    /\ storeCall = [c \in StoreCalls |-> IdleCall]
    /\ confirmed = [k \in Keys |-> 0] /\ returned = {} /\ inProcess = {}
    /\ puts = 0 /\ crashes = 0 /\ diskFails = 0

-----------------------------------------------------------------------------
(* The change in memory. *)

\* MemoryStore.PutDeviceList, PutBundle and SetTrust.
PutInMemory(k) == memory' = [memory EXCEPT !.at[k] = puts + 1]

\* The same of JSONStore, up to persist.
Put(c, k) ==
    /\ At(c, "idle") /\ puts < MaxPuts
    /\ puts' = puts + 1
    /\ PutInMemory(k)
    /\ storeCall' = [storeCall EXCEPT ![c] = [IdleCall EXCEPT !.pc = "persist", !.key = k,
                                                              !.change = puts + 1]]
    /\ UNCHANGED <<disk, tmp, persisting, storeHistory, crashes, diskFails>>

SetOwnDeviceID(c, id) ==
    /\ At(c, "idle") /\ puts < MaxPuts
    /\ puts' = puts + 1
    /\ memory' = [memory EXCEPT !.own = id]
    /\ storeCall' = [x \in StoreCalls |-> IF x = c THEN [IdleCall EXCEPT !.pc = "persist"]
                                          ELSE [storeCall[x] EXCEPT !.counts = FALSE]]
    /\ returned' = {} /\ inProcess' = {}
    /\ UNCHANGED <<disk, tmp, persisting, confirmed, crashes, diskFails>>

\* JSONStore.OwnDeviceID looks whether there is an ID,
OwnDeviceID(c) ==
    /\ At(c, "idle")
    /\ storeCall' = [storeCall EXCEPT ![c] = [IdleCall EXCEPT !.pc = "read", !.before = memory.own]]
    /\ UNCHANGED <<memory, disk, tmp, persisting, storeHistory, storeBounds>>

\* The history of what is returned; a call that another ID was set under does not count.
Returns(c, id) ==
    IF storeCall[c].counts THEN returned' = returned \cup {id} /\ inProcess' = inProcess \cup {id}
                           ELSE UNCHANGED <<returned, inProcess>>

\* With an ID in hand: persisted if there was none before.
OwnNext(c, id) ==
    IF storeCall[c].before = 0
    THEN /\ storeCall' = [storeCall EXCEPT ![c].id = id, ![c].pc = "persist"]
         /\ UNCHANGED storeHistory
    ELSE /\ storeCall' = [storeCall EXCEPT ![c].id = id, ![c].pc = "done"]
         /\ Returns(c, id) /\ UNCHANGED confirmed

\* MemoryStore.OwnDeviceID looks again,
OwnRead(c) ==
    /\ At(c, "read")
    /\ IF memory.own # 0 THEN OwnNext(c, memory.own) ELSE GoTo(c, "generate") /\ UNCHANGED storeHistory
    /\ UNCHANGED <<memory, disk, tmp, persisting, storeBounds>>

\* Without the second look.
OwnGenerateAnyway(c, id) ==
    /\ At(c, "generate")
    /\ memory' = [memory EXCEPT !.own = id]
    /\ OwnNext(c, id)
    /\ UNCHANGED <<disk, tmp, persisting, storeBounds>>

\* and stores a random ID, unless another call has been faster.
OwnGenerate(c, id) ==
    /\ At(c, "generate")
    /\ memory' = [memory EXCEPT !.own = IF @ = 0 THEN id ELSE @]
    /\ OwnNext(c, memory'.own)
    /\ UNCHANGED <<disk, tmp, persisting, storeBounds>>

-----------------------------------------------------------------------------
(* persist. *)

\* Without the mutex.
LockPersistShared(c) ==
    /\ At(c, "persist")
    /\ persisting' = c
    /\ GoTo(c, "marshal")
    /\ UNCHANGED <<memory, disk, tmp, storeHistory, storeBounds>>

LockPersist(c) ==
    /\ At(c, "persist") /\ persisting = Nobody
    /\ persisting' = c
    /\ GoTo(c, "marshal")
    /\ UNCHANGED <<memory, disk, tmp, storeHistory, storeBounds>>

Marshal(c) ==
    /\ At(c, "marshal")
    /\ storeCall' = [storeCall EXCEPT ![c].snap = memory, ![c].pc = "write"]
    /\ UNCHANGED <<memory, disk, tmp, persisting, storeHistory, storeBounds>>

\* os.WriteFile truncates the temporary file, then fills it.
WriteBegin(c) ==
    /\ At(c, "write")
    /\ tmp' = Torn
    /\ GoTo(c, "writing")
    /\ UNCHANGED <<memory, disk, persisting, storeHistory, storeBounds>>

WriteEnd(c) ==
    /\ At(c, "writing")
    /\ tmp' = storeCall[c].snap
    /\ GoTo(c, "rename")
    /\ UNCHANGED <<memory, disk, persisting, storeHistory, storeBounds>>

\* The last step of persist, and the return of the call.
Rename(c) ==
    /\ At(c, "rename")
    /\ disk' = tmp
    /\ persisting' = Nobody
    /\ GoTo(c, "done")
    /\ LET call == storeCall[c]
       IN /\ confirmed' = IF call.change # 0 /\ confirmed[call.key] < call.change
                      THEN [confirmed EXCEPT ![call.key] = call.change] ELSE confirmed
          /\ IF call.id # 0 THEN Returns(c, call.id) ELSE UNCHANGED <<returned, inProcess>>
    /\ UNCHANGED <<memory, tmp, storeBounds>>

\* MkdirAll, WriteFile, Chmod or Rename fails: the call returns the error, the change in
\* memory stays.
DiskFails(c) ==
    /\ storeCall[c].pc \in {"write", "writing", "rename"} /\ diskFails < MaxDiskFails
    /\ diskFails' = diskFails + 1
    /\ persisting' = Nobody
    /\ GoTo(c, "failed")
    /\ UNCHANGED <<memory, disk, tmp, storeHistory, puts, crashes>>

StoreAgain(c) ==
    /\ storeCall[c].pc \in {"done", "failed"}
    /\ storeCall' = [storeCall EXCEPT ![c] = IdleCall]
    /\ UNCHANGED <<memory, disk, tmp, persisting, storeHistory, storeBounds>>

-----------------------------------------------------------------------------
\* The process dies; the next one calls OpenJSONStore, which fails on a torn file.
CrashAndOpen ==
    /\ crashes < MaxCrashes /\ crashes' = crashes + 1
    /\ disk # Torn
    /\ memory' = disk
    /\ persisting' = Nobody
    /\ storeCall' = [c \in StoreCalls |-> IdleCall]
    /\ inProcess' = {}
    /\ UNCHANGED <<disk, tmp, confirmed, returned, puts, diskFails>>

StoreNext ==
    \/ \E c \in StoreCalls :
          \/ OwnDeviceID(c) \/ OwnRead(c) \/ LockPersist(c) \/ Marshal(c) \/ WriteBegin(c)
          \/ WriteEnd(c) \/ Rename(c) \/ DiskFails(c) \/ StoreAgain(c)
          \/ \E k \in Keys : Put(c, k)
          \/ \E id \in DeviceIDs : SetOwnDeviceID(c, id) \/ OwnGenerate(c, id)
    \/ CrashAndOpen

StoreSpec == StoreInit /\ [][StoreNext]_storeVars

-----------------------------------------------------------------------------
(* Properties. *)

\* The file is whole at every moment, and has every change that a call has reported as
\* done, or a later one of that key: whatever happens next, OpenJSONStore finds it
\* (store.go:175-210).
AckedDurable == disk # Torn /\ \A k \in Keys : confirmed[k] <= disk.at[k]

\* Between two settings of the ID, all calls of OwnDeviceID in one process return the same
\* one, also those that find none at the same time (store.go:58-81, 235-249).
OwnAgrees == Cardinality(inProcess) <= 1

\* An ID that OwnDeviceID has returned is the one that it returns ever after, also after a
\* restart of the process, until another is set (store.go:235-249; docs/omemo.md:157:
\* "JSONStore persists device IDs").
OwnStable == Cardinality(returned) <= 1
=============================================================================
