------------------------------- MODULE Driver -------------------------------
(***************************************************************************)
(* The control plane of the HAL plug-in (native/VCableDriver/              *)
(* VCableDriver.cpp): the devices it owns, the slots that give them their  *)
(* object ids, the inventory it persists, and the calls coreaudiod makes.  *)
(*                                                                         *)
(* Host threads call concurrently.  A call that names an object first      *)
(* reads the slot without the mutex (DeviceForObject), then works under    *)
(* gStateMutex on the Device it found; between the two, other calls run.   *)
(* What runs under the mutex is one step, except that the write to the     *)
(* host's storage in its middle splits it: the slots can be read           *)
(* meanwhile.  A call that is refused changes nothing.                      *)
(***************************************************************************)
EXTENDS Integers, Sequences, FiniteSets, SequencesExt

CONSTANTS Threads,      \* host threads
          Ids,          \* device ids of create and delete commands
          Shapes,       \* device descriptions: name, channel counts, sample rate
          MaxSlots,     \* kMaximumDevices
          MaxDevices,   \* bound: Device objects made since the plug-in was loaded
          MaxClients,   \* bound: attached, and running, clients of a device
          MaxRestarts   \* bound: restarts of coreaudiod

Slots == 1..MaxSlots
Devices == 1..MaxDevices   \* pointers into gAllDevices, which never frees one
Null == 0

\* The host's calls that start with one read of a slot.
ObjectCalls == {"AddDeviceClient", "RemoveDeviceClient", "StartIO", "StopIO", "DestroyDevice"}

NoThread == "none"

ASSUME DriverAssumption ==
  /\ MaxSlots \in Nat /\ MaxDevices \in Nat /\ MaxClients \in Nat /\ MaxRestarts \in Nat
  /\ NoThread \notin Threads

VARIABLES gAllDevices,    \* the Device objects made so far, by pointer
          gActiveDevices, \* pointers, in the order of creation
          gSlots,         \* slot -> pointer or Null
          gStateMutex,    \* the thread that is writing to storage with the mutex held
          storage,        \* the inventory last written: [id, shape], in order
          changes,        \* configuration changes the host has accepted: pointers
          call,           \* thread -> [op, device, position] of the call it is in
          restarts,
          promised        \* history: ids whose create was answered, until a deletion

memory == <<gAllDevices, gActiveDevices, gSlots, gStateMutex>>
history == <<restarts, promised>>
vars == <<memory, storage, changes, call, history>>

Idle == [op |-> "idle", device |-> Null, position |-> 0]

\* A new Device, listed under id in slot s.
NewDevice(s, id, shape) ==
  [slot |-> s, id |-> id, shape |-> shape, active |-> TRUE, deletePending |-> FALSE,
   attachedClients |-> 0, runningClients |-> 0]

InventoryOf(all, list) == [k \in 1..Len(list) |-> [id |-> all[list[k]].id, shape |-> all[list[k]].shape]]

InventoryLocked == InventoryOf(gAllDevices, gActiveDevices)

FindByIDLocked(id) ==
  LET found == {d \in Range(gActiveDevices) : gAllDevices[d].id = id}
  IN  IF found = {} THEN Null ELSE CHOOSE d \in found : TRUE

\* Initialize: one device for each line of the stored inventory, in the first free slot.
Loaded(stored) ==
  /\ gAllDevices' = [k \in 1..Len(stored) |-> NewDevice(k, stored[k].id, stored[k].shape)]
  /\ gActiveDevices' = [k \in 1..Len(stored) |-> k]
  /\ gSlots' = [s \in Slots |-> IF s <= Len(stored) THEN s ELSE Null]

Init ==
  /\ gAllDevices = << >> /\ gActiveDevices = << >>
  /\ gSlots = [s \in Slots |-> Null]
  /\ gStateMutex = NoThread
  /\ storage = << >>
  /\ changes = {}
  /\ call = [t \in Threads |-> Idle]
  /\ restarts = 0
  /\ promised = {}

\* coreaudiod ends and starts again; what the plug-in held in memory is gone.
Initialize ==
  /\ restarts < MaxRestarts /\ restarts' = restarts + 1
  /\ Loaded(storage)
  /\ gStateMutex' = NoThread
  /\ changes' = {}
  /\ call' = [t \in Threads |-> Idle]
  /\ UNCHANGED <<storage, promised>>

-----------------------------------------------------------------------------
(* Calls *)

Enter(t, op, d) == call[t] = Idle /\ call' = [call EXCEPT ![t] = [op |-> op, device |-> d, position |-> 0]]
Go(t, op) == call' = [call EXCEPT ![t].op = op]
Return(t) == call' = [call EXCEPT ![t] = Idle]
Unlocked == gStateMutex = NoThread
It(t) == call[t].device
Update(d, field, value) == gAllDevices' = [gAllDevices EXCEPT ![d][field] = value]
Bump(d, field, by) == Update(d, field, gAllDevices[d][field] + by)

\* The clients of d, those about to be counted included.
Load(d, field, op) ==
  gAllDevices[d][field] + Cardinality({t \in Threads : call[t].op = op /\ call[t].device = d})

\* DeviceForObject: a read of the slot that names the object, without the mutex.
DeviceForObject(t, op, s) ==
  /\ gSlots[s] # Null
  /\ op = "AddDeviceClient" => Load(gSlots[s], "attachedClients", op) < MaxClients
  /\ op = "StartIO" => Load(gSlots[s], "runningClients", op) < MaxClients
  /\ Enter(t, op, gSlots[s])
  /\ UNCHANGED <<memory, storage, changes, history>>

\* A call on an object id that names no device: kAudioHardwareBadObjectError.
BadObject(t, s) == call[t] = Idle /\ gSlots[s] = Null /\ UNCHANGED vars

\* The slots after ReleaseRetiredSlotLocked(d), for the devices `all`.
ReleaseRetiredSlotLocked(all, d) ==
  IF ~all[d].active /\ all[d].attachedClients = 0 /\ all[d].runningClients = 0 /\ gSlots[all[d].slot] = d
  THEN [gSlots EXCEPT ![all[d].slot] = Null]
  ELSE gSlots

-----------------------------------------------------------------------------
(* The create command: SetPropertyData, AddDeviceLocked *)

\* An unused id and a free slot; a create of what exists already changes nothing.
AddDevice(t, id, shape) ==
  /\ Unlocked
  /\ FindByIDLocked(id) = Null
  /\ Len(gAllDevices) < MaxDevices
  /\ \E s \in Slots :
       /\ gSlots[s] = Null /\ \A r \in 1..(s - 1) : gSlots[r] # Null
       /\ LET d == Len(gAllDevices) + 1
          IN  /\ gAllDevices' = Append(gAllDevices, NewDevice(s, id, shape))
              /\ gActiveDevices' = Append(gActiveDevices, d)
              /\ gSlots' = [gSlots EXCEPT ![s] = d]
              /\ Enter(t, "persist_add", d)
  /\ gStateMutex' = t
  /\ UNCHANGED <<storage, changes, history>>

\* Fault: the inventory is written before the device joins it.
AddDevicePersistedEarly(t) ==
  /\ call[t].op = "persist_add"
  /\ storage' = Front(InventoryLocked)
  /\ promised' = promised \cup {gAllDevices[It(t)].id}
  /\ gStateMutex' = NoThread /\ Return(t)
  /\ UNCHANGED <<gAllDevices, gActiveDevices, gSlots, changes, restarts>>

AddDevicePersisted(t) ==
  /\ call[t].op = "persist_add"
  /\ storage' = InventoryLocked
  /\ promised' = promised \cup {gAllDevices[It(t)].id}
  /\ gStateMutex' = NoThread /\ Return(t)
  /\ UNCHANGED <<gAllDevices, gActiveDevices, gSlots, changes, restarts>>

\* Fault: the slot is taken back, the list is not.
AddDeviceFailedListed(t) ==
  /\ call[t].op = "persist_add"
  /\ gSlots' = [gSlots EXCEPT ![gAllDevices[It(t)].slot] = Null]
  /\ gStateMutex' = NoThread /\ Return(t)
  /\ UNCHANGED <<gAllDevices, gActiveDevices, storage, changes, history>>

\* The write fails: slot and list are taken back; the Device itself stays active.
AddDeviceFailed(t) ==
  /\ call[t].op = "persist_add"
  /\ gSlots' = [gSlots EXCEPT ![gAllDevices[It(t)].slot] = Null]
  /\ gActiveDevices' = Front(gActiveDevices)
  /\ gStateMutex' = NoThread /\ Return(t)
  /\ UNCHANGED <<gAllDevices, storage, changes, history>>

-----------------------------------------------------------------------------
(* The delete command: SetPropertyData *)

AskDelete(t, id) ==
  /\ Unlocked
  /\ LET d == FindByIDLocked(id)
     IN  /\ d # Null
         /\ gAllDevices[d].runningClients = 0 /\ ~gAllDevices[d].deletePending
         /\ Update(d, "deletePending", TRUE)
         /\ Enter(t, "request", d)
  /\ UNCHANGED <<gActiveDevices, gSlots, gStateMutex, storage, changes, history>>

\* RequestDeviceConfigurationChange is accepted: the host will perform it or abort it.
RequestChange(t) ==
  /\ call[t].op = "request"
  /\ changes' = changes \cup {It(t)}
  /\ Return(t)
  /\ UNCHANGED <<memory, storage, history>>

\* Fault: the mark of the deletion that will not come is left.
RequestChangeFailedMarked(t) ==
  /\ call[t].op = "request"
  /\ Return(t)
  /\ UNCHANGED <<memory, storage, changes, history>>

\* It is refused, or the host has no such call; the store is made without the mutex.
RequestChangeFailed(t) ==
  /\ call[t].op = "request"
  /\ Update(It(t), "deletePending", FALSE)
  /\ Return(t)
  /\ UNCHANGED <<gActiveDevices, gSlots, gStateMutex, storage, changes, history>>

-----------------------------------------------------------------------------
(* The host's decision: Perform- and AbortDeviceConfigurationChange *)

\* The read of the slot must give the very Device the change was asked for;
\* otherwise the call is refused, and the change is over.
DecideChange(t, d, op) ==
  /\ d \in changes /\ changes' = changes \ {d}
  /\ IF gSlots[gAllDevices[d].slot] = d THEN Enter(t, op, d) ELSE call[t] = Idle /\ UNCHANGED call
  /\ UNCHANGED <<memory, storage, history>>

Abort(t) ==
  /\ call[t].op = "abort"
  /\ Update(It(t), "deletePending", FALSE)
  /\ Return(t)
  /\ UNCHANGED <<gActiveDevices, gSlots, gStateMutex, storage, changes, history>>

\* RemoveDeviceLocked(It(t), true), up to the write: refused while I/O runs or
\* when the device is not listed.
RemoveDeviceLocked(t) ==
  IF gAllDevices[It(t)].runningClients = 0 /\ Contains(gActiveDevices, It(t))
  THEN LET position == CHOOSE k \in 1..Len(gActiveDevices) : gActiveDevices[k] = It(t)
       IN  /\ gActiveDevices' = RemoveAt(gActiveDevices, position)
           /\ gStateMutex' = t
           /\ call' = [call EXCEPT ![t].op = "persist_remove", ![t].position = position]
  ELSE Return(t) /\ UNCHANGED <<gActiveDevices, gStateMutex>>

Perform(t) ==
  /\ call[t].op = "perform" /\ Unlocked
  /\ IF gAllDevices[It(t)].deletePending
     THEN Update(It(t), "deletePending", FALSE) /\ RemoveDeviceLocked(t)
     ELSE Return(t) /\ UNCHANGED <<gAllDevices, gActiveDevices, gStateMutex>>
  /\ UNCHANGED <<gSlots, storage, changes, history>>

DestroyDevice(t) ==
  /\ call[t].op = "DestroyDevice" /\ Unlocked
  /\ RemoveDeviceLocked(t)
  /\ UNCHANGED <<gAllDevices, gSlots, storage, changes, history>>

RemovePersisted(t) ==
  /\ call[t].op = "persist_remove"
  /\ storage' = InventoryLocked
  /\ Update(It(t), "active", FALSE)
  /\ promised' = promised \ {gAllDevices[It(t)].id}
  /\ gStateMutex' = NoThread /\ Go(t, "retire")
  /\ UNCHANGED <<gActiveDevices, gSlots, changes, restarts>>

\* Fault: the device goes to the end of the list.
RemoveFailedAtEnd(t) ==
  /\ call[t].op = "persist_remove"
  /\ gActiveDevices' = Append(gActiveDevices, It(t))
  /\ gStateMutex' = NoThread /\ Return(t)
  /\ UNCHANGED <<gAllDevices, gSlots, storage, changes, history>>

\* The write fails: the device goes back to its place in the list.
RemoveFailed(t) ==
  /\ call[t].op = "persist_remove"
  /\ gActiveDevices' = InsertAt(gActiveDevices, call[t].position, It(t))
  /\ gStateMutex' = NoThread /\ Return(t)
  /\ UNCHANGED <<gAllDevices, gSlots, storage, changes, history>>

\* After NotifyDeviceListChanged, the mutex is taken again.
Retire(t) ==
  /\ call[t].op = "retire" /\ Unlocked
  /\ gSlots' = ReleaseRetiredSlotLocked(gAllDevices, It(t))
  /\ Return(t)
  /\ UNCHANGED <<gAllDevices, gActiveDevices, gStateMutex, storage, changes, history>>

-----------------------------------------------------------------------------
(* Clients and I/O *)

\* Fault: the slot is not asked again under the mutex.
AddDeviceClientStale(t) ==
  /\ call[t].op = "AddDeviceClient" /\ Unlocked
  /\ Bump(It(t), "attachedClients", 1)
  /\ Return(t)
  /\ UNCHANGED <<gActiveDevices, gSlots, gStateMutex, storage, changes, history>>

AddDeviceClient(t) ==
  /\ call[t].op = "AddDeviceClient" /\ Unlocked
  /\ IF gSlots[gAllDevices[It(t)].slot] = It(t)
     THEN Bump(It(t), "attachedClients", 1) ELSE UNCHANGED gAllDevices
  /\ Return(t)
  /\ UNCHANGED <<gActiveDevices, gSlots, gStateMutex, storage, changes, history>>

\* Fault: the last client of a deleted device leaves the slot behind.
RemoveDeviceClientKeeping(t) ==
  /\ call[t].op = "RemoveDeviceClient" /\ Unlocked
  /\ IF gSlots[gAllDevices[It(t)].slot] = It(t) /\ gAllDevices[It(t)].attachedClients > 0
     THEN Bump(It(t), "attachedClients", -1)
     ELSE UNCHANGED gAllDevices
  /\ Return(t)
  /\ UNCHANGED <<gActiveDevices, gSlots, gStateMutex, storage, changes, history>>

RemoveDeviceClient(t) ==
  /\ call[t].op = "RemoveDeviceClient" /\ Unlocked
  /\ IF gSlots[gAllDevices[It(t)].slot] = It(t) /\ gAllDevices[It(t)].attachedClients > 0
     THEN /\ Bump(It(t), "attachedClients", -1)
          /\ gSlots' = ReleaseRetiredSlotLocked(gAllDevices', It(t))
     ELSE UNCHANGED <<gAllDevices, gSlots>>
  /\ Return(t)
  /\ UNCHANGED <<gActiveDevices, gStateMutex, storage, changes, history>>

\* Fault: I/O is started on the device that was found, deleted since or not.
StartIOStale(t) ==
  /\ call[t].op = "StartIO" /\ Unlocked
  /\ Bump(It(t), "runningClients", 1)
  /\ Return(t)
  /\ UNCHANGED <<gActiveDevices, gSlots, gStateMutex, storage, changes, history>>

StartIO(t) ==
  /\ call[t].op = "StartIO" /\ Unlocked
  /\ IF gAllDevices[It(t)].active THEN Bump(It(t), "runningClients", 1) ELSE UNCHANGED gAllDevices
  /\ Return(t)
  /\ UNCHANGED <<gActiveDevices, gSlots, gStateMutex, storage, changes, history>>

StopIO(t) ==
  /\ call[t].op = "StopIO" /\ Unlocked
  /\ IF gAllDevices[It(t)].runningClients > 0
     THEN /\ Bump(It(t), "runningClients", -1)
          /\ gSlots' = ReleaseRetiredSlotLocked(gAllDevices', It(t))
     ELSE UNCHANGED <<gAllDevices, gSlots>>
  /\ Return(t)
  /\ UNCHANGED <<gActiveDevices, gStateMutex, storage, changes, history>>

-----------------------------------------------------------------------------
\* A call in progress goes on.
Continue(t) ==
  \/ AddDevicePersisted(t) \/ AddDeviceFailed(t)
  \/ RequestChange(t) \/ RequestChangeFailed(t)
  \/ Abort(t) \/ Perform(t) \/ DestroyDevice(t)
  \/ RemovePersisted(t) \/ RemoveFailed(t) \/ Retire(t)
  \/ AddDeviceClient(t) \/ RemoveDeviceClient(t) \/ StartIO(t) \/ StopIO(t)

\* The host starts a call.
Begin(t) ==
  \/ \E id \in Ids, shape \in Shapes : AddDevice(t, id, shape)
  \/ \E id \in Ids : AskDelete(t, id)
  \/ \E s \in Slots, op \in ObjectCalls : DeviceForObject(t, op, s)
  \/ \E s \in Slots : BadObject(t, s)

Decide == \E t \in Threads, d \in changes : DecideChange(t, d, "perform") \/ DecideChange(t, d, "abort")

Next == Initialize \/ Decide \/ \E t \in Threads : Continue(t) \/ Begin(t)

Spec == Init /\ [][Next]_vars

-----------------------------------------------------------------------------
(* Properties *)

Listed(d) == d \in Range(gActiveDevices)
Made == 1..Len(gAllDevices)

\* Type correctness: pointers are of Devices that were made, and the client counts
\* neither wrap below zero nor exceed the clients there are.
TypeOK ==
  /\ Made \subseteq Devices
  /\ \A d \in Made :
       /\ gAllDevices[d].slot \in Slots /\ gAllDevices[d].id \in Ids /\ gAllDevices[d].shape \in Shapes
       /\ gAllDevices[d].active \in BOOLEAN /\ gAllDevices[d].deletePending \in BOOLEAN
       /\ gAllDevices[d].attachedClients \in 0..MaxClients
       /\ gAllDevices[d].runningClients \in 0..MaxClients
  /\ Range(gActiveDevices) \subseteq Made /\ changes \subseteq Made
  /\ gSlots \in [Slots -> Made \cup {Null}]
  /\ gStateMutex \in Threads \cup {NoThread}
  /\ \A k \in DOMAIN storage : storage[k].id \in Ids /\ storage[k].shape \in Shapes
  /\ \A t \in Threads : It(t) \in Made \cup {Null}
  /\ restarts \in 0..MaxRestarts /\ promised \subseteq Ids

\* Whenever the mutex is free the stored inventory is the list, in its order: a
\* failed write leaves neither AddDeviceLocked's device nor RemoveDeviceLocked's
\* gap, so a restart of coreaudiod brings back exactly the devices of before.
StorageIsInventory == Unlocked => storage = InventoryLocked

\* A created device is in the storage until its deletion is: no failed command, no
\* deletion of another device and no restart loses it.
CreatedSurvive == \A id \in promised : \E k \in DOMAIN storage : storage[k].id = id

\* I/O runs only on active devices: StartIO and the deletion exclude each other
\* although StartIO has found its device before it takes the mutex.
RunningIsActive == \A d \in Made : gAllDevices[d].runningClients > 0 => gAllDevices[d].active

\* A device that clients are attached to keeps its slot, so that the object id they
\* know never comes to name another device: the slot is given up only by
\* ReleaseRetiredSlotLocked, and AddDeviceClient asks again under the mutex.
AttachedKeepSlot == \A d \in Made : gAllDevices[d].attachedClients > 0 => gSlots[gAllDevices[d].slot] = d

\* Every listed device is active and answers to its object id, and no two listed
\* devices have the same id.
ListedReachable ==
  Unlocked =>
    /\ \A d \in Range(gActiveDevices) : gAllDevices[d].active /\ gSlots[gAllDevices[d].slot] = d
    /\ \A d, e \in Range(gActiveDevices) : gAllDevices[d].id = gAllDevices[e].id => d = e

\* When no call is in progress, every slot is held by an active device or by one
\* that still has clients: a deleted device does not use up one of the
\* kMaximumDevices slots for ever.
NoSlotLeak ==
  (\A t \in Threads : call[t] = Idle) =>
    \A s \in Slots : gSlots[s] # Null =>
      gAllDevices[gSlots[s]].active \/ gAllDevices[gSlots[s]].attachedClients > 0

\* A listed device is marked deletePending exactly while one request for its deletion
\* is under way, at the host or in a call, and there is never a second one: no refusal,
\* abort, failed write or other deletion leaves a mark behind, with which nothing could
\* delete the device any more, or takes away the mark of a request that still runs.
DeletionHasOwner ==
  \A d \in Range(gActiveDevices) :
    LET owners == {t \in Threads : It(t) = d /\ call[t].op \in {"request", "perform", "abort"}}
    IN  Cardinality(owners) + (IF d \in changes THEN 1 ELSE 0)
          = IF gAllDevices[d].deletePending THEN 1 ELSE 0
=============================================================================
