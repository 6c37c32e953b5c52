-------------------------- MODULE DriverProperties --------------------------
(***************************************************************************)
(* Driver, with the property calls of the host: they read the slot of an   *)
(* object twice, with no mutex around the reads.                           *)
(***************************************************************************)
EXTENDS Driver

\* The host was told of an object with slot s: its device is or was in a stored inventory.
Announced(s) ==
  \E d \in Made :
    /\ gAllDevices[d].slot = s /\ (Listed(d) \/ ~gAllDevices[d].active)
    /\ \A t \in Threads : call[t].op = "persist_add" => It(t) # d

\* GetPropertyData, GetPropertyDataSize: the Device is read first, then its kind.  A
\* Device is never freed: only a call that read none has a second read that matters.
ReadProperty(t, s) ==
  /\ Announced(s) /\ gSlots[s] = Null
  /\ call[t] = Idle /\ call' = [call EXCEPT ![t] = [op |-> "get", device |-> Null, position |-> s]]
  /\ UNCHANGED <<memory, storage, changes, history>>

\* SetPropertyData of a stream's IsActive: the kind, then the Device.
WriteProperty(t, s) ==
  /\ Announced(s) /\ gSlots[s] # Null
  /\ call[t] = Idle /\ call' = [call EXCEPT ![t] = [op |-> "set", device |-> Null, position |-> s]]
  /\ UNCHANGED <<memory, storage, changes, history>>

\* The second read gives a kind and no Device to go with it.
NullDevice(t) ==
  \/ call[t].op = "get" /\ gSlots[call[t].position] # Null
  \/ call[t].op = "set" /\ gSlots[call[t].position] = Null

PropertyDone(t) ==
  /\ call[t].op \in {"get", "set"} /\ ~NullDevice(t)
  /\ Return(t)
  /\ UNCHANGED <<memory, storage, changes, history>>

\* A null Device is dereferenced: the process ends, and coreaudiod starts again.
PropertyCrash(t) == NullDevice(t) /\ Initialize

-----------------------------------------------------------------------------
PropertyNext ==
  \/ Next
  \/ \E t \in Threads : PropertyDone(t) \/ PropertyCrash(t) \/ \E s \in Slots : ReadProperty(t, s) \/ WriteProperty(t, s)

PropertySpec == Init /\ [][PropertyNext]_vars

-----------------------------------------------------------------------------
(* A property the comments state and the code does not have *)

\* A property access to an object that is being retired is answered with an error.
NoNullDevice == \A t \in Threads : ~NullDevice(t)
=============================================================================
