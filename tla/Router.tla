------------------------------- MODULE Router -------------------------------
(***************************************************************************)
(* Start and drop of an AudioRouter (platform.rs): the IOProcs it makes on *)
(* its devices, each with a pointer to a DeviceIoContext of the router.    *)
(* start and drop run on one thread; callbacks run on the device's own.    *)
(* What a callback does is in IoProc and, for its routes, RouteStream.     *)
(*                                                                         *)
(* A PcmPlatformStream has one context and makes the same calls in the     *)
(* same order: it is the case of one device.                               *)
(***************************************************************************)
EXTENDS Integers, Sequences, FiniteSets

CONSTANTS Devices

ASSUME RouterAssumption == IsFiniteSet(Devices) /\ Devices # {}

VARIABLES contexts,       \* the devices of the contexts, in their order; empty when they are freed
          pc, at,         \* the router's next call, and the context it is for
          procedure_id,   \* device -> its context has the id of an IOProc
          running,        \* device -> its context's flag
          hal,            \* device -> its IOProc in Core Audio: none, made, started
          present,        \* device -> Core Audio has it
          callback        \* device -> a callback is running

contextVars == <<procedure_id, running>>
vars == <<contexts, pc, at, contextVars, hal, present, callback>>

Device == contexts[at]
Owned == {contexts[k] : k \in DOMAIN contexts}

Init ==
  /\ contexts = << >> /\ pc = "gone" /\ at = 1
  /\ procedure_id = [d \in Devices |-> FALSE] /\ running = [d \in Devices |-> FALSE]
  /\ hal = [d \in Devices |-> "none"] /\ present \in [Devices -> BOOLEAN]
  /\ callback = [d \in Devices |-> FALSE]

-----------------------------------------------------------------------------
(* start *)

\* On to the next context, or to what follows the loop over them.
Onward(after) ==
  IF at < Len(contexts) THEN at' = at + 1 /\ UNCHANGED pc ELSE at' = 1 /\ pc' = after

\* The ? of a call that fails: what there is of the router is dropped.
Fail == pc' = "drop" /\ at' = 1

\* The devices are there; the formats of the routes fit theirs.
validate_routes(devices) == \A k \in DOMAIN devices : present[devices[k]]

\* The devices of the routes get a context each, or start ends without effect.  The
\* router of before has been dropped.
Start(devices) ==
  /\ pc = "gone"
  /\ validate_routes(devices)
  /\ contexts' = devices /\ pc' = "create" /\ at' = 1
  /\ UNCHANGED <<contextVars, hal, present, callback>>

CreateIOProcID ==
  /\ pc = "create" /\ present[Device]
  /\ procedure_id' = [procedure_id EXCEPT ![Device] = TRUE]
  /\ hal' = [hal EXCEPT ![Device] = "made"]
  /\ pc' = "usage"
  /\ UNCHANGED <<contexts, at, running, present, callback>>

\* A failed creation may have made the IOProc and filled in its id all the same.
CreateIOProcIDFail ==
  /\ pc = "create"
  /\ \E made \in {FALSE, present[Device]} :
       /\ procedure_id' = [procedure_id EXCEPT ![Device] = made]
       /\ hal' = [hal EXCEPT ![Device] = IF made THEN "made" ELSE "none"]
  /\ Fail
  /\ UNCHANGED <<contexts, running, present, callback>>

\* configure_stream_usage of input and output.
ConfigureStreamUsage ==
  /\ pc = "usage" /\ present[Device]
  /\ IF at < Len(contexts) THEN at' = at + 1 /\ pc' = "create" ELSE at' = 1 /\ pc' = "start"
  /\ UNCHANGED <<contexts, contextVars, hal, present, callback>>

ConfigureStreamUsageFail ==
  /\ pc = "usage"
  /\ Fail
  /\ UNCHANGED <<contexts, contextVars, hal, present, callback>>

\* Fault: the context does not keep that its IOProc was started.
DeviceStartUnmarked ==
  /\ pc = "start" /\ present[Device]
  /\ hal' = [hal EXCEPT ![Device] = "started"]
  /\ Onward("running")
  /\ UNCHANGED <<contexts, contextVars, present, callback>>

DeviceStart ==
  /\ pc = "start" /\ present[Device]
  /\ hal' = [hal EXCEPT ![Device] = "started"]
  /\ running' = [running EXCEPT ![Device] = TRUE]
  /\ Onward("running")
  /\ UNCHANGED <<contexts, procedure_id, present, callback>>

DeviceStartFail ==
  /\ pc = "start"
  /\ Fail
  /\ UNCHANGED <<contexts, contextVars, hal, present, callback>>

-----------------------------------------------------------------------------
(* drop *)

Drop ==
  /\ pc = "running"
  /\ pc' = "drop" /\ at' = 1
  /\ UNCHANGED <<contexts, contextVars, hal, present, callback>>

\* AudioDeviceStop returns when the device's callback has.  It fails when the device
\* has gone, which is ignored.
DeviceStop ==
  /\ pc = "drop" /\ running[Device] /\ ~callback[Device]
  /\ hal' = [hal EXCEPT ![Device] = IF @ = "started" THEN "made" ELSE @]
  /\ running' = [running EXCEPT ![Device] = FALSE]
  /\ UNCHANGED <<contexts, pc, at, procedure_id, present, callback>>

\* AudioDeviceDestroyIOProcID, if the context has an IOProc; it waits for nobody.
\* After the last context all of them are freed.
DestroyIOProcID ==
  /\ pc = "drop" /\ ~running[Device]
  /\ hal' = [hal EXCEPT ![Device] = IF procedure_id[Device] THEN "none" ELSE @]
  /\ procedure_id' = [procedure_id EXCEPT ![Device] = FALSE]
  /\ Onward("gone")
  /\ contexts' = IF at < Len(contexts) THEN contexts ELSE << >>
  /\ UNCHANGED <<running, present, callback>>

-----------------------------------------------------------------------------
(* Core Audio *)

CallbackBegin(d) ==
  /\ hal[d] = "started" /\ ~callback[d]
  /\ callback' = [callback EXCEPT ![d] = TRUE]
  /\ UNCHANGED <<contexts, pc, at, contextVars, hal, present>>

CallbackEnd(d) ==
  /\ callback[d]
  /\ callback' = [callback EXCEPT ![d] = FALSE]
  /\ UNCHANGED <<contexts, pc, at, contextVars, hal, present>>

\* A device goes, and its IOProc with it.
Unplug(d) ==
  /\ present[d] /\ ~callback[d]
  /\ present' = [present EXCEPT ![d] = FALSE]
  /\ hal' = [hal EXCEPT ![d] = "none"]
  /\ UNCHANGED <<contexts, pc, at, contextVars, callback>>

\* A device comes.  One that comes back has a new object id: to the contexts that have
\* the old one it stays away.
Plug(d) ==
  /\ ~present[d] /\ d \notin Owned
  /\ present' = [present EXCEPT ![d] = TRUE]
  /\ UNCHANGED <<contexts, pc, at, contextVars, hal, callback>>

-----------------------------------------------------------------------------
\* Routes join any devices; the contexts are in the order of the devices' ids.
Orders == UNION {{s \in [1..n -> Devices] : \A i, j \in 1..n : s[i] = s[j] => i = j} : n \in 1..Cardinality(Devices)}

\* Everything but the end of a callback, before which it does what module IoProc says.
Step ==
  \/ \E devices \in Orders : Start(devices)
  \/ CreateIOProcID \/ CreateIOProcIDFail
  \/ ConfigureStreamUsage \/ ConfigureStreamUsageFail
  \/ DeviceStart \/ DeviceStartFail
  \/ Drop \/ DeviceStop \/ DestroyIOProcID
  \/ \E d \in Devices : CallbackBegin(d) \/ Unplug(d) \/ Plug(d)

Next == Step \/ \E d \in Devices : CallbackEnd(d)

Spec == Init /\ [][Next]_vars

-----------------------------------------------------------------------------
(* Properties *)

\* An IOProc that Core Audio has, and a callback that is running, have their context:
\* whether the router is dropped or its start failed at any of its calls, none is left
\* when the contexts are freed.
NoDanglingProc ==
  \A d \in Devices : hal[d] # "none" \/ callback[d] => d \in Owned
=============================================================================
