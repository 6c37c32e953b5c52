--------------------------- MODULE Driver_proofs ---------------------------
(***************************************************************************)
(* Proofs about the HAL driver's control plane for any number of host      *)
(* threads, devices, slots and clients: what is stored is what is listed,  *)
(* created devices survive, object ids are never reused under a client,    *)
(* I/O and deletion exclude each other, and every deletion has one owner.  *)
(***************************************************************************)
EXTENDS Driver, FiniteSetTheorems, SequenceTheorems, TLAPS

DeviceRecord ==
  [slot : Slots, id : Ids, shape : Shapes, active : BOOLEAN, deletePending : BOOLEAN,
   attachedClients : Nat, runningClients : Nat]
Line == [id : Ids, shape : Shapes]
Writing == {"persist_add", "persist_remove"}
Owning == {"request", "perform", "abort"}
Ops == ObjectCalls \cup Writing \cup Owning \cup {"idle", "retire"}

Types ==
  /\ gAllDevices \in Seq(DeviceRecord)
  /\ gActiveDevices \in Seq(Nat) /\ \A k \in 1..Len(gActiveDevices) : gActiveDevices[k] \in Made
  /\ gSlots \in [Slots -> Nat]
  /\ gStateMutex \in Threads \cup {NoThread}
  /\ storage \in Seq(Line)
  /\ changes \subseteq Made
  /\ call \in [Threads -> [op : Ops, device : Nat, position : Nat]]
  /\ restarts \in Nat /\ promised \subseteq Ids

\* A call that has begun has its Device.
Calls ==
  \A t \in Threads :
    /\ call[t].op = "idle" => call[t] = Idle
    /\ call[t].op # "idle" => It(t) \in Made

\* The mutex is held across a write to storage, by the thread that writes.
Locking == \A t \in Threads : gStateMutex = t <=> call[t].op \in Writing

\* A slot names a Device that was made for it.
Slotted == \A s \in Slots : gSlots[s] # Null => gSlots[s] \in Made /\ gAllDevices[gSlots[s]].slot = s
Holds(d) == gSlots[gAllDevices[d].slot] = d

\* The list with the device back in it whose removal is being written, and the list that is
\* in storage: without the device whose creation is being written.
Roster ==
  IF gStateMutex # NoThread /\ call[gStateMutex].op = "persist_remove"
  THEN InsertAt(gActiveDevices, call[gStateMutex].position, It(gStateMutex))
  ELSE gActiveDevices
Saved ==
  IF gStateMutex # NoThread /\ call[gStateMutex].op = "persist_add"
  THEN Front(gActiveDevices)
  ELSE Roster

\* What a write to storage has in hand until it succeeds or is undone.
InHand ==
  \A t \in Threads :
    /\ call[t].op = "persist_add" =>
         /\ Len(gActiveDevices) >= 1 /\ gActiveDevices[Len(gActiveDevices)] = It(t)
         /\ gAllDevices[It(t)].attachedClients = 0 /\ gAllDevices[It(t)].runningClients = 0
    /\ call[t].op = "persist_remove" =>
         /\ call[t].position \in 1..(Len(gActiveDevices) + 1)
         /\ gAllDevices[It(t)].runningClients = 0

Rostered ==
  /\ \A k \in 1..Len(Roster) : gAllDevices[Roster[k]].active /\ Holds(Roster[k])
  /\ \A j, k \in 1..Len(Roster) : gAllDevices[Roster[j]].id = gAllDevices[Roster[k]].id => j = k

Stored == storage = InventoryOf(gAllDevices, Saved)

\* A slot whose device is neither active nor in use is about to be given up.
Retiring ==
  \A s \in Slots : gSlots[s] # Null =>
    \/ gAllDevices[gSlots[s]].active \/ gAllDevices[gSlots[s]].attachedClients > 0
    \/ \E t \in Threads : call[t].op = "retire" /\ It(t) = gSlots[s]

\* The one owner of the deletion of a device that has its slot.
Owns(t, d) == It(t) = d /\ call[t].op \in Owning
OneOwner ==
  \A d \in Made : Holds(d) =>
    /\ \A t, u \in Threads : Owns(t, d) /\ Owns(u, d) => t = u
    /\ d \in changes => \A t \in Threads : ~Owns(t, d)
    /\ gAllDevices[d].deletePending <=> d \in changes \/ \E t \in Threads : Owns(t, d)

IndInv ==
  /\ Types /\ Calls /\ Locking /\ Slotted /\ InHand /\ Rostered /\ Stored
  /\ CreatedSurvive /\ RunningIsActive /\ AttachedKeepSlot /\ Retiring /\ OneOwner

-----------------------------------------------------------------------------
(* Lists *)

\* A list without its last element.
LEMMA FrontFacts ==
  ASSUME NEW s \in Seq(Nat), Len(s) >= 1
  PROVE  /\ Front(s) \in Seq(Nat) /\ Len(Front(s)) = Len(s) - 1
         /\ \A k \in 1..(Len(s) - 1) : Front(s)[k] = s[k]
<1> DEFINE n == Len(s) - 1
           f == SubSeq(s, 1, n)
<1>1. n \in Nat /\ \A i \in 1..n : s[i] \in Nat
  OBVIOUS
<1>2. f \in Seq(Nat) /\ Len(f) = (IF 1 <= n THEN n - 1 + 1 ELSE 0)
      /\ \A i \in 1..(n - 1 + 1) : f[i] = s[1 + i - 1]
  BY <1>1, SubSeqProperties
<1> HIDE DEF n, f
<1>3. \A k \in 1..n : k \in 1..(n - 1 + 1) /\ 1 + k - 1 = k
  BY <1>1
<1>4. Len(f) = n
  BY <1>1, <1>2
<1>5. \A k \in 1..n : f[k] = s[k]
  BY <1>2, <1>3
<1> QED
  BY <1>2, <1>4, <1>5 DEF Front, f, n

\* r is the list s with e put in at the place p.
Inserted(r, s, p, e) ==
  /\ r \in Seq(Nat) /\ Len(r) = Len(s) + 1
  /\ \A k \in 1..(Len(s) + 1) : r[k] = IF k < p THEN s[k] ELSE IF k = p THEN e ELSE s[k - 1]

\* That is what InsertAt does.
LEMMA InsertFacts ==
  ASSUME NEW s \in Seq(Nat), NEW p \in 1..(Len(s) + 1), NEW e \in Nat
  PROVE  Inserted(InsertAt(s, p, e), s, p, e)
<1> DEFINE a == SubSeq(s, 1, p - 1)
           b == <<e>>
           c == SubSeq(s, p, Len(s))
           ab == a \o b
           r == ab \o c
<1>1. Len(s) \in Nat /\ p \in Nat /\ p >= 1 /\ p <= Len(s) + 1 /\ \A i \in 1..Len(s) : s[i] \in Nat
  OBVIOUS
<1>2. a \in Seq(Nat) /\ Len(a) = p - 1 /\ \A i \in 1..(p - 1) : a[i] = s[i]
  <2>1. \A i \in 1..(p - 1) : s[i] \in Nat
    BY <1>1
  <2>2. /\ a \in Seq(Nat) /\ Len(a) = IF 1 <= p - 1 THEN (p - 1) - 1 + 1 ELSE 0
        /\ \A i \in 1..((p - 1) - 1 + 1) : a[i] = s[1 + i - 1]
    BY <1>1, <2>1, SubSeqProperties
  <2>3. \A i \in 1..(p - 1) : i \in 1..((p - 1) - 1 + 1) /\ 1 + i - 1 = i
    BY <1>1
  <2> HIDE DEF a
  <2>4. Len(a) = p - 1
    BY <1>1, <2>2
  <2> QED BY <2>2, <2>3, <2>4
<1>3. c \in Seq(Nat) /\ Len(c) = Len(s) - p + 1 /\ \A i \in 1..(Len(s) - p + 1) : c[i] = s[p + i - 1]
  <2>1. \A i \in p..Len(s) : s[i] \in Nat
    BY <1>1
  <2>2. /\ c \in Seq(Nat) /\ Len(c) = IF p <= Len(s) THEN Len(s) - p + 1 ELSE 0
        /\ \A i \in 1..(Len(s) - p + 1) : c[i] = s[p + i - 1]
    BY <1>1, <2>1, SubSeqProperties
  <2> HIDE DEF c
  <2>3. Len(c) = Len(s) - p + 1
    BY <1>1, <2>2
  <2> QED BY <2>2, <2>3
<1>4. b \in Seq(Nat) /\ Len(b) = 1 /\ b[1] = e
  OBVIOUS
<1> HIDE DEF a, b, c
<1>5. /\ ab \in Seq(Nat) /\ Len(ab) = p
      /\ \A i \in 1..p : ab[i] = IF i <= p - 1 THEN s[i] ELSE e
  <2>0. /\ ab \in Seq(Nat) /\ Len(ab) = Len(a) + Len(b)
        /\ \A i \in 1..(Len(a) + Len(b)) : ab[i] = IF i <= Len(a) THEN a[i] ELSE b[i - Len(a)]
    BY <1>2, <1>4, ConcatProperties
  <2>1. /\ ab \in Seq(Nat) /\ Len(ab) = (p - 1) + 1
        /\ \A i \in 1..((p - 1) + 1) : ab[i] = IF i <= p - 1 THEN a[i] ELSE b[i - (p - 1)]
    BY <1>2, <1>4, <2>0, Zenon
  <2>2. ASSUME NEW i \in 1..p PROVE ab[i] = IF i <= p - 1 THEN s[i] ELSE e
    <3>1. i \in 1..((p - 1) + 1)
      BY <1>1
    <3>2. CASE i <= p - 1
      <4>1. i \in 1..(p - 1)
        BY <1>1, <3>2
      <4> QED BY <1>2, <2>1, <3>1, <3>2, <4>1
    <3>3. CASE ~(i <= p - 1)
      <4>1. i - (p - 1) = 1
        BY <1>1, <3>3
      <4> QED BY <1>4, <2>1, <3>1, <3>3, <4>1
    <3> QED BY <3>2, <3>3
  <2> QED BY <1>1, <2>1, <2>2
<1> HIDE DEF ab
<1>6. /\ r \in Seq(Nat) /\ Len(r) = p + (Len(s) - p + 1)
      /\ \A i \in 1..(p + (Len(s) - p + 1)) : r[i] = IF i <= p THEN ab[i] ELSE c[i - p]
  <2>1. /\ r \in Seq(Nat) /\ Len(r) = Len(ab) + Len(c)
        /\ \A i \in 1..(Len(ab) + Len(c)) : r[i] = IF i <= Len(ab) THEN ab[i] ELSE c[i - Len(ab)]
    BY <1>3, <1>5, ConcatProperties
  <2> QED BY <1>3, <1>5, <2>1, Zenon
<1> HIDE DEF r
<1>7. ASSUME NEW k \in 1..(Len(s) + 1)
      PROVE  r[k] = IF k < p THEN s[k] ELSE IF k = p THEN e ELSE s[k - 1]
  <2>1. k \in 1..(p + (Len(s) - p + 1))
    BY <1>1
  <2>2. CASE k <= p
    <3>1. k \in 1..p /\ (k <= p - 1 <=> k < p) /\ (~(k < p) => k = p)
      BY <1>1, <2>2
    <3> QED BY <1>5, <1>6, <2>1, <2>2, <3>1
  <2>3. CASE ~(k <= p)
    <3>1. k - p \in 1..(Len(s) - p + 1) /\ p + (k - p) - 1 = k - 1 /\ ~(k < p) /\ k # p
      BY <1>1, <2>3
    <3>2. r[k] = c[k - p] /\ c[k - p] = s[p + (k - p) - 1]
      BY <1>3, <1>6, <2>1, <2>3, <3>1
    <3> QED BY <3>1, <3>2
  <2> QED BY <2>2, <2>3
<1>8. Len(r) = Len(s) + 1
  BY <1>1, <1>6
<1> QED
  BY <1>6, <1>7, <1>8 DEF InsertAt, Inserted, r, ab, a, b, c

\* A list with the element of a place taken out, which put back gives the list.
LEMMA RemoveFacts ==
  ASSUME NEW s \in Seq(Nat), NEW p \in 1..Len(s)
  PROVE  /\ RemoveAt(s, p) \in Seq(Nat) /\ Len(RemoveAt(s, p)) = Len(s) - 1
         /\ \A k \in 1..(Len(s) - 1) : RemoveAt(s, p)[k] = IF k < p THEN s[k] ELSE s[k + 1]
         /\ InsertAt(RemoveAt(s, p), p, s[p]) = s
<1> DEFINE a == SubSeq(s, 1, p - 1)
           c == SubSeq(s, p + 1, Len(s))
           r == a \o c
<1>1. Len(s) \in Nat /\ p \in Nat /\ p >= 1 /\ p <= Len(s) /\ \A i \in 1..Len(s) : s[i] \in Nat
  OBVIOUS
<1>2. a \in Seq(Nat) /\ Len(a) = p - 1 /\ \A i \in 1..(p - 1) : a[i] = s[i]
  <2>1. \A i \in 1..(p - 1) : s[i] \in Nat
    BY <1>1
  <2>2. /\ a \in Seq(Nat) /\ Len(a) = IF 1 <= p - 1 THEN (p - 1) - 1 + 1 ELSE 0
        /\ \A i \in 1..((p - 1) - 1 + 1) : a[i] = s[1 + i - 1]
    BY <1>1, <2>1, SubSeqProperties
  <2>3. \A i \in 1..(p - 1) : i \in 1..((p - 1) - 1 + 1) /\ 1 + i - 1 = i
    BY <1>1
  <2> HIDE DEF a
  <2>4. Len(a) = p - 1
    BY <1>1, <2>2
  <2> QED BY <2>2, <2>3, <2>4
<1>3. c \in Seq(Nat) /\ Len(c) = Len(s) - p /\ \A i \in 1..(Len(s) - p) : c[i] = s[p + i]
  <2>1. \A i \in (p + 1)..Len(s) : s[i] \in Nat
    BY <1>1
  <2>2. /\ c \in Seq(Nat) /\ Len(c) = IF p + 1 <= Len(s) THEN Len(s) - (p + 1) + 1 ELSE 0
        /\ \A i \in 1..(Len(s) - (p + 1) + 1) : c[i] = s[(p + 1) + i - 1]
    BY <1>1, <2>1, SubSeqProperties
  <2>3. \A i \in 1..(Len(s) - p) : i \in 1..(Len(s) - (p + 1) + 1) /\ (p + 1) + i - 1 = p + i
    BY <1>1
  <2> HIDE DEF c
  <2>4. Len(c) = Len(s) - p
    BY <1>1, <2>2
  <2> QED BY <2>2, <2>3, <2>4
<1> HIDE DEF a, c
<1>4. /\ r \in Seq(Nat) /\ Len(r) = (p - 1) + (Len(s) - p)
      /\ \A i \in 1..((p - 1) + (Len(s) - p)) : r[i] = IF i <= p - 1 THEN a[i] ELSE c[i - (p - 1)]
  <2>1. /\ r \in Seq(Nat) /\ Len(r) = Len(a) + Len(c)
        /\ \A i \in 1..(Len(a) + Len(c)) : r[i] = IF i <= Len(a) THEN a[i] ELSE c[i - Len(a)]
    BY <1>2, <1>3, ConcatProperties
  <2> QED BY <1>2, <1>3, <2>1, Zenon
<1> HIDE DEF r
<1>5. Len(r) = Len(s) - 1
  BY <1>1, <1>4
<1>6. ASSUME NEW k \in 1..(Len(s) - 1) PROVE r[k] = IF k < p THEN s[k] ELSE s[k + 1]
  <2>1. k \in 1..((p - 1) + (Len(s) - p))
    BY <1>1
  <2>2. CASE k < p
    <3>1. k \in 1..(p - 1) /\ k <= p - 1
      BY <1>1, <2>2
    <3> QED BY <1>2, <1>4, <2>1, <2>2, <3>1
  <2>3. CASE ~(k < p)
    <3>1. k - (p - 1) \in 1..(Len(s) - p) /\ ~(k <= p - 1) /\ p + (k - (p - 1)) = k + 1
      BY <1>1, <2>3
    <3> QED BY <1>3, <1>4, <2>1, <2>3, <3>1
  <2> QED BY <2>2, <2>3
<1>7. r = RemoveAt(s, p)
  BY DEF RemoveAt, r, a, c
<1>8. InsertAt(r, p, s[p]) = s
  <2> DEFINE e == s[p]
             i == InsertAt(r, p, e)
  <2>1. p \in 1..(Len(r) + 1) /\ e \in Nat /\ r \in Seq(Nat) /\ Len(r) + 1 = Len(s)
    BY <1>1, <1>4, <1>5
  <2>2. /\ i \in Seq(Nat) /\ Len(i) = Len(r) + 1
        /\ \A k \in 1..(Len(r) + 1) : i[k] = IF k < p THEN r[k] ELSE IF k = p THEN e ELSE r[k - 1]
    <3> HIDE DEF e
    <3>1. Inserted(i, r, p, e)
      BY <2>1, InsertFacts
    <3> QED BY <3>1 DEF Inserted
  <2> HIDE DEF i
  <2>3. ASSUME NEW k \in 1..Len(s) PROVE i[k] = s[k]
    <3>1. i[k] = IF k < p THEN r[k] ELSE IF k = p THEN s[p] ELSE r[k - 1]
      BY <2>1, <2>2
    <3>2. CASE k < p
      <4>1. k \in 1..(Len(s) - 1)
        BY <1>1, <3>2
      <4> QED BY <1>6, <3>1, <3>2, <4>1
    <3>3. CASE k = p
      BY <3>1, <3>3, <1>1
    <3>4. CASE k > p
      <4>1. k - 1 \in 1..(Len(s) - 1) /\ ~(k - 1 < p) /\ (k - 1) + 1 = k /\ ~(k < p) /\ k # p
        BY <1>1, <3>4
      <4> QED BY <1>6, <3>1, <4>1
    <3> QED BY <1>1, <3>2, <3>3, <3>4
  <2> QED
    BY <2>1, <2>2, <2>3, SeqEqual DEF i
<1> QED
  BY <1>4, <1>5, <1>6, <1>7, <1>8

-----------------------------------------------------------------------------
(* Devices and calls *)

\* The Devices that there are keep what the list, the slots and the storage know of them.
Lasting ==
  /\ gAllDevices' \in Seq(DeviceRecord) /\ Len(gAllDevices') = Len(gAllDevices)
  /\ \A e \in Made :
       /\ gAllDevices'[e].slot = gAllDevices[e].slot /\ gAllDevices'[e].active = gAllDevices[e].active
       /\ gAllDevices'[e].id = gAllDevices[e].id /\ gAllDevices'[e].shape = gAllDevices[e].shape

\* And their clients; and the marks of their deletion.
SameClients ==
  \A e \in Made :
    /\ gAllDevices'[e].attachedClients = gAllDevices[e].attachedClients
    /\ gAllDevices'[e].runningClients = gAllDevices[e].runningClients
SameMarks == \A e \in Made : gAllDevices'[e].deletePending = gAllDevices[e].deletePending

\* What is known of a Device that was made.
LEMMA DeviceFacts ==
  ASSUME Types, NEW d \in Made
  PROVE  /\ d \in Nat /\ d # Null /\ gAllDevices[d] \in DeviceRecord
         /\ gAllDevices[d].slot \in Slots /\ gAllDevices[d].id \in Ids /\ gAllDevices[d].shape \in Shapes
         /\ gAllDevices[d].active \in BOOLEAN /\ gAllDevices[d].deletePending \in BOOLEAN
         /\ gAllDevices[d].attachedClients \in Nat /\ gAllDevices[d].runningClients \in Nat
<1>1. gAllDevices[d] \in DeviceRecord /\ d \in Nat /\ d # 0
  BY DEF Types, Made
<1> QED
  BY <1>1 DEF DeviceRecord, Null

\* A step that leaves the Devices alone.
LEMMA SameDevices ==
  ASSUME Types, UNCHANGED gAllDevices
  PROVE  Lasting /\ SameClients /\ SameMarks
  BY DEF Types, Lasting, SameClients, SameMarks

\* A store of deletePending.
LEMMA MarkFacts ==
  ASSUME Types, NEW d \in Made, NEW v \in BOOLEAN, Update(d, "deletePending", v)
  PROVE  /\ Lasting /\ SameClients
         /\ gAllDevices'[d].deletePending = v
         /\ \A e \in Made : e # d => gAllDevices'[e].deletePending = gAllDevices[e].deletePending
<1> DEFINE r == [gAllDevices[d] EXCEPT !["deletePending"] = v]
<1>1. gAllDevices[d] \in DeviceRecord
  BY DeviceFacts
<1>2. /\ r \in DeviceRecord /\ r.deletePending = v
      /\ r.slot = gAllDevices[d].slot /\ r.id = gAllDevices[d].id /\ r.shape = gAllDevices[d].shape
      /\ r.active = gAllDevices[d].active
      /\ r.attachedClients = gAllDevices[d].attachedClients /\ r.runningClients = gAllDevices[d].runningClients
  BY <1>1 DEF DeviceRecord
<1>3. gAllDevices' = [gAllDevices EXCEPT ![d] = r]
  BY DEF Update
<1> HIDE DEF r
<1>4. /\ gAllDevices' \in Seq(DeviceRecord) /\ Len(gAllDevices') = Len(gAllDevices) /\ gAllDevices'[d] = r
      /\ \A e \in Made : e # d => gAllDevices'[e] = gAllDevices[e]
  BY <1>2, <1>3 DEF Types, Made
<1> QED
  BY <1>2, <1>4 DEF Lasting, SameClients

\* A store of attachedClients.
LEMMA AttachFacts ==
  ASSUME Types, NEW d \in Made, NEW v \in Nat, Update(d, "attachedClients", v)
  PROVE  /\ Lasting /\ SameMarks
         /\ gAllDevices'[d].attachedClients = v
         /\ \A e \in Made :
              /\ e # d => gAllDevices'[e].attachedClients = gAllDevices[e].attachedClients
              /\ gAllDevices'[e].runningClients = gAllDevices[e].runningClients
<1> DEFINE r == [gAllDevices[d] EXCEPT !["attachedClients"] = v]
<1>1. gAllDevices[d] \in DeviceRecord
  BY DeviceFacts
<1>2. /\ r \in DeviceRecord /\ r.attachedClients = v
      /\ r.slot = gAllDevices[d].slot /\ r.id = gAllDevices[d].id /\ r.shape = gAllDevices[d].shape
      /\ r.active = gAllDevices[d].active
      /\ r.deletePending = gAllDevices[d].deletePending /\ r.runningClients = gAllDevices[d].runningClients
  BY <1>1 DEF DeviceRecord
<1>3. gAllDevices' = [gAllDevices EXCEPT ![d] = r]
  BY DEF Update
<1> HIDE DEF r
<1>4. /\ gAllDevices' \in Seq(DeviceRecord) /\ Len(gAllDevices') = Len(gAllDevices) /\ gAllDevices'[d] = r
      /\ \A e \in Made : e # d => gAllDevices'[e] = gAllDevices[e]
  BY <1>2, <1>3 DEF Types, Made
<1> QED
  BY <1>2, <1>4 DEF Lasting, SameMarks

\* A store of runningClients.
LEMMA RunFacts ==
  ASSUME Types, NEW d \in Made, NEW v \in Nat, Update(d, "runningClients", v)
  PROVE  /\ Lasting /\ SameMarks
         /\ gAllDevices'[d].runningClients = v
         /\ \A e \in Made :
              /\ e # d => gAllDevices'[e].runningClients = gAllDevices[e].runningClients
              /\ gAllDevices'[e].attachedClients = gAllDevices[e].attachedClients
<1> DEFINE r == [gAllDevices[d] EXCEPT !["runningClients"] = v]
<1>1. gAllDevices[d] \in DeviceRecord
  BY DeviceFacts
<1>2. /\ r \in DeviceRecord /\ r.runningClients = v
      /\ r.slot = gAllDevices[d].slot /\ r.id = gAllDevices[d].id /\ r.shape = gAllDevices[d].shape
      /\ r.active = gAllDevices[d].active
      /\ r.deletePending = gAllDevices[d].deletePending /\ r.attachedClients = gAllDevices[d].attachedClients
  BY <1>1 DEF DeviceRecord
<1>3. gAllDevices' = [gAllDevices EXCEPT ![d] = r]
  BY DEF Update
<1> HIDE DEF r
<1>4. /\ gAllDevices' \in Seq(DeviceRecord) /\ Len(gAllDevices') = Len(gAllDevices) /\ gAllDevices'[d] = r
      /\ \A e \in Made : e # d => gAllDevices'[e] = gAllDevices[e]
  BY <1>2, <1>3 DEF Types, Made
<1> QED
  BY <1>2, <1>4 DEF Lasting, SameMarks

\* The thread t is in the call c after the step, and no other thread has moved.
CallRecord == [op : Ops, device : Nat, position : Nat]
Moves(t, c) ==
  /\ c \in CallRecord /\ call' \in [Threads -> CallRecord]
  /\ call'[t] = c /\ \A u \in Threads : u # t => call'[u] = call[u]

\* A call begins, goes on or ends.
LEMMA CallFacts ==
  ASSUME Types, NEW t \in Threads, NEW c \in CallRecord, call' = [call EXCEPT ![t] = c]
  PROVE  Moves(t, c)
  BY DEF Types, CallRecord, Moves

\* The record of a call that begins, and of none.
LEMMA CallRecords ==
  /\ Idle \in CallRecord /\ Idle.op = "idle" /\ Idle.device = Null /\ Idle.position = 0
  /\ \A op \in Ops, d \in Nat, p \in Nat :
       LET c == [op |-> op, device |-> d, position |-> p]
       IN  c \in CallRecord /\ c.op = op /\ c.device = d /\ c.position = p
<1>1. "idle" \in Ops
  BY DEF Ops
<1> QED
  BY <1>1 DEF CallRecord, Idle, Null

-----------------------------------------------------------------------------
(* The list and the storage *)

\* Nobody else writes while one thread does.
LEMMA OneWriter ==
  ASSUME Types, Locking
  PROVE  /\ gStateMutex # NoThread => gStateMutex \in Threads /\ call[gStateMutex].op \in Writing
         /\ \A t \in Threads : call[t].op \in Writing => gStateMutex = t /\ t # NoThread
         /\ Unlocked => \A t \in Threads : call[t].op \notin Writing
  BY DriverAssumption DEF Types, Locking, Unlocked

\* What the list, the list with the device in removal and the list in storage consist of.
LEMMA RosterFacts ==
  ASSUME IndInv
  PROVE  /\ Roster \in Seq(Nat) /\ \A k \in 1..Len(Roster) : Roster[k] \in Made
         /\ Saved \in Seq(Nat) /\ \A k \in 1..Len(Saved) : Saved[k] \in Made
         /\ Len(Saved) \in Nat /\ Len(Roster) \in Nat /\ Len(Saved) <= Len(Roster)
         /\ Unlocked => Roster = gActiveDevices /\ Saved = gActiveDevices
         /\ \A t \in Threads : call[t].op = "persist_add" =>
              Roster = gActiveDevices /\ Saved = Front(gActiveDevices)
         /\ \A t \in Threads : call[t].op = "persist_remove" =>
              /\ Saved = Roster /\ Roster = InsertAt(gActiveDevices, call[t].position, It(t))
              /\ Inserted(Roster, gActiveDevices, call[t].position, It(t))
<1>1. /\ gActiveDevices \in Seq(Nat) /\ Len(gActiveDevices) \in Nat
      /\ \A k \in 1..Len(gActiveDevices) : gActiveDevices[k] \in Made
      /\ \A d \in Made : d \in Nat
  BY DeviceFacts DEF IndInv, Types
<1>2. "persist_add" \in Writing /\ "persist_remove" \in Writing /\ "persist_add" # "persist_remove"
  BY DEF Writing
<1>3. CASE Unlocked
  <2>1. Roster = gActiveDevices /\ Saved = gActiveDevices
    BY <1>3 DEF Unlocked, Roster, Saved
  <2>2. \A t \in Threads : call[t].op # "persist_add" /\ call[t].op # "persist_remove"
    BY <1>2, <1>3, OneWriter DEF IndInv
  <2> QED BY <1>1, <2>1, <2>2
<1>4. ASSUME NEW t \in Threads, gStateMutex = t, call[t].op = "persist_add"
      PROVE  /\ Roster = gActiveDevices /\ Saved = Front(gActiveDevices)
             /\ Saved \in Seq(Nat) /\ Len(Saved) = Len(gActiveDevices) - 1 /\ Len(gActiveDevices) >= 1
             /\ \A k \in 1..Len(Saved) : Saved[k] \in Made
  <2>1. t # NoThread
    BY DriverAssumption
  <2>2. Roster = gActiveDevices /\ Saved = Front(gActiveDevices)
    BY <1>2, <1>4, <2>1 DEF Roster, Saved
  <2>3. Len(gActiveDevices) >= 1
    BY <1>4 DEF IndInv, InHand
  <2>4. /\ Front(gActiveDevices) \in Seq(Nat) /\ Len(Front(gActiveDevices)) = Len(gActiveDevices) - 1
        /\ \A k \in 1..(Len(gActiveDevices) - 1) : Front(gActiveDevices)[k] = gActiveDevices[k]
    BY <1>1, <2>3, FrontFacts
  <2>5. \A k \in 1..(Len(gActiveDevices) - 1) : k \in 1..Len(gActiveDevices)
    BY <1>1
  <2> QED BY <1>1, <2>2, <2>3, <2>4, <2>5
<1>5. ASSUME NEW t \in Threads, gStateMutex = t, call[t].op = "persist_remove"
      PROVE  /\ Saved = Roster /\ Roster = InsertAt(gActiveDevices, call[t].position, It(t))
             /\ Inserted(Roster, gActiveDevices, call[t].position, It(t))
             /\ Roster \in Seq(Nat) /\ \A k \in 1..Len(Roster) : Roster[k] \in Made
  <2>1. t # NoThread
    BY DriverAssumption
  <2>2. Saved = Roster /\ Roster = InsertAt(gActiveDevices, call[t].position, It(t))
    BY <1>2, <1>5, <2>1 DEF Roster, Saved
  <2>3. call[t].position \in 1..(Len(gActiveDevices) + 1) /\ It(t) \in Made
    BY <1>5 DEF IndInv, InHand, Calls
  <2>4. Inserted(Roster, gActiveDevices, call[t].position, It(t))
    BY <1>1, <2>2, <2>3, InsertFacts
  <2>5. Roster \in Seq(Nat) /\ Len(Roster) = Len(gActiveDevices) + 1
    BY <2>4 DEF Inserted
  <2>6. ASSUME NEW k \in 1..(Len(gActiveDevices) + 1) PROVE Roster[k] \in Made
    <3> DEFINE p == call[t].position
    <3>1. Roster[k] = IF k < p THEN gActiveDevices[k] ELSE IF k = p THEN It(t) ELSE gActiveDevices[k - 1]
      BY <2>4 DEF Inserted
    <3>2. p \in 1..(Len(gActiveDevices) + 1)
      BY <2>3
    <3> HIDE DEF p
    <3>3. (k < p => k \in 1..Len(gActiveDevices)) /\ (~(k < p) /\ k # p => k - 1 \in 1..Len(gActiveDevices))
      BY <1>1, <3>2
    <3> QED BY <1>1, <2>3, <3>1, <3>3
  <2> QED BY <2>2, <2>4, <2>5, <2>6
<1>6. CASE ~Unlocked
  <2>1. gStateMutex \in Threads /\ call[gStateMutex].op \in Writing
    BY <1>6, OneWriter DEF IndInv, Unlocked
  <2>2. \A t \in Threads : call[t].op \in Writing => t = gStateMutex
    BY OneWriter DEF IndInv
  <2>3. CASE call[gStateMutex].op = "persist_add"
    <3>1. /\ Roster = gActiveDevices /\ Saved = Front(gActiveDevices)
          /\ Saved \in Seq(Nat) /\ Len(Saved) = Len(gActiveDevices) - 1 /\ Len(gActiveDevices) >= 1
          /\ \A k \in 1..Len(Saved) : Saved[k] \in Made
      BY <1>4, <2>1, <2>3
    <3>2. Len(Saved) \in Nat /\ Len(Saved) <= Len(Roster)
      BY <1>1, <3>1
    <3> QED BY <1>1, <1>2, <1>6, <2>2, <2>3, <3>1, <3>2
  <2>4. CASE call[gStateMutex].op = "persist_remove"
    <3>1. /\ Saved = Roster
          /\ Roster = InsertAt(gActiveDevices, call[gStateMutex].position, It(gStateMutex))
          /\ Inserted(Roster, gActiveDevices, call[gStateMutex].position, It(gStateMutex))
          /\ Roster \in Seq(Nat) /\ \A k \in 1..Len(Roster) : Roster[k] \in Made
      BY <1>5, <2>1, <2>4
    <3>2. Len(Roster) \in Nat
      BY <3>1
    <3> QED BY <1>2, <1>6, <2>2, <2>4, <3>1, <3>2
  <2> QED BY <2>1, <2>3, <2>4 DEF Writing
<1> QED
  BY <1>3, <1>6

\* A step of a thread that is not writing leaves what the others are writing.
LEMMA Quiet ==
  ASSUME IndInv, NEW t \in Threads, NEW c, Moves(t, c),
         call[t].op \notin Writing, c.op \notin Writing, UNCHANGED <<gActiveDevices, gStateMutex>>
  PROVE  Roster' = Roster /\ Saved' = Saved /\ Locking'
<1>1. gStateMutex # NoThread => call'[gStateMutex] = call[gStateMutex]
  BY OneWriter DEF IndInv, Moves
<1>2. Roster' = Roster
  BY <1>1 DEF Roster, It
<1>3. Saved' = Saved
  BY <1>1, <1>2 DEF Saved
<1>4. Locking'
  BY OneWriter DEF IndInv, Locking, Moves
<1> QED
  BY <1>2, <1>3, <1>4

\* The inventory of a list of lasting devices.
LEMMA SameInventory ==
  ASSUME Lasting, NEW list \in Seq(Nat), \A k \in 1..Len(list) : list[k] \in Made
  PROVE  InventoryOf(gAllDevices', list) = InventoryOf(gAllDevices, list)
  BY DEF Lasting, InventoryOf

-----------------------------------------------------------------------------
(* Steps that leave list and storage alone *)

\* Slots are kept, or given up by devices that nobody uses any more.
SlotsGivenUp ==
  /\ gSlots' \in [Slots -> Nat]
  /\ \A s \in Slots :
       \/ gSlots'[s] = gSlots[s]
       \/ /\ gSlots'[s] = Null /\ gSlots[s] \in Made /\ ~gAllDevices'[gSlots[s]].active
          /\ gAllDevices'[gSlots[s]].attachedClients = 0

\* A call that is well-formed after the step.
Wellformed(c) == (c.op = "idle" => c = Idle) /\ (c.op # "idle" => c.device \in Made)

\* The thread t moves to the call c; the list, the mutex and the storage stay.
Minor(t, c) ==
  /\ Lasting /\ SlotsGivenUp /\ Moves(t, c) /\ Wellformed(c)
  /\ call[t].op \notin Writing /\ c.op \notin Writing
  /\ changes' \subseteq Made
  /\ UNCHANGED <<gActiveDevices, gStateMutex, storage, promised, restarts>>

\* The parts of the invariant that such a step keeps whatever else it does.
LEMMA MinorStep ==
  ASSUME IndInv, NEW t \in Threads, NEW c, Minor(t, c)
  PROVE  /\ Types' /\ Calls' /\ Locking' /\ Slotted' /\ Rostered' /\ Stored' /\ CreatedSurvive'
         /\ Made' = Made
<1>1. Made' = Made
  BY DEF Minor, Lasting, Made
<1>2. Roster' = Roster /\ Saved' = Saved /\ Locking'
  BY Quiet DEF Minor
<1>3. /\ Roster \in Seq(Nat) /\ \A k \in 1..Len(Roster) : Roster[k] \in Made
      /\ Saved \in Seq(Nat) /\ \A k \in 1..Len(Saved) : Saved[k] \in Made
  BY RosterFacts
<1>4. Types'
  BY <1>1 DEF IndInv, Types, Minor, Lasting, SlotsGivenUp, Moves, CallRecord
<1>5. Calls'
  BY <1>1 DEF IndInv, Calls, Minor, Moves, Wellformed, It
<1>6. Slotted'
  BY <1>1 DEF IndInv, Slotted, Minor, Lasting, SlotsGivenUp
<1>7. Rostered'
  <2>1. ASSUME NEW k \in 1..Len(Roster)
        PROVE  gAllDevices'[Roster[k]].active /\ gSlots'[gAllDevices'[Roster[k]].slot] = Roster[k]
    <3>1. /\ Roster[k] \in Made /\ gAllDevices[Roster[k]].active /\ gSlots[gAllDevices[Roster[k]].slot] = Roster[k]
          /\ gAllDevices[Roster[k]].slot \in Slots
      BY <1>3, DeviceFacts DEF IndInv, Rostered, Holds
    <3>2. gAllDevices'[Roster[k]].active /\ gAllDevices'[Roster[k]].slot = gAllDevices[Roster[k]].slot
      BY <3>1 DEF Minor, Lasting
    <3> QED BY <3>1, <3>2 DEF Minor, SlotsGivenUp
  <2>2. \A j, k \in 1..Len(Roster) : gAllDevices'[Roster[j]].id = gAllDevices'[Roster[k]].id => j = k
    BY <1>3 DEF IndInv, Rostered, Minor, Lasting
  <2> QED BY <1>2, <2>1, <2>2 DEF Rostered, Holds
<1>8. Stored'
  BY <1>2, <1>3, SameInventory DEF IndInv, Stored, Minor
<1>9. CreatedSurvive'
  BY DEF IndInv, CreatedSurvive, Minor
<1> QED
  BY <1>1, <1>2, <1>4, <1>5, <1>6, <1>7, <1>8, <1>9

\* What is said of clients is kept if no client comes or goes and no slot is given up.
LEMMA ClientsKept ==
  ASSUME IndInv, NEW t \in Threads, NEW c, Minor(t, c), SameClients, UNCHANGED gSlots
  PROVE  InHand' /\ RunningIsActive' /\ AttachedKeepSlot'
<1>1. Made' = Made
  BY DEF Minor, Lasting, Made
<1>2. InHand'
  <2> SUFFICES ASSUME NEW u \in Threads, call'[u].op \in Writing
               PROVE  call'[u] = call[u] /\ call[u].device \in Made /\ gActiveDevices' = gActiveDevices
    BY DEF InHand, IndInv, Writing, It, SameClients
  <2>1. u # t
    BY DEF Minor, Moves
  <2>2. call'[u] = call[u] /\ gActiveDevices' = gActiveDevices
    BY <2>1 DEF Minor, Moves
  <2>3. call[u].device \in Made
    BY <2>2 DEF IndInv, Calls, It, Writing
  <2> QED BY <2>2, <2>3
<1>3. RunningIsActive'
  BY <1>1 DEF IndInv, RunningIsActive, SameClients, Minor, Lasting
<1>4. AttachedKeepSlot'
  BY <1>1 DEF IndInv, AttachedKeepSlot, SameClients, Minor, Lasting
<1> QED
  BY <1>2, <1>3, <1>4

\* A device that is about to be given up still is, unless the step ends that.
LEMMA RetiringKept ==
  ASSUME IndInv, NEW t \in Threads, NEW c, Minor(t, c), SameClients, UNCHANGED gSlots, call[t].op # "retire"
  PROVE  Retiring'
<1> SUFFICES ASSUME NEW s \in Slots, gSlots[s] # Null
             PROVE  \/ gAllDevices'[gSlots[s]].active \/ gAllDevices'[gSlots[s]].attachedClients > 0
                    \/ \E u \in Threads : call'[u].op = "retire" /\ call'[u].device = gSlots[s]
  BY DEF Retiring, It
<1>1. gSlots[s] \in Made
  BY DEF IndInv, Slotted
<1>2. CASE gAllDevices[gSlots[s]].active \/ gAllDevices[gSlots[s]].attachedClients > 0
  BY <1>1, <1>2 DEF Minor, Lasting, SameClients
<1>3. CASE \E u \in Threads : call[u].op = "retire" /\ It(u) = gSlots[s]
  BY <1>3 DEF Minor, Moves, It
<1> QED
  BY <1>2, <1>3 DEF IndInv, Retiring

\* The deletions of devices that the step is not about.
LEMMA OwnersKept ==
  ASSUME IndInv, NEW t \in Threads, NEW c, Minor(t, c), NEW d \in Made, Holds(d)',
         It(t) # d \/ call[t].op \notin Owning, c.device # d \/ c.op \notin Owning,
         gAllDevices'[d].deletePending = gAllDevices[d].deletePending, d \in changes' <=> d \in changes
  PROVE  /\ \A u, v \in Threads : Owns(u, d)' /\ Owns(v, d)' => u = v
         /\ d \in changes' => \A u \in Threads : ~Owns(u, d)'
         /\ gAllDevices'[d].deletePending <=> d \in changes' \/ \E u \in Threads : Owns(u, d)'
<1>1. Holds(d)
  <2>1. gAllDevices'[d].slot = gAllDevices[d].slot /\ gAllDevices[d].slot \in Slots /\ d # Null
    BY DeviceFacts DEF Minor, Lasting, IndInv
  <2> QED BY <2>1 DEF Holds, Minor, SlotsGivenUp
<1>2. \A u \in Threads : Owns(u, d)' <=> Owns(u, d)
  BY DEF Minor, Moves, Owns, It
<1> QED
  BY <1>1, <1>2 DEF IndInv, OneOwner

\* A call ends.
LEMMA ReturnFacts ==
  ASSUME Types, NEW t \in Threads, Return(t)
  PROVE  Moves(t, Idle) /\ Wellformed(Idle) /\ Idle.op = "idle" /\ Idle.device = Null
  BY CallFacts, CallRecords DEF Return, Wellformed

\* A call begins, with a Device that was made.
LEMMA EnterFacts ==
  ASSUME Types, NEW t \in Threads, NEW op \in Ops, NEW d \in Made, op # "idle", Enter(t, op, d)
  PROVE  LET c == [op |-> op, device |-> d, position |-> 0]
         IN  /\ call[t] = Idle /\ Idle.op = "idle" /\ Idle.device = Null
             /\ Moves(t, c) /\ Wellformed(c) /\ c.op = op /\ c.device = d
<1> DEFINE c == [op |-> op, device |-> d, position |-> 0]
<1>1. d \in Nat /\ 0 \in Nat
  BY DeviceFacts
<1>2. c \in CallRecord /\ c.op = op /\ c.device = d
  BY <1>1, CallRecords
<1>3. call[t] = Idle /\ call' = [call EXCEPT ![t] = c]
  BY DEF Enter
<1> HIDE DEF c
<1>4. Moves(t, c) /\ Wellformed(c)
  BY <1>2, <1>3, CallFacts DEF Wellformed
<1> QED
  BY <1>2, <1>3, <1>4, CallRecords DEF c

\* Slots that stay are trivially not given up wrongly.
LEMMA SlotsKept ==
  ASSUME Types, UNCHANGED gSlots
  PROVE  SlotsGivenUp
  BY DEF Types, SlotsGivenUp

\* The names of the calls.
LEMMA OpNames ==
  /\ ObjectCalls \subseteq Ops /\ Writing \subseteq Ops /\ Owning \subseteq Ops /\ "retire" \in Ops /\ "idle" \in Ops
  /\ \A op \in ObjectCalls : op \notin Writing /\ op \notin Owning /\ op # "idle" /\ op # "retire"
  /\ \A op \in Owning : op \notin Writing /\ op # "idle" /\ op # "retire"
  /\ \A op \in Writing : op \notin Owning /\ op # "idle" /\ op # "retire"
  /\ "idle" \notin Writing /\ "idle" \notin Owning /\ "retire" \notin Writing /\ "retire" \notin Owning
  /\ "idle" # "retire"
  BY DEF Ops, ObjectCalls, Writing, Owning

\* DeviceForObject: a slot is read, and nothing else happens.
LEMMA DeviceForObjectStep ==
  ASSUME IndInv, NEW t \in Threads, NEW op \in ObjectCalls, NEW s \in Slots, DeviceForObject(t, op, s)
  PROVE  IndInv'
<1> DEFINE c == [op |-> op, device |-> gSlots[s], position |-> 0]
<1>1. /\ gSlots[s] # Null /\ Enter(t, op, gSlots[s])
      /\ UNCHANGED <<gAllDevices, gActiveDevices, gSlots, gStateMutex, storage, changes, restarts, promised>>
  BY DEF DeviceForObject, memory, history
<1>2. gSlots[s] \in Made /\ Types
  BY <1>1 DEF IndInv, Slotted
<1>3. /\ call[t] = Idle /\ call[t].op = "idle" /\ It(t) = Null /\ Moves(t, c) /\ Wellformed(c)
      /\ c.op = op /\ c.device = gSlots[s]
  BY <1>1, <1>2, OpNames, EnterFacts DEF It
<1> HIDE DEF c
<1>4. Lasting /\ SameClients /\ SameMarks /\ SlotsGivenUp
  BY <1>1, <1>2, SameDevices, SlotsKept
<1>5. Minor(t, c)
  BY <1>1, <1>2, <1>3, <1>4, OpNames DEF Minor, Types
<1>6. InHand' /\ RunningIsActive' /\ AttachedKeepSlot' /\ Retiring'
  BY <1>1, <1>3, <1>4, <1>5, ClientsKept, RetiringKept, OpNames
<1>7. OneOwner'
  <2> SUFFICES ASSUME NEW d \in Made, Holds(d)'
               PROVE  /\ \A u, v \in Threads : Owns(u, d)' /\ Owns(v, d)' => u = v
                      /\ d \in changes' => \A u \in Threads : ~Owns(u, d)'
                      /\ gAllDevices'[d].deletePending <=> d \in changes' \/ \E u \in Threads : Owns(u, d)'
    BY <1>5, MinorStep DEF OneOwner
  <2> QED BY <1>1, <1>3, <1>4, <1>5, OwnersKept, OpNames DEF SameMarks
<1> QED
  BY <1>5, <1>6, <1>7, MinorStep DEF IndInv

\* The owner of a deletion, and that it is the only one.
LEMMA OwnerAlone ==
  ASSUME IndInv, NEW t \in Threads, call[t].op \in Owning
  PROVE  /\ It(t) \in Made /\ It(t) # Null
         /\ Holds(It(t)) => /\ It(t) \notin changes /\ gAllDevices[It(t)].deletePending
                            /\ \A u \in Threads : u # t => ~Owns(u, It(t))
<1>1. It(t) \in Made /\ It(t) # Null
  BY OpNames, DeviceFacts DEF IndInv, Calls
<1>2. Owns(t, It(t))
  BY DEF Owns
<1> QED
  BY <1>1, <1>2 DEF IndInv, OneOwner

\* The host accepts the configuration change: it owns the deletion now.
LEMMA RequestChangeStep ==
  ASSUME IndInv, NEW t \in Threads, RequestChange(t)
  PROVE  IndInv'
<1>1. /\ call[t].op = "request" /\ call[t].op \in Owning /\ changes' = changes \cup {It(t)} /\ Return(t) /\ Types
      /\ UNCHANGED <<gAllDevices, gActiveDevices, gSlots, gStateMutex, storage, restarts, promised>>
  BY DEF RequestChange, memory, history, IndInv, Owning
<1>2. Moves(t, Idle) /\ Wellformed(Idle) /\ Idle.op = "idle" /\ Idle.device = Null
  BY <1>1, ReturnFacts
<1>3. Lasting /\ SameClients /\ SameMarks /\ SlotsGivenUp
  BY <1>1, SameDevices, SlotsKept
<1>4. It(t) \in Made /\ It(t) # Null
  BY <1>1, OwnerAlone
<1>5. Minor(t, Idle)
  BY <1>1, <1>2, <1>3, <1>4, OpNames DEF Minor, Types
<1>6. InHand' /\ RunningIsActive' /\ AttachedKeepSlot' /\ Retiring'
  BY <1>1, <1>3, <1>5, ClientsKept, RetiringKept, OpNames
<1>7. OneOwner'
  <2> SUFFICES ASSUME NEW d \in Made, Holds(d)'
               PROVE  /\ \A u, v \in Threads : Owns(u, d)' /\ Owns(v, d)' => u = v
                      /\ d \in changes' => \A u \in Threads : ~Owns(u, d)'
                      /\ gAllDevices'[d].deletePending <=> d \in changes' \/ \E u \in Threads : Owns(u, d)'
    BY <1>5, MinorStep DEF OneOwner
  <2>1. CASE d # It(t)
    BY <1>1, <1>2, <1>3, <1>5, <2>1, OwnersKept, OpNames DEF SameMarks
  <2>2. CASE d = It(t)
    <3>1. Holds(It(t))
      BY <1>1, <2>2 DEF Holds
    <3>2. gAllDevices[d].deletePending /\ \A u \in Threads : u # t => ~Owns(u, d)
      BY <1>1, <2>2, <3>1, OwnerAlone
    <3>3. \A u \in Threads : ~Owns(u, d)'
      BY <1>2, <2>2, <3>2, OpNames DEF Owns, It, Moves
    <3> QED BY <1>1, <2>2, <3>2, <3>3
  <2> QED BY <2>1, <2>2
<1> QED
  BY <1>5, <1>6, <1>7, MinorStep DEF IndInv

\* The deletion is refused or aborted: mark and owner go together.
LEMMA UnmarkStep ==
  ASSUME IndInv, NEW t \in Threads, RequestChangeFailed(t) \/ Abort(t)
  PROVE  IndInv'
<1>1. /\ call[t].op \in Owning /\ Update(It(t), "deletePending", FALSE) /\ Return(t) /\ Types
      /\ UNCHANGED <<gActiveDevices, gSlots, gStateMutex, storage, changes, restarts, promised>>
  BY DEF RequestChangeFailed, Abort, history, IndInv, Owning
<1>2. Moves(t, Idle) /\ Wellformed(Idle) /\ Idle.op = "idle" /\ Idle.device = Null
  BY <1>1, ReturnFacts
<1>3. It(t) \in Made /\ It(t) # Null
  BY <1>1, OwnerAlone
<1>4. /\ Lasting /\ SameClients /\ SlotsGivenUp /\ gAllDevices'[It(t)].deletePending = FALSE
      /\ \A e \in Made : e # It(t) => gAllDevices'[e].deletePending = gAllDevices[e].deletePending
  BY <1>1, <1>3, MarkFacts, SlotsKept
<1>5. Minor(t, Idle)
  BY <1>1, <1>2, <1>4, OpNames DEF Minor, Types
<1>6. InHand' /\ RunningIsActive' /\ AttachedKeepSlot' /\ Retiring'
  BY <1>1, <1>4, <1>5, ClientsKept, RetiringKept, OpNames
<1>7. OneOwner'
  <2> SUFFICES ASSUME NEW d \in Made, Holds(d)'
               PROVE  /\ \A u, v \in Threads : Owns(u, d)' /\ Owns(v, d)' => u = v
                      /\ d \in changes' => \A u \in Threads : ~Owns(u, d)'
                      /\ gAllDevices'[d].deletePending <=> d \in changes' \/ \E u \in Threads : Owns(u, d)'
    BY <1>5, MinorStep DEF OneOwner
  <2>1. CASE d # It(t)
    BY <1>1, <1>2, <1>4, <1>5, <2>1, OwnersKept, OpNames
  <2>2. CASE d = It(t)
    <3>1. Holds(It(t))
      BY <1>1, <1>3, <1>4, <2>2 DEF Holds, Lasting
    <3>2. d \notin changes /\ \A u \in Threads : u # t => ~Owns(u, d)
      BY <1>1, <2>2, <3>1, OwnerAlone
    <3>3. \A u \in Threads : ~Owns(u, d)'
      BY <1>2, <2>2, <3>2, OpNames DEF Owns, It, Moves
    <3> QED BY <1>1, <1>4, <2>2, <3>2, <3>3
  <2> QED BY <2>1, <2>2
<1> QED
  BY <1>5, <1>6, <1>7, MinorStep DEF IndInv

\* A device of the list is active and has its slot, whatever is being written.
LEMMA ListedFacts ==
  ASSUME IndInv, NEW k \in 1..Len(gActiveDevices)
  PROVE  /\ \E j \in 1..Len(Roster) : gActiveDevices[k] = Roster[j]
         /\ gActiveDevices[k] \in Made /\ gAllDevices[gActiveDevices[k]].active /\ Holds(gActiveDevices[k])
<1>1. \E j \in 1..Len(Roster) : gActiveDevices[k] = Roster[j]
  <2>1. CASE Unlocked
    BY <2>1, RosterFacts
  <2>2. CASE ~Unlocked
    <3>1. PICK t \in Threads : call[t].op \in Writing
      BY <2>2, OneWriter DEF IndInv, Unlocked
    <3>2. CASE call[t].op = "persist_add"
      BY <3>2, RosterFacts
    <3>3. CASE call[t].op = "persist_remove"
      <4> DEFINE p == call[t].position
                 j == IF k < p THEN k ELSE k + 1
      <4>1. Inserted(Roster, gActiveDevices, p, It(t)) /\ p \in 1..(Len(gActiveDevices) + 1)
        BY <3>3, RosterFacts DEF IndInv, InHand
      <4>2. Len(gActiveDevices) \in Nat
        BY DEF IndInv, Types
      <4> HIDE DEF p
      <4>3. /\ j \in 1..(Len(gActiveDevices) + 1)
            /\ (k < p => j < p /\ j = k) /\ (~(k < p) => ~(j < p) /\ j # p /\ j - 1 = k)
        BY <4>1, <4>2
      <4> HIDE DEF j
      <4>4. Roster[j] = gActiveDevices[k] /\ j \in 1..Len(Roster)
        BY <4>1, <4>3 DEF Inserted
      <4> QED BY <4>4
    <3> QED BY <3>1, <3>2, <3>3 DEF Writing
  <2> QED BY <2>1, <2>2
<1> QED
  BY <1>1, RosterFacts DEF IndInv, Rostered

\* FindByIDLocked gives a listed device of that id, if there is one.
LEMMA FoundFacts ==
  ASSUME IndInv, NEW id
  PROVE  /\ FindByIDLocked(id) # Null =>
              /\ FindByIDLocked(id) \in Made /\ gAllDevices[FindByIDLocked(id)].id = id
              /\ Holds(FindByIDLocked(id))
         /\ FindByIDLocked(id) = Null => \A k \in 1..Len(gActiveDevices) : gAllDevices[gActiveDevices[k]].id # id
<1> DEFINE found == {d \in Range(gActiveDevices) : gAllDevices[d].id = id}
<1>1. Range(gActiveDevices) = {gActiveDevices[k] : k \in 1..Len(gActiveDevices)}
  BY DEF Range, IndInv, Types
<1>2. \A d \in Range(gActiveDevices) : d \in Made /\ Holds(d) /\ d # Null
  <2>1. \A k \in 1..Len(gActiveDevices) : gActiveDevices[k] \in Made /\ Holds(gActiveDevices[k])
    BY ListedFacts
  <2> QED BY <1>1, <2>1, DeviceFacts DEF IndInv
<1>3. FindByIDLocked(id) = IF found = {} THEN Null ELSE CHOOSE d \in found : TRUE
  BY DEF FindByIDLocked
<1>4. CASE found = {}
  BY <1>1, <1>3, <1>4
<1>5. CASE found # {}
  <2>1. FindByIDLocked(id) \in found
    <3> HIDE DEF found
    <3> QED BY <1>3, <1>5
  <2> QED BY <1>2, <2>1
<1> QED
  BY <1>4, <1>5

\* A delete command marks a device that has no owner yet and becomes the owner.
LEMMA AskDeleteStep ==
  ASSUME IndInv, NEW t \in Threads, NEW id \in Ids, AskDelete(t, id)
  PROVE  IndInv'
<1>0. FindByIDLocked(id) # Null
  BY DEF AskDelete
<1>1. PICK d \in Made : d = FindByIDLocked(id) /\ Holds(d)
  BY <1>0, FoundFacts
<1>2. /\ ~gAllDevices[d].deletePending /\ Update(d, "deletePending", TRUE)
      /\ Enter(t, "request", d) /\ Types /\ "request" \in Owning
      /\ UNCHANGED <<gActiveDevices, gSlots, gStateMutex, storage, changes, restarts, promised>>
  BY <1>1 DEF AskDelete, history, IndInv, Owning
<1> DEFINE c == [op |-> "request", device |-> d, position |-> 0]
<1>3. /\ call[t] = Idle /\ call[t].op = "idle" /\ It(t) = Null /\ Moves(t, c) /\ Wellformed(c)
      /\ c.op = "request" /\ c.device = d
  BY <1>2, OpNames, EnterFacts DEF It
<1> HIDE DEF c
<1>4. /\ Lasting /\ SameClients /\ SlotsGivenUp /\ gAllDevices'[d].deletePending = TRUE
      /\ \A e \in Made : e # d => gAllDevices'[e].deletePending = gAllDevices[e].deletePending
  BY <1>2, MarkFacts, SlotsKept
<1>5. Minor(t, c)
  BY <1>2, <1>3, <1>4, OpNames DEF Minor, Types
<1>6. InHand' /\ RunningIsActive' /\ AttachedKeepSlot' /\ Retiring'
  BY <1>2, <1>3, <1>4, <1>5, ClientsKept, RetiringKept, OpNames
<1>7. OneOwner'
  <2> SUFFICES ASSUME NEW e \in Made, Holds(e)'
               PROVE  /\ \A u, v \in Threads : Owns(u, e)' /\ Owns(v, e)' => u = v
                      /\ e \in changes' => \A u \in Threads : ~Owns(u, e)'
                      /\ gAllDevices'[e].deletePending <=> e \in changes' \/ \E u \in Threads : Owns(u, e)'
    BY <1>5, MinorStep DEF OneOwner
  <2>1. CASE e # d
    BY <1>2, <1>3, <1>4, <1>5, <2>1, OwnersKept, OpNames
  <2>2. CASE e = d
    <3>1. d \notin changes /\ \A u \in Threads : ~Owns(u, d)
      BY <1>1, <1>2 DEF IndInv, OneOwner
    <3>2. \A u \in Threads : Owns(u, d)' <=> u = t
      BY <1>2, <1>3, <3>1 DEF Owns, It, Moves
    <3> QED BY <1>2, <1>4, <2>2, <3>1, <3>2
  <2> QED BY <2>1, <2>2
<1> QED
  BY <1>5, <1>6, <1>7, MinorStep DEF IndInv

\* The host's decision hands the deletion to the call that performs or aborts it.
LEMMA DecideStep ==
  ASSUME IndInv, NEW t \in Threads, NEW d \in changes, NEW op \in {"perform", "abort"}, DecideChange(t, d, op)
  PROVE  IndInv'
<1>1. /\ changes' = changes \ {d} /\ Types /\ d \in Made /\ op \in Owning
      /\ IF Holds(d) THEN Enter(t, op, d) ELSE call[t] = Idle /\ UNCHANGED call
      /\ UNCHANGED <<gAllDevices, gActiveDevices, gSlots, gStateMutex, storage, restarts, promised>>
  BY DEF DecideChange, memory, history, IndInv, Types, Holds, Owning
<1>2. Lasting /\ SameClients /\ SameMarks /\ SlotsGivenUp
  BY <1>1, SameDevices, SlotsKept
<1>3. CASE Holds(d)
  <2> DEFINE c == [op |-> op, device |-> d, position |-> 0]
  <2>1. /\ call[t] = Idle /\ call[t].op = "idle" /\ It(t) = Null /\ Moves(t, c) /\ Wellformed(c)
        /\ c.op = op /\ c.device = d
    BY <1>1, <1>3, OpNames, EnterFacts DEF It
  <2> HIDE DEF c
  <2>2. Minor(t, c)
    BY <1>1, <1>2, <2>1, OpNames DEF Minor, Types
  <2>3. InHand' /\ RunningIsActive' /\ AttachedKeepSlot' /\ Retiring'
    BY <1>1, <1>2, <2>1, <2>2, ClientsKept, RetiringKept, OpNames
  <2>4. OneOwner'
    <3> SUFFICES ASSUME NEW e \in Made, Holds(e)'
                 PROVE  /\ \A u, v \in Threads : Owns(u, e)' /\ Owns(v, e)' => u = v
                        /\ e \in changes' => \A u \in Threads : ~Owns(u, e)'
                        /\ gAllDevices'[e].deletePending <=> e \in changes' \/ \E u \in Threads : Owns(u, e)'
      BY <2>2, MinorStep DEF OneOwner
    <3>1. CASE e # d
      BY <1>1, <1>2, <2>1, <2>2, <3>1, OwnersKept, OpNames DEF SameMarks
    <3>2. CASE e = d
      <4>1. gAllDevices[d].deletePending /\ \A u \in Threads : ~Owns(u, d)
        BY <1>1, <1>3 DEF IndInv, OneOwner
      <4>2. \A u \in Threads : Owns(u, d)' <=> u = t
        BY <1>1, <2>1, <4>1 DEF Owns, It, Moves
      <4> QED BY <1>1, <3>2, <4>1, <4>2
    <3> QED BY <3>1, <3>2
  <2> QED BY <2>2, <2>3, <2>4, MinorStep DEF IndInv
<1>4. CASE ~Holds(d)
  <2>1. call[t] = Idle /\ call' = call
    BY <1>1, <1>4
  <2>2. /\ Moves(t, Idle) /\ Wellformed(Idle) /\ Idle.op = "idle" /\ Idle.device = Null
        /\ call[t].op = "idle" /\ It(t) = Null
    BY <1>1, <2>1, CallRecords DEF Moves, Wellformed, Types, CallRecord, It
  <2>3. Minor(t, Idle)
    BY <1>1, <1>2, <2>1, <2>2, OpNames DEF Minor, Types
  <2>4. InHand' /\ RunningIsActive' /\ AttachedKeepSlot' /\ Retiring'
    BY <1>1, <1>2, <2>2, <2>3, ClientsKept, RetiringKept, OpNames
  <2>5. OneOwner'
    <3> SUFFICES ASSUME NEW e \in Made, Holds(e)'
                 PROVE  /\ \A u, v \in Threads : Owns(u, e)' /\ Owns(v, e)' => u = v
                        /\ e \in changes' => \A u \in Threads : ~Owns(u, e)'
                        /\ gAllDevices'[e].deletePending <=> e \in changes' \/ \E u \in Threads : Owns(u, e)'
      BY <2>3, MinorStep DEF OneOwner
    <3>1. e # d
      BY <1>1, <1>4 DEF Holds
    <3> QED BY <1>1, <1>2, <2>2, <2>3, <3>1, OwnersKept, OpNames DEF SameMarks
  <2> QED BY <2>3, <2>4, <2>5, MinorStep DEF IndInv
<1> QED
  BY <1>3, <1>4

-----------------------------------------------------------------------------
(* Clients and I/O *)

\* ReleaseRetiredSlotLocked gives up the slot of d if nobody uses d, and no other.
LEMMA ReleaseFacts ==
  ASSUME IndInv, Lasting, NEW d \in Made, gSlots' = ReleaseRetiredSlotLocked(gAllDevices', d)
  PROVE  /\ SlotsGivenUp
         /\ \A s \in Slots : gSlots[s] # d => gSlots'[s] = gSlots[s]
         /\ gAllDevices'[d].active \/ gAllDevices'[d].attachedClients > 0 => gSlots' = gSlots
         /\ ~gAllDevices'[d].active /\ gAllDevices'[d].attachedClients = 0 /\ gAllDevices'[d].runningClients = 0
              => \A s \in Slots : gSlots'[s] # d
<1> DEFINE r == gAllDevices'[d]
<1>1. r.slot = gAllDevices[d].slot /\ r.slot \in Slots /\ d # Null
  BY DeviceFacts DEF Lasting, IndInv
<1>2. gSlots \in [Slots -> Nat] /\ Null \in Nat
  BY DEF IndInv, Types, Null
<1>3. \A s \in Slots : gSlots[s] = d => s = r.slot
  BY <1>1 DEF IndInv, Slotted
<1>4. gSlots' = IF ~r.active /\ r.attachedClients = 0 /\ r.runningClients = 0 /\ gSlots[r.slot] = d
                THEN [gSlots EXCEPT ![r.slot] = Null] ELSE gSlots
  BY DEF ReleaseRetiredSlotLocked
<1> HIDE DEF r
<1>5. CASE ~r.active /\ r.attachedClients = 0 /\ r.runningClients = 0 /\ gSlots[r.slot] = d
  <2>1. gSlots' = [gSlots EXCEPT ![r.slot] = Null]
    BY <1>4, <1>5
  <2>2. /\ gSlots' \in [Slots -> Nat] /\ gSlots'[r.slot] = Null
        /\ \A s \in Slots : s # r.slot => gSlots'[s] = gSlots[s]
    BY <1>1, <1>2, <2>1
  <2>3. SlotsGivenUp
    <3> SUFFICES ASSUME NEW s \in Slots
                 PROVE  \/ gSlots'[s] = gSlots[s]
                        \/ /\ gSlots'[s] = Null /\ gSlots[s] \in Made /\ ~gAllDevices'[gSlots[s]].active
                           /\ gAllDevices'[gSlots[s]].attachedClients = 0
      BY <2>2 DEF SlotsGivenUp
    <3> QED BY <1>5, <2>2 DEF r
  <2>4. \A s \in Slots : gSlots'[s] # d
    BY <1>1, <1>3, <2>2
  <2>5. r.attachedClients = 0 => ~(r.attachedClients > 0)
    OBVIOUS
  <2> QED BY <1>3, <1>5, <2>2, <2>3, <2>4, <2>5 DEF r
<1>6. CASE ~(~r.active /\ r.attachedClients = 0 /\ r.runningClients = 0 /\ gSlots[r.slot] = d)
  <2>1. gSlots' = gSlots
    BY <1>4, <1>6
  <2>2. SlotsGivenUp
    BY <2>1, SlotsKept DEF IndInv
  <2>3. ~r.active /\ r.attachedClients = 0 /\ r.runningClients = 0 => \A s \in Slots : gSlots'[s] # d
    BY <1>3, <1>6, <2>1
  <2> QED BY <2>1, <2>2, <2>3 DEF r
<1> QED
  BY <1>5, <1>6

\* A call on a device has found it.
LEMMA CalledFacts ==
  ASSUME IndInv, NEW t \in Threads, call[t].op \in ObjectCalls \/ call[t].op = "retire"
  PROVE  It(t) \in Made /\ Types /\ call[t].op \notin Writing /\ call[t].op \notin Owning
  BY OpNames DEF IndInv, Calls

\* A step of a call that owns no deletion and stores no mark.
LEMMA BystanderStep ==
  ASSUME IndInv, NEW t \in Threads, Minor(t, Idle), SameMarks, UNCHANGED changes, call[t].op \notin Owning
  PROVE  OneOwner'
<1>1. Idle.op = "idle"
  BY CallRecords
<1> SUFFICES ASSUME NEW e \in Made, Holds(e)'
             PROVE  /\ \A u, v \in Threads : Owns(u, e)' /\ Owns(v, e)' => u = v
                    /\ e \in changes' => \A u \in Threads : ~Owns(u, e)'
                    /\ gAllDevices'[e].deletePending <=> e \in changes' \/ \E u \in Threads : Owns(u, e)'
  BY MinorStep DEF OneOwner
<1> QED
  BY <1>1, OwnersKept, OpNames DEF SameMarks

\* While nobody writes there is nothing in hand.
LEMMA NothingInHand ==
  ASSUME IndInv, Unlocked, NEW t \in Threads, NEW c, Minor(t, c)
  PROVE  InHand'
<1>1. \A u \in Threads : call'[u].op \notin Writing
  BY OneWriter DEF IndInv, Minor, Moves
<1> QED
  BY <1>1 DEF InHand, Writing

\* AddDeviceClient asks the slot again under the mutex before it counts the client.
LEMMA AddDeviceClientStep ==
  ASSUME IndInv, NEW t \in Threads, AddDeviceClient(t)
  PROVE  IndInv'
<1>1. /\ call[t].op = "AddDeviceClient" /\ call[t].op \in ObjectCalls /\ Unlocked /\ Return(t)
      /\ IF Holds(It(t)) THEN Bump(It(t), "attachedClients", 1) ELSE UNCHANGED gAllDevices
      /\ UNCHANGED <<gActiveDevices, gSlots, gStateMutex, storage, changes, restarts, promised>>
  BY DEF AddDeviceClient, Holds, history, ObjectCalls
<1>2. It(t) \in Made /\ Types /\ call[t].op \notin Writing /\ call[t].op \notin Owning /\ call[t].op # "retire"
  BY <1>1, CalledFacts, OpNames
<1>3. PICK d \in Made : d = It(t)
  BY <1>2
<1>4. Moves(t, Idle) /\ Wellformed(Idle) /\ Idle.op = "idle"
  BY <1>1, <1>2, ReturnFacts
<1>5. CASE ~Holds(d)
  <2>1. Lasting /\ SameClients /\ SameMarks /\ SlotsGivenUp
    BY <1>1, <1>2, <1>3, <1>5, SameDevices, SlotsKept
  <2>2. Minor(t, Idle)
    BY <1>1, <1>2, <1>4, <2>1, OpNames DEF Minor, Types
  <2>3. InHand' /\ RunningIsActive' /\ AttachedKeepSlot' /\ Retiring'
    BY <1>1, <1>2, <2>1, <2>2, ClientsKept, RetiringKept
  <2>4. OneOwner'
    BY <1>1, <1>2, <2>1, <2>2, BystanderStep
  <2> QED BY <2>2, <2>3, <2>4, MinorStep DEF IndInv
<1>6. CASE Holds(d)
  <2> DEFINE n == gAllDevices[d].attachedClients
  <2>1. Update(d, "attachedClients", n + 1) /\ n \in Nat
    BY <1>1, <1>2, <1>3, <1>6, DeviceFacts DEF Bump
  <2>2. n + 1 \in Nat
    BY <2>1
  <2> HIDE DEF n
  <2>3. /\ Lasting /\ SameMarks /\ SlotsGivenUp
        /\ gAllDevices'[d].attachedClients = n + 1
        /\ \A e \in Made :
             /\ e # d => gAllDevices'[e].attachedClients = gAllDevices[e].attachedClients
             /\ gAllDevices'[e].runningClients = gAllDevices[e].runningClients
    BY <1>1, <1>2, <2>1, <2>2, AttachFacts, SlotsKept
  <2>4. Minor(t, Idle) /\ Made' = Made
    BY <1>1, <1>2, <1>4, <2>3, OpNames DEF Minor, Types, Lasting, Made
  <2>5. InHand'
    BY <1>1, <2>4, NothingInHand
  <2>6. RunningIsActive'
    BY <2>3, <2>4 DEF IndInv, RunningIsActive, Lasting
  <2>7. AttachedKeepSlot'
    <3> SUFFICES ASSUME NEW e \in Made, gAllDevices'[e].attachedClients > 0 PROVE gSlots[gAllDevices[e].slot] = e
      BY <1>1, <2>3, <2>4 DEF AttachedKeepSlot, Lasting
    <3> QED BY <1>6, <2>3 DEF IndInv, AttachedKeepSlot, Holds
  <2>8. Retiring'
    <3> SUFFICES ASSUME NEW s \in Slots, gSlots[s] # Null
                 PROVE  \/ gAllDevices'[gSlots[s]].active \/ gAllDevices'[gSlots[s]].attachedClients > 0
                        \/ \E u \in Threads : call'[u].op = "retire" /\ call'[u].device = gSlots[s]
      BY <1>1 DEF Retiring, It
    <3>1. gSlots[s] \in Made
      BY DEF IndInv, Slotted
    <3>2. CASE gSlots[s] = d
      <4>1. n + 1 > 0
        BY <2>1
      <4> QED BY <2>3, <3>2, <4>1
    <3>3. CASE gSlots[s] # d
      <4>1. CASE gAllDevices[gSlots[s]].active \/ gAllDevices[gSlots[s]].attachedClients > 0
        BY <2>3, <3>1, <3>3, <4>1 DEF Lasting
      <4>2. CASE \E u \in Threads : call[u].op = "retire" /\ It(u) = gSlots[s]
        BY <1>2, <1>4, <4>2 DEF Moves, It
      <4> QED BY <4>1, <4>2 DEF IndInv, Retiring
    <3> QED BY <3>2, <3>3
  <2>9. OneOwner'
    BY <1>1, <1>2, <2>3, <2>4, BystanderStep
  <2> QED BY <2>4, <2>5, <2>6, <2>7, <2>8, <2>9, MinorStep DEF IndInv
<1> QED
  BY <1>5, <1>6

\* A slot that is in use or about to be given up stays so if the step is about another device.
LEMMA OtherSlots ==
  ASSUME IndInv, NEW t \in Threads, Minor(t, Idle), NEW s \in Slots, gSlots[s] # Null,
         gAllDevices'[gSlots[s]].attachedClients = gAllDevices[gSlots[s]].attachedClients,
         call[t].op = "retire" => It(t) # gSlots[s]
  PROVE  \/ gAllDevices'[gSlots[s]].active \/ gAllDevices'[gSlots[s]].attachedClients > 0
         \/ \E u \in Threads : call'[u].op = "retire" /\ call'[u].device = gSlots[s]
<1>1. gSlots[s] \in Made
  BY DEF IndInv, Slotted
<1>2. CASE gAllDevices[gSlots[s]].active \/ gAllDevices[gSlots[s]].attachedClients > 0
  BY <1>1, <1>2 DEF Minor, Lasting
<1>3. CASE \E u \in Threads : call[u].op = "retire" /\ It(u) = gSlots[s]
  BY <1>3 DEF Minor, Moves, It
<1> QED
  BY <1>2, <1>3 DEF IndInv, Retiring

\* The last client of a deleted device gives up its slot.
LEMMA RemoveDeviceClientStep ==
  ASSUME IndInv, NEW t \in Threads, RemoveDeviceClient(t)
  PROVE  IndInv'
<1>1. /\ call[t].op = "RemoveDeviceClient" /\ call[t].op \in ObjectCalls /\ Unlocked /\ Return(t)
      /\ IF Holds(It(t)) /\ gAllDevices[It(t)].attachedClients > 0
         THEN /\ Bump(It(t), "attachedClients", -1)
              /\ gSlots' = ReleaseRetiredSlotLocked(gAllDevices', It(t))
         ELSE UNCHANGED <<gAllDevices, gSlots>>
      /\ UNCHANGED <<gActiveDevices, gStateMutex, storage, changes, restarts, promised>>
  BY DEF RemoveDeviceClient, Holds, history, ObjectCalls
<1>2. It(t) \in Made /\ Types /\ call[t].op \notin Writing /\ call[t].op \notin Owning /\ call[t].op # "retire"
  BY <1>1, CalledFacts, OpNames
<1>3. PICK d \in Made : d = It(t)
  BY <1>2
<1>4. Moves(t, Idle) /\ Wellformed(Idle) /\ Idle.op = "idle"
  BY <1>1, <1>2, ReturnFacts
<1>5. CASE ~(Holds(d) /\ gAllDevices[d].attachedClients > 0)
  <2>1. Lasting /\ SameClients /\ SameMarks /\ SlotsGivenUp /\ UNCHANGED gSlots
    BY <1>1, <1>2, <1>3, <1>5, SameDevices, SlotsKept
  <2>2. Minor(t, Idle)
    BY <1>1, <1>2, <1>4, <2>1, OpNames DEF Minor, Types
  <2>3. InHand' /\ RunningIsActive' /\ AttachedKeepSlot' /\ Retiring'
    BY <1>1, <1>2, <2>1, <2>2, ClientsKept, RetiringKept
  <2>4. OneOwner'
    BY <1>1, <1>2, <2>1, <2>2, BystanderStep
  <2> QED BY <2>2, <2>3, <2>4, MinorStep DEF IndInv
<1>6. CASE Holds(d) /\ gAllDevices[d].attachedClients > 0
  <2> DEFINE n == gAllDevices[d].attachedClients
  <2>1. Update(d, "attachedClients", n + -1) /\ n \in Nat /\ n > 0
        /\ gSlots' = ReleaseRetiredSlotLocked(gAllDevices', d)
    BY <1>1, <1>2, <1>3, <1>6, DeviceFacts DEF Bump
  <2>2. n + -1 \in Nat
    BY <2>1
  <2> HIDE DEF n
  <2>3. /\ Lasting /\ SameMarks
        /\ gAllDevices'[d].attachedClients = n + -1
        /\ \A e \in Made :
             /\ e # d => gAllDevices'[e].attachedClients = gAllDevices[e].attachedClients
             /\ gAllDevices'[e].runningClients = gAllDevices[e].runningClients
    BY <1>2, <2>1, <2>2, AttachFacts
  <2>4. /\ SlotsGivenUp
        /\ \A s \in Slots : gSlots[s] # d => gSlots'[s] = gSlots[s]
        /\ gAllDevices'[d].active \/ gAllDevices'[d].attachedClients > 0 => gSlots' = gSlots
        /\ ~gAllDevices'[d].active /\ gAllDevices'[d].attachedClients = 0 /\ gAllDevices'[d].runningClients = 0
             => \A s \in Slots : gSlots'[s] # d
    BY <2>1, <2>3, ReleaseFacts
  <2>5. Minor(t, Idle) /\ Made' = Made
    BY <1>1, <1>2, <1>4, <2>3, <2>4, OpNames DEF Minor, Types, Lasting, Made
  <2>6. InHand'
    BY <1>1, <2>5, NothingInHand
  <2>7. RunningIsActive'
    BY <2>3, <2>5 DEF IndInv, RunningIsActive, Lasting
  <2>8. AttachedKeepSlot'
    <3> SUFFICES ASSUME NEW e \in Made, gAllDevices'[e].attachedClients > 0 PROVE gSlots'[gAllDevices[e].slot] = e
      BY <2>3, <2>5 DEF AttachedKeepSlot, Lasting
    <3>1. CASE e = d
      BY <1>6, <2>4, <3>1 DEF Holds
    <3>2. CASE e # d
      <4>1. gSlots[gAllDevices[e].slot] = e /\ gAllDevices[e].slot \in Slots
        BY <1>2, <2>3, <3>2, DeviceFacts DEF IndInv, AttachedKeepSlot
      <4> QED BY <2>4, <3>2, <4>1
    <3> QED BY <3>1, <3>2
  <2>9. Retiring'
    <3> SUFFICES ASSUME NEW s \in Slots, gSlots'[s] # Null
                 PROVE  \/ gAllDevices'[gSlots'[s]].active \/ gAllDevices'[gSlots'[s]].attachedClients > 0
                        \/ \E u \in Threads : call'[u].op = "retire" /\ call'[u].device = gSlots'[s]
      BY DEF Retiring, It
    <3>1. gSlots'[s] = gSlots[s] /\ gSlots[s] \in Made
      BY <2>4 DEF SlotsGivenUp, IndInv, Slotted
    <3>2. CASE gSlots[s] = d
      <4>1. gAllDevices'[d].runningClients \in Nat /\ gAllDevices'[d].attachedClients \in Nat
        BY <1>2, <2>2, <2>3, DeviceFacts
      <4>2. gAllDevices'[d].runningClients > 0 => gAllDevices'[d].active
        BY <2>5, <2>7 DEF RunningIsActive
      <4>3. ~gAllDevices'[d].active => gAllDevices'[d].runningClients = 0
        BY <4>1, <4>2
      <4>4. gAllDevices'[d].active \/ gAllDevices'[d].attachedClients # 0
        BY <2>4, <3>1, <3>2, <4>3
      <4>5. gAllDevices'[d].attachedClients # 0 => gAllDevices'[d].attachedClients > 0
        BY <4>1
      <4> QED BY <3>1, <3>2, <4>4, <4>5
    <3>3. CASE gSlots[s] # d
      <4>1. gAllDevices'[gSlots[s]].attachedClients = gAllDevices[gSlots[s]].attachedClients
        BY <2>3, <3>1, <3>3
      <4> QED BY <1>2, <2>5, <3>1, <4>1, OtherSlots
    <3> QED BY <3>2, <3>3
  <2>10. OneOwner'
    BY <1>1, <1>2, <2>3, <2>5, BystanderStep
  <2> QED BY <2>5, <2>6, <2>7, <2>8, <2>9, <2>10, MinorStep DEF IndInv
<1> QED
  BY <1>5, <1>6

\* StartIO counts a running client only on an active device, StopIO counts it back; the slot
\* of an active device stays.
LEMMA IOStep ==
  ASSUME IndInv, NEW t \in Threads, StartIO(t) \/ StopIO(t)
  PROVE  IndInv'
<1>1. /\ call[t].op \in ObjectCalls /\ Unlocked /\ Return(t)
      /\ UNCHANGED <<gActiveDevices, gStateMutex, storage, changes, restarts, promised>>
  BY DEF StartIO, StopIO, history, ObjectCalls
<1>2. It(t) \in Made /\ Types /\ call[t].op \notin Writing /\ call[t].op \notin Owning /\ call[t].op # "retire"
  BY <1>1, CalledFacts, OpNames
<1>3. PICK d \in Made : d = It(t)
  BY <1>2
<1>4. Moves(t, Idle) /\ Wellformed(Idle) /\ Idle.op = "idle"
  BY <1>1, <1>2, ReturnFacts
<1>5. CASE UNCHANGED <<gAllDevices, gSlots>>
  <2>1. Lasting /\ SameClients /\ SameMarks /\ SlotsGivenUp /\ UNCHANGED gSlots
    BY <1>2, <1>5, SameDevices, SlotsKept
  <2>2. Minor(t, Idle)
    BY <1>1, <1>2, <1>4, <2>1, OpNames DEF Minor, Types
  <2>3. InHand' /\ RunningIsActive' /\ AttachedKeepSlot' /\ Retiring'
    BY <1>1, <1>2, <2>1, <2>2, ClientsKept, RetiringKept
  <2>4. OneOwner'
    BY <1>1, <1>2, <2>1, <2>2, BystanderStep
  <2> QED BY <2>2, <2>3, <2>4, MinorStep DEF IndInv
<1>6. ASSUME NEW n \in Nat, Update(d, "runningClients", n), gAllDevices[d].active,
             gSlots' = gSlots \/ gSlots' = ReleaseRetiredSlotLocked(gAllDevices', d)
      PROVE  IndInv'
  <2>1. /\ Lasting /\ SameMarks
        /\ \A e \in Made :
             /\ e # d => gAllDevices'[e].runningClients = gAllDevices[e].runningClients
             /\ gAllDevices'[e].attachedClients = gAllDevices[e].attachedClients
    BY <1>2, <1>6, RunFacts
  <2>2. gAllDevices'[d].active
    BY <1>6, <2>1 DEF Lasting
  <2>3. gSlots' = gSlots
    BY <1>6, <2>1, <2>2, ReleaseFacts
  <2>4. SlotsGivenUp
    BY <1>2, <2>3, SlotsKept
  <2>5. Minor(t, Idle) /\ Made' = Made
    BY <1>1, <1>2, <1>4, <2>1, <2>4, OpNames DEF Minor, Types, Lasting, Made
  <2>6. InHand'
    BY <1>1, <2>5, NothingInHand
  <2>7. RunningIsActive'
    BY <2>1, <2>2, <2>5 DEF IndInv, RunningIsActive, Lasting
  <2>8. AttachedKeepSlot'
    BY <2>1, <2>3, <2>5 DEF IndInv, AttachedKeepSlot, Lasting
  <2>9. Retiring'
    <3> SUFFICES ASSUME NEW s \in Slots, gSlots[s] # Null
                 PROVE  \/ gAllDevices'[gSlots[s]].active \/ gAllDevices'[gSlots[s]].attachedClients > 0
                        \/ \E u \in Threads : call'[u].op = "retire" /\ call'[u].device = gSlots[s]
      BY <2>3 DEF Retiring, It
    <3>1. gAllDevices'[gSlots[s]].attachedClients = gAllDevices[gSlots[s]].attachedClients
      BY <2>1 DEF IndInv, Slotted
    <3> QED BY <1>2, <2>5, <3>1, OtherSlots
  <2>10. OneOwner'
    BY <1>1, <1>2, <2>1, <2>5, BystanderStep
  <2> QED BY <2>5, <2>6, <2>7, <2>8, <2>9, <2>10, MinorStep DEF IndInv
<1>7. gAllDevices[d].runningClients \in Nat
  BY <1>2, DeviceFacts
<1>8. CASE StartIO(t)
  <2>1. CASE gAllDevices[d].active
    <3>1. Update(d, "runningClients", gAllDevices[d].runningClients + 1) /\ gSlots' = gSlots
      BY <1>3, <1>8, <2>1 DEF StartIO, Bump
    <3>2. gAllDevices[d].runningClients + 1 \in Nat
      BY <1>7
    <3> QED BY <1>6, <2>1, <3>1, <3>2
  <2>2. CASE ~gAllDevices[d].active
    BY <1>3, <1>5, <1>8, <2>2 DEF StartIO
  <2> QED BY <2>1, <2>2
<1>9. CASE StopIO(t)
  <2>1. CASE gAllDevices[d].runningClients > 0
    <3>1. /\ Update(d, "runningClients", gAllDevices[d].runningClients + -1)
          /\ gSlots' = ReleaseRetiredSlotLocked(gAllDevices', d)
      BY <1>3, <1>9, <2>1 DEF StopIO, Bump
    <3>2. gAllDevices[d].runningClients + -1 \in Nat
      BY <1>7, <2>1
    <3>3. gAllDevices[d].active
      BY <2>1 DEF IndInv, RunningIsActive
    <3> QED BY <1>6, <3>1, <3>2, <3>3
  <2>2. CASE ~(gAllDevices[d].runningClients > 0)
    BY <1>3, <1>5, <1>9, <2>2 DEF StopIO
  <2> QED BY <2>1, <2>2
<1> QED
  BY <1>8, <1>9

\* The end of a deletion: the slot is given up, or is by the last client.
LEMMA RetireStep ==
  ASSUME IndInv, NEW t \in Threads, Retire(t)
  PROVE  IndInv'
<1>1. /\ call[t].op = "retire" /\ Unlocked /\ Return(t)
      /\ gSlots' = ReleaseRetiredSlotLocked(gAllDevices, It(t))
      /\ UNCHANGED <<gAllDevices, gActiveDevices, gStateMutex, storage, changes, restarts, promised>>
  BY DEF Retire, history
<1>2. It(t) \in Made /\ Types /\ call[t].op \notin Writing /\ call[t].op \notin Owning
  BY <1>1, CalledFacts
<1>3. PICK d \in Made : d = It(t)
  BY <1>2
<1>4. Moves(t, Idle) /\ Wellformed(Idle) /\ Idle.op = "idle"
  BY <1>1, <1>2, ReturnFacts
<1>5. Lasting /\ SameClients /\ SameMarks /\ gSlots' = ReleaseRetiredSlotLocked(gAllDevices', d)
  BY <1>1, <1>2, <1>3, SameDevices
<1>6. /\ SlotsGivenUp
      /\ \A s \in Slots : gSlots[s] # d => gSlots'[s] = gSlots[s]
      /\ gAllDevices'[d].active \/ gAllDevices'[d].attachedClients > 0 => gSlots' = gSlots
      /\ ~gAllDevices'[d].active /\ gAllDevices'[d].attachedClients = 0 /\ gAllDevices'[d].runningClients = 0
           => \A s \in Slots : gSlots'[s] # d
  BY <1>5, ReleaseFacts
<1>7. Minor(t, Idle) /\ Made' = Made
  BY <1>1, <1>2, <1>4, <1>5, <1>6, OpNames DEF Minor, Types, Lasting, Made
<1>8. InHand'
  BY <1>1, <1>7, NothingInHand
<1>9. RunningIsActive'
  BY <1>1 DEF IndInv, RunningIsActive, Made
<1>10. AttachedKeepSlot'
  <2> SUFFICES ASSUME NEW e \in Made, gAllDevices[e].attachedClients > 0 PROVE gSlots'[gAllDevices[e].slot] = e
    BY <1>1, <1>7 DEF AttachedKeepSlot
  <2>1. gSlots[gAllDevices[e].slot] = e /\ gAllDevices[e].slot \in Slots
    BY <1>2, DeviceFacts DEF IndInv, AttachedKeepSlot
  <2> QED BY <1>1, <1>6, <2>1
<1>11. Retiring'
  <2> SUFFICES ASSUME NEW s \in Slots, gSlots'[s] # Null
               PROVE  \/ gAllDevices'[gSlots'[s]].active \/ gAllDevices'[gSlots'[s]].attachedClients > 0
                      \/ \E u \in Threads : call'[u].op = "retire" /\ call'[u].device = gSlots'[s]
    BY DEF Retiring, It
  <2>1. gSlots'[s] = gSlots[s] /\ gSlots[s] \in Made
    BY <1>6 DEF SlotsGivenUp, IndInv, Slotted
  <2>2. CASE gSlots[s] = d
    <3>1. gAllDevices[d].runningClients \in Nat /\ gAllDevices[d].attachedClients \in Nat
      BY <1>2, DeviceFacts
    <3>2. ~gAllDevices[d].active => gAllDevices[d].runningClients = 0
      BY <3>1 DEF IndInv, RunningIsActive
    <3>3. gAllDevices[d].active \/ gAllDevices[d].attachedClients # 0
      BY <1>1, <1>6, <2>1, <2>2, <3>2
    <3>4. gAllDevices[d].attachedClients # 0 => gAllDevices[d].attachedClients > 0
      BY <3>1
    <3> QED BY <1>1, <2>1, <2>2, <3>3, <3>4
  <2>3. CASE gSlots[s] # d
    <3>1. gAllDevices'[gSlots[s]].attachedClients = gAllDevices[gSlots[s]].attachedClients
      BY <1>1
    <3> QED BY <1>3, <1>7, <2>1, <2>3, <3>1, OtherSlots
  <2> QED BY <2>2, <2>3
<1>12. OneOwner'
  BY <1>1, <1>2, <1>5, <1>7, BystanderStep
<1> QED
  BY <1>7, <1>8, <1>9, <1>10, <1>11, <1>12, MinorStep DEF IndInv

-----------------------------------------------------------------------------
(* The create command *)

\* A list with a new last element.
LEMMA AppendFacts ==
  ASSUME NEW s \in Seq(Nat), NEW e \in Nat
  PROVE  LET r == Append(s, e)
         IN  /\ r \in Seq(Nat) /\ Len(r) = Len(s) + 1 /\ r[Len(s) + 1] = e
             /\ \A k \in 1..Len(s) : r[k] = s[k]
             /\ Front(r) = s
<1> DEFINE r == Append(s, e)
<1>1. r \in Seq(Nat) /\ Len(r) = Len(s) + 1 /\ r[Len(s) + 1] = e /\ \A k \in 1..Len(s) : r[k] = s[k]
  OBVIOUS
<1>2. Len(s) \in Nat
  OBVIOUS
<1> HIDE DEF r
<1>3. Len(r) >= 1 /\ Len(r) - 1 = Len(s)
  BY <1>1, <1>2
<1>4. Front(r) \in Seq(Nat) /\ Len(Front(r)) = Len(s) /\ \A k \in 1..Len(s) : Front(r)[k] = r[k]
  BY <1>1, <1>3, FrontFacts
<1>5. Front(r) = s
  BY <1>1, <1>4, SeqEqual
<1> QED
  BY <1>1, <1>5 DEF r

\* A new device takes a free slot and an unused id; it is listed and not yet in storage.
LEMMA AddDeviceStep ==
  ASSUME IndInv, NEW t \in Threads, NEW id \in Ids, NEW shape \in Shapes, AddDevice(t, id, shape)
  PROVE  IndInv'
<1>0. Types /\ Len(gAllDevices) \in Nat /\ Len(gActiveDevices) \in Nat
  BY DEF IndInv, Types
<1>1. PICK d \in Nat : d = Len(gAllDevices) + 1
  BY <1>0
<1>2. PICK m \in Nat : m = Len(gActiveDevices)
  BY <1>0
<1>3. PICK s \in Slots :
        /\ gSlots[s] = Null
        /\ gAllDevices' = Append(gAllDevices, NewDevice(s, id, shape))
        /\ gActiveDevices' = Append(gActiveDevices, d)
        /\ gSlots' = [gSlots EXCEPT ![s] = d]
        /\ Enter(t, "persist_add", d)
  BY <1>1 DEF AddDevice
<1>4. /\ Unlocked /\ FindByIDLocked(id) = Null /\ gStateMutex' = t
      /\ UNCHANGED <<storage, changes, restarts, promised>>
  BY DEF AddDevice, history
<1>5. PICK r \in DeviceRecord :
        /\ r = NewDevice(s, id, shape) /\ r.slot = s /\ r.id = id /\ r.active = TRUE /\ r.deletePending = FALSE
        /\ r.attachedClients = 0 /\ r.runningClients = 0
  <2> DEFINE nd == NewDevice(s, id, shape)
  <2>1. /\ nd \in DeviceRecord /\ nd.slot = s /\ nd.id = id /\ nd.active = TRUE /\ nd.deletePending = FALSE
        /\ nd.attachedClients = 0 /\ nd.runningClients = 0
    BY DEF NewDevice, DeviceRecord
  <2> HIDE DEF nd
  <2> QED BY <2>1 DEF nd
<1>6. /\ gAllDevices' \in Seq(DeviceRecord) /\ Len(gAllDevices') = d /\ gAllDevices'[d] = r
      /\ \A e \in Made : gAllDevices'[e] = gAllDevices[e]
  BY <1>0, <1>1, <1>3, <1>5 DEF Types, Made
<1>7. Made' = Made \cup {d} /\ d \notin Made /\ d # Null
  <2>1. Made = 1..(d - 1) /\ Made' = 1..d
    BY <1>0, <1>1, <1>6 DEF Made
  <2>2. d \in Nat /\ d >= 1
    BY <1>0, <1>1
  <2> QED BY <2>1, <2>2 DEF Null
<1>8. /\ gActiveDevices' \in Seq(Nat) /\ Len(gActiveDevices') = m + 1 /\ gActiveDevices'[m + 1] = d
      /\ \A k \in 1..m : gActiveDevices'[k] = gActiveDevices[k] /\ gActiveDevices[k] \in Made
      /\ Front(gActiveDevices') = gActiveDevices
  BY <1>0, <1>2, <1>3, AppendFacts DEF Types
<1>9. \A k \in 1..(m + 1) : k \in 1..m \/ k = m + 1
  BY <1>2
<1>10. /\ gSlots' \in [Slots -> Nat] /\ gSlots'[s] = d /\ \A q \in Slots : q # s => gSlots'[q] = gSlots[q]
  BY <1>0, <1>3 DEF Types
<1>11. PICK c \in CallRecord : c = [op |-> "persist_add", device |-> d, position |-> 0]
                               /\ c.op = "persist_add" /\ c.device = d
  <2> DEFINE ca == [op |-> "persist_add", device |-> d, position |-> 0]
  <2>1. "persist_add" \in Ops /\ 0 \in Nat
    BY DEF Ops, Writing
  <2>2. ca \in CallRecord /\ ca.op = "persist_add" /\ ca.device = d
    BY <2>1, CallRecords
  <2> HIDE DEF ca
  <2> QED BY <2>2 DEF ca
<1>12. Moves(t, c) /\ call[t] = Idle /\ Idle.op = "idle" /\ Idle.device = Null /\ c.op \in Writing
  BY <1>0, <1>3, <1>11, CallFacts, CallRecords DEF Enter, Writing
<1>13. \A u \in Threads : call[u].op \notin Writing
  BY <1>4, OneWriter DEF IndInv
<1>14. \A e \in Made : gAllDevices[e].slot = s => ~Holds(e)
  BY <1>0, <1>3, DeviceFacts DEF Holds
<1>15. Types'
  <2>1. \A k \in 1..(m + 1) : gActiveDevices'[k] \in Made'
    BY <1>7, <1>8, <1>9
  <2> QED BY <1>4, <1>6, <1>7, <1>8, <1>10, <1>12, <2>1 DEF IndInv, Types, Moves, CallRecord
<1>16. Calls'
  BY <1>7, <1>11, <1>12, OpNames DEF IndInv, Calls, It, Moves
<1>17. Locking'
  BY <1>4, <1>11, <1>12, <1>13 DEF Locking, Moves
<1>18. Slotted'
  BY <1>5, <1>6, <1>7, <1>10 DEF IndInv, Slotted
<1>19. InHand'
  <2> SUFFICES ASSUME NEW u \in Threads, call'[u].op \in Writing
               PROVE  /\ Len(gActiveDevices') >= 1 /\ gActiveDevices'[Len(gActiveDevices')] = call'[u].device
                      /\ gAllDevices'[call'[u].device].attachedClients = 0
                      /\ gAllDevices'[call'[u].device].runningClients = 0
                      /\ call'[u].op # "persist_remove"
    BY DEF InHand, Writing, It
  <2>1. u = t /\ call'[u] = c
    BY <1>12, <1>13 DEF Moves
  <2>2. m + 1 >= 1
    BY <1>2
  <2> QED BY <1>5, <1>6, <1>8, <1>11, <2>1, <2>2
<1>20. /\ Roster' = gActiveDevices' /\ Saved' = gActiveDevices
       /\ Roster = gActiveDevices /\ Saved = gActiveDevices
  <2>1. t # NoThread /\ call'[t].op = "persist_add" /\ "persist_add" # "persist_remove"
    BY <1>11, <1>12, DriverAssumption DEF Moves
  <2>2. Roster' = gActiveDevices'
    BY <1>4, <2>1 DEF Roster
  <2>3. Saved' = Front(gActiveDevices')
    BY <1>4, <2>1 DEF Saved
  <2> QED BY <1>4, <1>8, <2>2, <2>3, RosterFacts
<1>21. Rostered'
  <2>1. ASSUME NEW k \in 1..(m + 1)
        PROVE  gAllDevices'[gActiveDevices'[k]].active
               /\ gSlots'[gAllDevices'[gActiveDevices'[k]].slot] = gActiveDevices'[k]
    <3>1. CASE k = m + 1
      BY <1>5, <1>6, <1>8, <1>10, <3>1
    <3>2. CASE k \in 1..m
      <4>1. gActiveDevices[k] \in Made /\ gAllDevices[gActiveDevices[k]].active /\ Holds(gActiveDevices[k])
        BY <1>2, <3>2, ListedFacts
      <4>2. gAllDevices[gActiveDevices[k]].slot \in Slots
        BY <1>0, <4>1, DeviceFacts
      <4>3. gActiveDevices'[k] = gActiveDevices[k] /\ gAllDevices'[gActiveDevices[k]] = gAllDevices[gActiveDevices[k]]
        BY <1>6, <1>8, <3>2, <4>1
      <4>4. gSlots'[gAllDevices[gActiveDevices[k]].slot] = gActiveDevices[k]
        BY <1>10, <1>14, <4>1, <4>2 DEF Holds
      <4> QED BY <4>1, <4>3, <4>4
    <3> QED BY <1>9, <3>1, <3>2
  <2>2. ASSUME NEW j \in 1..(m + 1), NEW k \in 1..(m + 1),
               gAllDevices'[gActiveDevices'[j]].id = gAllDevices'[gActiveDevices'[k]].id
        PROVE  j = k
    <3>1. \A i \in 1..m : gAllDevices'[gActiveDevices'[i]].id = gAllDevices[gActiveDevices[i]].id
      BY <1>6, <1>8
    <3>2. \A i \in 1..m : gAllDevices[gActiveDevices[i]].id # id
      BY <1>2, <1>4, FoundFacts
    <3>3. gAllDevices'[gActiveDevices'[m + 1]].id = id
      BY <1>5, <1>6, <1>8
    <3>4. \A i, h \in 1..m : gAllDevices[gActiveDevices[i]].id = gAllDevices[gActiveDevices[h]].id => i = h
      BY <1>2, <1>20 DEF IndInv, Rostered
    <3> QED BY <1>9, <2>2, <3>1, <3>2, <3>3, <3>4
  <2> QED BY <1>8, <1>20, <2>1, <2>2 DEF Rostered, Holds
<1>22. Stored'
  <2>1. InventoryOf(gAllDevices', gActiveDevices) = InventoryOf(gAllDevices, gActiveDevices)
    BY <1>0, <1>6 DEF InventoryOf, Types
  <2> QED BY <1>4, <1>20, <2>1 DEF IndInv, Stored
<1>23. CreatedSurvive'
  BY <1>4 DEF IndInv, CreatedSurvive
<1>24. RunningIsActive'
  BY <1>5, <1>6, <1>7 DEF IndInv, RunningIsActive
<1>25. AttachedKeepSlot'
  <2> SUFFICES ASSUME NEW e \in Made', gAllDevices'[e].attachedClients > 0
               PROVE  gSlots'[gAllDevices'[e].slot] = e
    BY DEF AttachedKeepSlot
  <2>1. CASE e = d
    BY <1>5, <1>6, <1>10, <2>1
  <2>2. CASE e \in Made
    <3>1. Holds(e) /\ gAllDevices[e].slot \in Slots
      BY <1>0, <1>6, <2>2, DeviceFacts DEF IndInv, AttachedKeepSlot, Holds
    <3> QED BY <1>6, <1>10, <1>14, <2>2, <3>1 DEF Holds
  <2> QED BY <1>7, <2>1, <2>2
<1>26. Retiring'
  <2> SUFFICES ASSUME NEW q \in Slots, gSlots'[q] # Null
               PROVE  \/ gAllDevices'[gSlots'[q]].active \/ gAllDevices'[gSlots'[q]].attachedClients > 0
                      \/ \E u \in Threads : call'[u].op = "retire" /\ call'[u].device = gSlots'[q]
    BY DEF Retiring, It
  <2>1. CASE q = s
    BY <1>5, <1>6, <1>10, <2>1
  <2>2. CASE q # s
    <3>1. gSlots'[q] = gSlots[q] /\ gSlots[q] \in Made
      BY <1>10, <2>2 DEF IndInv, Slotted
    <3>2. \A u \in Threads : call[u].op = "retire" => call'[u] = call[u]
      BY <1>12, OpNames DEF Moves
    <3>3. \/ gAllDevices[gSlots[q]].active \/ gAllDevices[gSlots[q]].attachedClients > 0
          \/ \E u \in Threads : call[u].op = "retire" /\ It(u) = gSlots[q]
      BY <3>1 DEF IndInv, Retiring
    <3> QED BY <1>6, <3>1, <3>2, <3>3 DEF It
  <2> QED BY <2>1, <2>2
<1>27. OneOwner'
  <2> SUFFICES ASSUME NEW e \in Made', Holds(e)'
               PROVE  /\ \A u, v \in Threads : Owns(u, e)' /\ Owns(v, e)' => u = v
                      /\ e \in changes' => \A u \in Threads : ~Owns(u, e)'
                      /\ gAllDevices'[e].deletePending <=> e \in changes' \/ \E u \in Threads : Owns(u, e)'
    BY DEF OneOwner
  <2>1. \A u \in Threads : Owns(u, e)' <=> Owns(u, e)
    BY <1>11, <1>12, OpNames DEF Owns, It, Moves
  <2>2. CASE e = d
    <3>1. d \notin changes
      BY <1>0, <1>7 DEF Types
    <3>2. \A u \in Threads : ~Owns(u, d)
      BY <1>7, OpNames DEF Owns, IndInv, Calls
    <3> QED BY <1>4, <1>5, <1>6, <2>1, <2>2, <3>1, <3>2
  <2>3. CASE e \in Made
    <3>1. Holds(e)
      BY <1>0, <1>6, <1>7, <1>10, <2>3, DeviceFacts DEF Holds
    <3> QED BY <1>4, <1>6, <2>1, <2>3, <3>1 DEF IndInv, OneOwner
  <2> QED BY <1>7, <2>2, <2>3
<1> QED
  BY <1>15, <1>16, <1>17, <1>18, <1>19, <1>21, <1>22, <1>23, <1>24, <1>25, <1>26, <1>27 DEF IndInv

-----------------------------------------------------------------------------
(* The end of a write to storage *)

\* The inventory of a list of devices.
LEMMA InventoryFacts ==
  ASSUME Types, NEW list \in Seq(Nat), \A k \in 1..Len(list) : list[k] \in Made
  PROVE  LET i == InventoryOf(gAllDevices, list)
         IN  /\ i \in Seq(Line) /\ Len(i) = Len(list) /\ DOMAIN i = 1..Len(list)
             /\ \A k \in 1..Len(list) : i[k].id = gAllDevices[list[k]].id /\ i[k].shape = gAllDevices[list[k]].shape
<1>1. Len(list) \in Nat
  OBVIOUS
<1>2. \A k \in 1..Len(list) : gAllDevices[list[k]].id \in Ids /\ gAllDevices[list[k]].shape \in Shapes
  BY DeviceFacts
<1>3. \A k \in 1..Len(list) : [id |-> gAllDevices[list[k]].id, shape |-> gAllDevices[list[k]].shape] \in Line
  BY <1>2 DEF Line
<1> QED
  BY <1>1, <1>3 DEF InventoryOf

\* When a write ends nothing is in hand, and the list is the one that should be stored.
LEMMA WriteEnds ==
  ASSUME IndInv, NEW t \in Threads, NEW c, call[t].op \in Writing, Moves(t, c), c.op \notin Writing,
         gStateMutex' = NoThread
  PROVE  Locking' /\ InHand' /\ Unlocked' /\ Roster' = gActiveDevices' /\ Saved' = gActiveDevices'
<1>1. \A u \in Threads : call'[u].op \notin Writing
  BY OneWriter DEF IndInv, Moves
<1>2. Roster' = gActiveDevices' /\ Saved' = gActiveDevices'
  BY DEF Roster, Saved
<1> QED
  BY <1>1, <1>2, DriverAssumption DEF Locking, InHand, Unlocked, Writing

\* A step that stores no mark and begins or ends no deletion keeps the owners.
LEMMA OwnersLast ==
  ASSUME IndInv, NEW t \in Threads, NEW c, Moves(t, c), call[t].op \notin Owning, c.op \notin Owning, Made' = Made,
         \A e \in Made : /\ gAllDevices'[e].slot = gAllDevices[e].slot
                         /\ gAllDevices'[e].deletePending = gAllDevices[e].deletePending,
         \A s \in Slots : gSlots'[s] = gSlots[s] \/ gSlots'[s] = Null,
         UNCHANGED changes
  PROVE  OneOwner'
<1> SUFFICES ASSUME NEW e \in Made, Holds(e)'
             PROVE  /\ \A u, v \in Threads : Owns(u, e)' /\ Owns(v, e)' => u = v
                    /\ e \in changes' => \A u \in Threads : ~Owns(u, e)'
                    /\ gAllDevices'[e].deletePending <=> e \in changes' \/ \E u \in Threads : Owns(u, e)'
  BY DEF OneOwner
<1>1. Holds(e)
  BY DeviceFacts DEF Holds, IndInv
<1>2. \A u \in Threads : Owns(u, e)' <=> Owns(u, e)
  BY DEF Owns, It, Moves
<1> QED
  BY <1>1, <1>2 DEF IndInv, OneOwner

\* A slot that is in use or about to be given up stays so, unless its device leaves the slot or
\* stops being active.
LEMMA RetiringLast ==
  ASSUME IndInv, NEW t \in Threads, NEW c, Moves(t, c), call[t].op # "retire",
         NEW s \in Slots, gSlots[s] # Null,
         gAllDevices'[gSlots[s]].attachedClients = gAllDevices[gSlots[s]].attachedClients,
         gAllDevices'[gSlots[s]].active = gAllDevices[gSlots[s]].active
  PROVE  \/ gAllDevices'[gSlots[s]].active \/ gAllDevices'[gSlots[s]].attachedClients > 0
         \/ \E u \in Threads : call'[u].op = "retire" /\ call'[u].device = gSlots[s]
<1>1. \A u \in Threads : call[u].op = "retire" => call'[u] = call[u]
  BY DEF Moves
<1>2. \/ gAllDevices[gSlots[s]].active \/ gAllDevices[gSlots[s]].attachedClients > 0
      \/ \E u \in Threads : call[u].op = "retire" /\ It(u) = gSlots[s]
  BY DEF IndInv, Retiring
<1> QED
  BY <1>1, <1>2 DEF It

\* The write of a creation succeeds: the device is in storage, and promised.
LEMMA AddDevicePersistedStep ==
  ASSUME IndInv, NEW t \in Threads, AddDevicePersisted(t)
  PROVE  IndInv'
<1>1. /\ call[t].op = "persist_add" /\ storage' = InventoryOf(gAllDevices, gActiveDevices)
      /\ promised' = promised \cup {gAllDevices[It(t)].id}
      /\ gStateMutex' = NoThread /\ Return(t) /\ Types
      /\ UNCHANGED <<gAllDevices, gActiveDevices, gSlots, changes, restarts>>
  BY DEF AddDevicePersisted, InventoryLocked, IndInv
<1>2. call[t].op \in Writing /\ call[t].op \notin Owning /\ call[t].op # "retire" /\ call[t].op # "idle"
  BY <1>1, OpNames DEF Writing
<1>3. It(t) \in Made
  BY <1>2 DEF IndInv, Calls
<1>4. Moves(t, Idle) /\ Wellformed(Idle) /\ Idle.op = "idle"
  BY <1>1, ReturnFacts
<1>5. Locking' /\ InHand' /\ Roster' = gActiveDevices /\ Saved' = gActiveDevices
  BY <1>1, <1>2, <1>4, WriteEnds, OpNames
<1>6. Roster = gActiveDevices /\ Saved = Front(gActiveDevices)
  BY <1>1, RosterFacts
<1>7. PICK m \in Nat : m = Len(gActiveDevices) /\ m >= 1 /\ gActiveDevices[m] = It(t)
  BY <1>1 DEF IndInv, InHand, Types
<1>8. gActiveDevices \in Seq(Nat) /\ \A k \in 1..m : gActiveDevices[k] \in Made
  BY <1>1, <1>7 DEF Types
<1>9. /\ storage' \in Seq(Line) /\ DOMAIN storage' = 1..m
      /\ \A k \in 1..m : storage'[k].id = gAllDevices[gActiveDevices[k]].id
  BY <1>1, <1>7, <1>8, InventoryFacts
<1>10. Made' = Made
  BY <1>1 DEF Made
<1>11. Types'
  <2>1. gAllDevices[It(t)].id \in Ids
    BY <1>1, <1>3, DeviceFacts
  <2>2. gStateMutex' \in Threads \cup {NoThread} /\ promised' \subseteq Ids /\ call' \in [Threads -> CallRecord]
    BY <1>1, <1>4, <2>1 DEF Types, Moves
  <2> QED BY <1>1, <1>9, <1>10, <2>2 DEF Types, CallRecord
<1>12. Calls'
  BY <1>4, <1>10 DEF IndInv, Calls, It, Moves, Wellformed
<1>13. Slotted' /\ RunningIsActive' /\ AttachedKeepSlot'
  BY <1>1, <1>10 DEF IndInv, Slotted, RunningIsActive, AttachedKeepSlot
<1>14. Rostered'
  BY <1>1, <1>5, <1>6 DEF IndInv, Rostered, Holds
<1>15. Stored'
  BY <1>1, <1>5 DEF Stored
<1>16. CreatedSurvive'
  <2> SUFFICES ASSUME NEW id \in promised' PROVE \E k \in 1..m : storage'[k].id = id
    BY <1>9 DEF CreatedSurvive
  <2>1. CASE id = gAllDevices[It(t)].id
    <3>1. m \in 1..m
      BY <1>7
    <3> QED BY <1>7, <1>9, <2>1, <3>1
  <2>2. CASE id \in promised
    <3>1. /\ Saved \in Seq(Nat) /\ \A k \in 1..Len(Saved) : Saved[k] \in Made
      BY RosterFacts
    <3>2. Len(Saved) = m - 1 /\ \A k \in 1..(m - 1) : Saved[k] = gActiveDevices[k]
      BY <1>6, <1>7, <1>8, FrontFacts
    <3>3. DOMAIN storage = 1..(m - 1) /\ \A k \in 1..(m - 1) : storage[k].id = gAllDevices[Saved[k]].id
      BY <1>1, <3>1, <3>2, InventoryFacts DEF IndInv, Stored
    <3>4. PICK k \in 1..(m - 1) : storage[k].id = id
      BY <2>2, <3>3 DEF IndInv, CreatedSurvive
    <3>5. k \in 1..m
      BY <1>7
    <3> QED BY <1>9, <3>2, <3>3, <3>4, <3>5
  <2> QED BY <1>1, <2>1, <2>2
<1>17. Retiring'
  BY <1>1, <1>2, <1>4, RetiringLast DEF Retiring, It
<1>18. OneOwner'
  BY <1>1, <1>2, <1>4, <1>10, OwnersLast, OpNames
<1> QED
  BY <1>5, <1>11, <1>12, <1>13, <1>14, <1>15, <1>16, <1>17, <1>18 DEF IndInv

\* It fails: the slot and the place in the list are taken back, and no client had come.
LEMMA AddDeviceFailedStep ==
  ASSUME IndInv, NEW t \in Threads, AddDeviceFailed(t)
  PROVE  IndInv'
<1>1. /\ call[t].op = "persist_add" /\ gSlots' = [gSlots EXCEPT ![gAllDevices[It(t)].slot] = Null]
      /\ gActiveDevices' = Front(gActiveDevices)
      /\ gStateMutex' = NoThread /\ Return(t) /\ Types
      /\ UNCHANGED <<gAllDevices, storage, changes, restarts, promised>>
  BY DEF AddDeviceFailed, history, IndInv
<1>2. call[t].op \in Writing /\ call[t].op \notin Owning /\ call[t].op # "retire" /\ call[t].op # "idle"
  BY <1>1, OpNames DEF Writing
<1>3. PICK d \in Made : d = It(t)
  BY <1>2 DEF IndInv, Calls
<1>4. Moves(t, Idle) /\ Wellformed(Idle) /\ Idle.op = "idle"
  BY <1>1, ReturnFacts
<1>5. Locking' /\ InHand' /\ Roster' = gActiveDevices' /\ Saved' = gActiveDevices'
  BY <1>1, <1>2, <1>4, WriteEnds, OpNames
<1>6. Roster = gActiveDevices /\ Saved = Front(gActiveDevices)
  BY <1>1, RosterFacts
<1>7. PICK m \in Nat : m = Len(gActiveDevices) /\ m >= 1 /\ gActiveDevices[m] = d /\ gAllDevices[d].attachedClients = 0
  <2>1. Len(gActiveDevices) \in Nat
    BY <1>1 DEF Types
  <2>2. /\ Len(gActiveDevices) >= 1 /\ gActiveDevices[Len(gActiveDevices)] = It(t)
        /\ gAllDevices[It(t)].attachedClients = 0
    BY <1>1 DEF IndInv, InHand
  <2> QED BY <1>3, <2>1, <2>2
<1>8. /\ gActiveDevices' \in Seq(Nat) /\ Len(gActiveDevices') = m - 1
      /\ \A k \in 1..(m - 1) : gActiveDevices'[k] = gActiveDevices[k]
      /\ \A k \in 1..(m - 1) : k \in 1..m /\ k # m
  <2>1. gActiveDevices \in Seq(Nat) /\ Len(gActiveDevices) >= 1
    BY <1>1, <1>7 DEF Types
  <2>2. \A k \in 1..(m - 1) : k \in 1..m /\ k # m
    BY <1>7
  <2> QED BY <1>1, <1>7, <2>1, <2>2, FrontFacts
<1>9. m \in 1..m
  BY <1>7
<1>10. Made' = Made
  BY <1>1 DEF Made
<1>11. Holds(d) /\ gAllDevices[d].slot \in Slots /\ d # Null
  BY <1>1, <1>6, <1>7, <1>9, DeviceFacts DEF IndInv, Rostered
<1>12. /\ gSlots' \in [Slots -> Nat] /\ gSlots'[gAllDevices[d].slot] = Null
       /\ \A s \in Slots : s # gAllDevices[d].slot => gSlots'[s] = gSlots[s]
  BY <1>1, <1>3, <1>11 DEF Types, Null
<1>13. \A e \in Made : e # d /\ Holds(e) => gSlots'[gAllDevices[e].slot] = e
  BY <1>1, <1>11, <1>12, DeviceFacts DEF Holds
<1>14. Types'
  <2>1. \A k \in 1..(m - 1) : gActiveDevices'[k] \in Made
    BY <1>1, <1>7, <1>8 DEF Types
  <2>2. gStateMutex' \in Threads \cup {NoThread} /\ call' \in [Threads -> CallRecord]
    BY <1>1, <1>4 DEF Moves
  <2> QED BY <1>1, <1>8, <1>10, <1>12, <2>1, <2>2 DEF Types, CallRecord
<1>15. Calls'
  BY <1>4, <1>10 DEF IndInv, Calls, It, Moves, Wellformed
<1>16. Slotted'
  BY <1>1, <1>10, <1>12 DEF IndInv, Slotted
<1>17. RunningIsActive' /\ CreatedSurvive'
  BY <1>1, <1>10 DEF IndInv, RunningIsActive, CreatedSurvive
<1>18. AttachedKeepSlot'
  <2> SUFFICES ASSUME NEW e \in Made, gAllDevices[e].attachedClients > 0
               PROVE  gSlots'[gAllDevices[e].slot] = e
    BY <1>1, <1>10 DEF AttachedKeepSlot
  <2>1. e # d
    BY <1>7
  <2> QED BY <1>13, <2>1 DEF IndInv, AttachedKeepSlot, Holds
<1>19. Rostered'
  <2>1. ASSUME NEW k \in 1..(m - 1)
        PROVE  gAllDevices[gActiveDevices[k]].active /\ gSlots'[gAllDevices[gActiveDevices[k]].slot] = gActiveDevices[k]
    <3>1. gActiveDevices[k] \in Made /\ gAllDevices[gActiveDevices[k]].active /\ Holds(gActiveDevices[k])
      BY <1>7, <1>8, ListedFacts
    <3>2. gActiveDevices[k] # d
      BY <1>6, <1>7, <1>8, <1>9 DEF IndInv, Rostered
    <3> QED BY <1>13, <3>1, <3>2
  <2>2. \A j, k \in 1..(m - 1) : gAllDevices[gActiveDevices[j]].id = gAllDevices[gActiveDevices[k]].id => j = k
    <3>1. \A j, k \in 1..m : gAllDevices[gActiveDevices[j]].id = gAllDevices[gActiveDevices[k]].id => j = k
      BY <1>6, <1>7 DEF IndInv, Rostered
    <3>2. \A k \in 1..(m - 1) : k \in 1..m
      BY <1>8
    <3> QED BY <3>1, <3>2
  <2> QED BY <1>1, <1>5, <1>8, <2>1, <2>2 DEF Rostered, Holds
<1>20. Stored'
  BY <1>1, <1>5, <1>6 DEF IndInv, Stored
<1>21. Retiring'
  <2> SUFFICES ASSUME NEW s \in Slots, gSlots'[s] # Null
               PROVE  \/ gAllDevices'[gSlots'[s]].active \/ gAllDevices'[gSlots'[s]].attachedClients > 0
                      \/ \E u \in Threads : call'[u].op = "retire" /\ call'[u].device = gSlots'[s]
    BY DEF Retiring, It
  <2>1. gSlots'[s] = gSlots[s]
    BY <1>12
  <2> QED BY <1>1, <1>2, <1>4, <2>1, RetiringLast
<1>22. OneOwner'
  <2>1. \A s \in Slots : gSlots'[s] = gSlots[s] \/ gSlots'[s] = Null
    BY <1>12
  <2> QED BY <1>1, <1>2, <1>4, <1>10, <2>1, OwnersLast, OpNames
<1> QED
  BY <1>5, <1>14, <1>15, <1>16, <1>17, <1>18, <1>19, <1>20, <1>21, <1>22 DEF IndInv

-----------------------------------------------------------------------------
(* Deletion *)

\* RemoveDeviceLocked up to the write: the device leaves the list, and what a failed write would
\* bring back is the list of before.
LEMMA RemoveBegins ==
  ASSUME IndInv, NEW t \in Threads, NEW d \in Made, It(t) = d, call[t].op \notin Writing, call[t].op # "retire",
         Unlocked, Lasting, SameClients, RemoveDeviceLocked(t),
         UNCHANGED <<gSlots, storage, changes, restarts, promised>>
  PROVE  /\ Types' /\ Calls' /\ Locking' /\ Slotted' /\ InHand' /\ Rostered' /\ Stored'
         /\ CreatedSurvive' /\ RunningIsActive' /\ AttachedKeepSlot' /\ Retiring'
         /\ Made' = Made /\ \E c : Moves(t, c) /\ c.op \notin Owning
<1>1. Types /\ SlotsGivenUp /\ gActiveDevices \in Seq(Nat) /\ Len(gActiveDevices) \in Nat
      /\ \A k \in 1..Len(gActiveDevices) : gActiveDevices[k] \in Made
  <2>1. Types
    BY DEF IndInv
  <2>2. SlotsGivenUp
    BY <2>1, SlotsKept
  <2>3. gActiveDevices \in Seq(Nat) /\ \A k \in 1..Len(gActiveDevices) : gActiveDevices[k] \in Made
    BY <2>1 DEF Types
  <2> QED BY <2>1, <2>2, <2>3
<1>2. Made' = Made
  BY DEF Lasting, Made
<1>3. CASE ~(gAllDevices[d].runningClients = 0 /\ Contains(gActiveDevices, d))
  <2>1. Return(t) /\ UNCHANGED <<gActiveDevices, gStateMutex>>
    BY <1>3 DEF RemoveDeviceLocked
  <2>2. Moves(t, Idle) /\ Wellformed(Idle) /\ Idle.op = "idle"
    BY <1>1, <2>1, ReturnFacts
  <2>3. Minor(t, Idle)
    BY <1>1, <2>1, <2>2, OpNames DEF Minor, Types
  <2>4. InHand' /\ RunningIsActive' /\ AttachedKeepSlot' /\ Retiring'
    BY <2>3, ClientsKept, RetiringKept
  <2> QED BY <1>2, <2>2, <2>3, <2>4, MinorStep, OpNames
<1>4. CASE gAllDevices[d].runningClients = 0 /\ Contains(gActiveDevices, d)
  <2> DEFINE q == CHOOSE k \in 1..Len(gActiveDevices) : gActiveDevices[k] = d
  <2>1. \E k \in 1..Len(gActiveDevices) : gActiveDevices[k] = d
    BY <1>4 DEF Contains
  <2>2. q \in 1..Len(gActiveDevices) /\ gActiveDevices[q] = d
    BY <2>1
  <2>3. /\ gActiveDevices' = RemoveAt(gActiveDevices, q) /\ gStateMutex' = t
        /\ call' = [call EXCEPT ![t].op = "persist_remove", ![t].position = q]
    BY <1>4 DEF RemoveDeviceLocked
  <2> HIDE DEF q
  <2>4. PICK p \in 1..Len(gActiveDevices) : p = q
    BY <2>2
  <2>5. PICK n \in Nat : n = Len(gActiveDevices)
    BY <1>1
  <2>6. p \in Nat /\ n - 1 \in Nat /\ p \in 1..((n - 1) + 1) /\ \A k \in 1..(n - 1) : k \in 1..n /\ k + 1 \in 1..n
    BY <2>4, <2>5
  <2>7. /\ gActiveDevices' \in Seq(Nat) /\ Len(gActiveDevices') = n - 1
        /\ \A k \in 1..(n - 1) : gActiveDevices'[k] = IF k < p THEN gActiveDevices[k] ELSE gActiveDevices[k + 1]
        /\ InsertAt(gActiveDevices', p, d) = gActiveDevices
    BY <1>1, <2>2, <2>3, <2>4, <2>5, RemoveFacts
  <2>8. \A k \in 1..(n - 1) : gActiveDevices'[k] \in Made
    BY <1>1, <2>5, <2>6, <2>7
  <2> DEFINE cc == [op |-> "persist_remove", device |-> d, position |-> p]
  <2>9. PICK c \in CallRecord : c = cc /\ c.op = "persist_remove" /\ c.device = d /\ c.position = p
    <3>1. "persist_remove" \in Ops /\ d \in Nat
      BY <1>1, DeviceFacts DEF Ops, Writing
    <3>2. cc \in CallRecord /\ cc.op = "persist_remove" /\ cc.device = d /\ cc.position = p
      BY <2>6, <3>1, CallRecords
    <3> HIDE DEF cc
    <3> QED BY <3>2
  <2>10. call' = [call EXCEPT ![t] = c]
    <3>1. call \in [Threads -> CallRecord] /\ call[t] \in CallRecord /\ call[t].device = d
      BY <1>1 DEF Types, CallRecord, It
    <3>2. [call[t] EXCEPT !.op = "persist_remove", !.position = p] = c
      BY <2>9, <3>1 DEF CallRecord
    <3>3. call' = [call EXCEPT ![t] = [call[t] EXCEPT !.op = "persist_remove", !.position = p]]
      BY <2>3, <2>4, <3>1 DEF CallRecord
    <3> QED BY <3>2, <3>3
  <2> HIDE DEF cc
  <2>11. Moves(t, c) /\ c.op \in Writing /\ c.op \notin Owning /\ c.op # "idle"
    BY <1>1, <2>9, <2>10, CallFacts, OpNames DEF Writing
  <2>12. \A u \in Threads : call[u].op \notin Writing
    BY OneWriter DEF IndInv
  <2>13. Roster' = Roster /\ Saved' = Saved /\ Roster = gActiveDevices /\ Saved = gActiveDevices
    <3>1. t # NoThread /\ call'[t].op = "persist_remove" /\ call'[t].op # "persist_add"
          /\ call'[t].device = d /\ call'[t].position = p
      BY <2>9, <2>11, DriverAssumption DEF Moves
    <3>2. Roster' = InsertAt(gActiveDevices', p, d)
      BY <2>3, <3>1 DEF Roster, It
    <3>3. Saved' = Roster'
      BY <2>3, <3>1 DEF Saved
    <3> QED BY <2>7, <3>2, <3>3, RosterFacts
  <2>14. Types'
    BY <1>1, <1>2, <2>3, <2>5, <2>7, <2>8, <2>11 DEF Types, Lasting, Moves, CallRecord
  <2>15. Calls'
    BY <1>2, <2>9, <2>11 DEF IndInv, Calls, It, Moves
  <2>16. Locking'
    BY <2>3, <2>11, <2>12 DEF Locking, Moves
  <2>17. Slotted' /\ AttachedKeepSlot' /\ RunningIsActive' /\ CreatedSurvive'
    BY <1>2 DEF IndInv, Slotted, AttachedKeepSlot, RunningIsActive, CreatedSurvive, Lasting, SameClients
  <2>18. InHand'
    <3> SUFFICES ASSUME NEW u \in Threads, call'[u].op \in Writing
                 PROVE  /\ call'[u].op # "persist_add" /\ call'[u].position \in 1..(Len(gActiveDevices') + 1)
                        /\ gAllDevices'[call'[u].device].runningClients = 0
      BY DEF InHand, Writing, It
    <3>1. call'[u] = c
      BY <2>11, <2>12 DEF Moves
    <3> QED BY <1>4, <2>6, <2>7, <2>9, <3>1 DEF SameClients
  <2>19. Rostered'
    <3>1. \A k \in 1..Len(Roster) : /\ Roster[k] \in Made /\ gAllDevices[Roster[k]].active
                                    /\ gSlots[gAllDevices[Roster[k]].slot] = Roster[k]
      BY <1>1, <2>13 DEF IndInv, Rostered, Holds
    <3>2. \A k \in 1..Len(Roster) : /\ gAllDevices'[Roster[k]].active
                                    /\ gSlots'[gAllDevices'[Roster[k]].slot] = Roster[k]
      BY <3>1 DEF Lasting
    <3>3. \A j, k \in 1..Len(Roster) : gAllDevices'[Roster[j]].id = gAllDevices'[Roster[k]].id => j = k
      <4>1. \A j, k \in 1..Len(Roster) : gAllDevices[Roster[j]].id = gAllDevices[Roster[k]].id => j = k
        BY DEF IndInv, Rostered
      <4>2. \A k \in 1..Len(Roster) : gAllDevices'[Roster[k]].id = gAllDevices[Roster[k]].id
        BY <3>1 DEF Lasting
      <4> QED BY <4>1, <4>2
    <3> QED BY <2>13, <3>2, <3>3 DEF Rostered, Holds
  <2>20. Stored'
    BY <1>1, <2>13, SameInventory DEF IndInv, Stored
  <2>21. Retiring'
    <3> SUFFICES ASSUME NEW s \in Slots, gSlots[s] # Null
                 PROVE  \/ gAllDevices'[gSlots[s]].active \/ gAllDevices'[gSlots[s]].attachedClients > 0
                        \/ \E u \in Threads : call'[u].op = "retire" /\ call'[u].device = gSlots[s]
      BY DEF Retiring, It
    <3>1. gSlots[s] \in Made
      BY DEF IndInv, Slotted
    <3> QED BY <2>11, <3>1, RetiringLast DEF Lasting, SameClients
  <2> QED
    BY <1>2, <2>11, <2>14, <2>15, <2>16, <2>17, <2>18, <2>19, <2>20, <2>21
<1> QED
  BY <1>3, <1>4

\* DestroyDevice leaves the marks alone.
LEMMA DestroyDeviceStep ==
  ASSUME IndInv, NEW t \in Threads, DestroyDevice(t)
  PROVE  IndInv'
<1>1. /\ call[t].op \in ObjectCalls /\ Unlocked /\ RemoveDeviceLocked(t)
      /\ UNCHANGED <<gAllDevices, gSlots, storage, changes, restarts, promised>>
  BY DEF DestroyDevice, history, ObjectCalls
<1>2. It(t) \in Made /\ Types /\ call[t].op \notin Writing /\ call[t].op \notin Owning /\ call[t].op # "retire"
  BY <1>1, CalledFacts, OpNames
<1>3. PICK d \in Made : It(t) = d
  BY <1>2
<1>4. Lasting /\ SameClients
  BY <1>1, <1>2, SameDevices
<1>5. /\ Types' /\ Calls' /\ Locking' /\ Slotted' /\ InHand' /\ Rostered' /\ Stored'
      /\ CreatedSurvive' /\ RunningIsActive' /\ AttachedKeepSlot' /\ Retiring'
      /\ Made' = Made /\ \E c : Moves(t, c) /\ c.op \notin Owning
  BY <1>1, <1>2, <1>3, <1>4, RemoveBegins
<1>6. OneOwner'
  BY <1>1, <1>2, <1>5, OwnersLast
<1> QED
  BY <1>5, <1>6 DEF IndInv

\* The host performs the deletion: whether the device can be removed or not, the mark is gone and
\* so is its owner. A device that still has its slot is always found marked.
LEMMA PerformStep ==
  ASSUME IndInv, NEW t \in Threads, Perform(t)
  PROVE  IndInv'
<1>1. /\ call[t].op \in Owning /\ Unlocked /\ Types
      /\ UNCHANGED <<gSlots, storage, changes, restarts, promised>>
  BY DEF Perform, history, Owning, IndInv
<1>2. call[t].op \notin Writing /\ call[t].op # "retire"
  BY <1>1, OpNames
<1>3. PICK d \in Made : It(t) = d
  BY <1>1, OwnerAlone
<1>4. d # Null
  BY <1>1, DeviceFacts
<1>5. Holds(d) => /\ d \notin changes /\ gAllDevices[d].deletePending
                  /\ \A u \in Threads : u # t => ~Owns(u, d)
  BY <1>1, <1>3, OwnerAlone
<1>6. CASE gAllDevices[d].deletePending
  <2>1. Update(d, "deletePending", FALSE) /\ RemoveDeviceLocked(t)
    BY <1>3, <1>6 DEF Perform
  <2>2. /\ Lasting /\ SameClients /\ gAllDevices'[d].deletePending = FALSE
        /\ \A e \in Made : e # d => gAllDevices'[e].deletePending = gAllDevices[e].deletePending
    BY <1>1, <2>1, MarkFacts
  <2>3. /\ Types' /\ Calls' /\ Locking' /\ Slotted' /\ InHand' /\ Rostered' /\ Stored'
        /\ CreatedSurvive' /\ RunningIsActive' /\ AttachedKeepSlot' /\ Retiring'
        /\ Made' = Made /\ \E c : Moves(t, c) /\ c.op \notin Owning
    BY <1>1, <1>2, <1>3, <2>1, <2>2, RemoveBegins
  <2>4. OneOwner'
    <3> SUFFICES ASSUME NEW e \in Made, Holds(e)'
                 PROVE  /\ \A u, v \in Threads : Owns(u, e)' /\ Owns(v, e)' => u = v
                        /\ e \in changes' => \A u \in Threads : ~Owns(u, e)'
                        /\ gAllDevices'[e].deletePending <=> e \in changes' \/ \E u \in Threads : Owns(u, e)'
      BY <2>3 DEF OneOwner
    <3>1. Holds(e)
      BY <1>1, <2>2 DEF Holds, Lasting
    <3>2. call'[t].op \notin Owning /\ \A u \in Threads : u # t => call'[u] = call[u]
      BY <2>3 DEF Moves
    <3>3. CASE e = d
      <4>1. \A u \in Threads : ~Owns(u, d)'
        BY <1>5, <3>1, <3>2, <3>3 DEF Owns, It
      <4> QED BY <1>1, <1>5, <2>2, <3>1, <3>3, <4>1
    <3>4. CASE e # d
      <4>1. \A u \in Threads : Owns(u, e)' <=> Owns(u, e)
        BY <1>3, <3>2, <3>4 DEF Owns, It
      <4> QED BY <1>1, <2>2, <3>1, <3>4, <4>1 DEF IndInv, OneOwner
    <3> QED BY <3>3, <3>4
  <2> QED BY <2>3, <2>4 DEF IndInv
<1>7. CASE ~gAllDevices[d].deletePending
  <2>1. Return(t) /\ UNCHANGED <<gAllDevices, gActiveDevices, gStateMutex>>
    BY <1>3, <1>7 DEF Perform
  <2>2. Lasting /\ SameClients /\ SameMarks /\ SlotsGivenUp
    BY <1>1, <2>1, SameDevices, SlotsKept
  <2>3. Moves(t, Idle) /\ Wellformed(Idle) /\ Idle.op = "idle"
    BY <1>1, <2>1, ReturnFacts
  <2>4. Minor(t, Idle)
    BY <1>1, <1>2, <2>1, <2>2, <2>3, OpNames DEF Minor, Types
  <2>5. InHand' /\ RunningIsActive' /\ AttachedKeepSlot' /\ Retiring'
    BY <1>1, <1>2, <2>2, <2>4, ClientsKept, RetiringKept
  <2>6. OneOwner'
    <3> SUFFICES ASSUME NEW e \in Made, Holds(e)'
                 PROVE  /\ \A u, v \in Threads : Owns(u, e)' /\ Owns(v, e)' => u = v
                        /\ e \in changes' => \A u \in Threads : ~Owns(u, e)'
                        /\ gAllDevices'[e].deletePending <=> e \in changes' \/ \E u \in Threads : Owns(u, e)'
      BY <2>4, MinorStep DEF OneOwner
    <3>1. Holds(e)
      BY <1>1, <2>1 DEF Holds
    <3>2. e # d
      BY <1>5, <1>7, <3>1
    <3> QED BY <1>1, <1>3, <2>2, <2>3, <2>4, <3>2, OwnersKept, OpNames DEF SameMarks
  <2> QED BY <2>4, <2>5, <2>6, MinorStep DEF IndInv
<1> QED
  BY <1>6, <1>7

\* While a removal is written its device is not in the list, whose ids are distinct.
LEMMA UnlistedFacts ==
  ASSUME IndInv, NEW t \in Threads, call[t].op = "persist_remove"
  PROVE  /\ Inserted(Roster, gActiveDevices, call[t].position, It(t))
         /\ call[t].position \in 1..(Len(gActiveDevices) + 1) /\ Len(gActiveDevices) \in Nat
         /\ \A k \in 1..Len(gActiveDevices) : gActiveDevices[k] # It(t)
         /\ \A j, k \in 1..Len(gActiveDevices) :
              gAllDevices[gActiveDevices[j]].id = gAllDevices[gActiveDevices[k]].id => j = k
<1> DEFINE n == Len(gActiveDevices)
           p == call[t].position
           At(k) == IF k < p THEN k ELSE k + 1
<1>1. /\ Inserted(Roster, gActiveDevices, p, It(t)) /\ p \in 1..(n + 1) /\ n \in Nat
  BY RosterFacts DEF IndInv, InHand, Types
<1>2. /\ Len(Roster) = n + 1
      /\ \A k \in 1..(n + 1) : Roster[k] = IF k < p THEN gActiveDevices[k] ELSE IF k = p THEN It(t) ELSE gActiveDevices[k - 1]
  BY <1>1 DEF Inserted
<1> HIDE DEF n, p
<1>3. /\ \A k \in 1..n : At(k) \in 1..(n + 1) /\ At(k) # p
                         /\ (k < p => At(k) < p /\ At(k) = k) /\ (~(k < p) => ~(At(k) < p) /\ At(k) - 1 = k)
      /\ \A j, k \in 1..n : At(j) = At(k) => j = k
      /\ p \in 1..(n + 1) /\ ~(p < p)
  BY <1>1
<1> HIDE DEF At
<1>4. \A k \in 1..n : Roster[At(k)] = gActiveDevices[k]
  BY <1>2, <1>3
<1>5. Roster[p] = It(t)
  BY <1>2, <1>3
<1>6. \A j, k \in 1..(n + 1) : gAllDevices[Roster[j]].id = gAllDevices[Roster[k]].id => j = k
  BY <1>2 DEF IndInv, Rostered
<1>7. \A k \in 1..n : gActiveDevices[k] # It(t)
  BY <1>3, <1>4, <1>5, <1>6
<1>8. \A j, k \in 1..n : gAllDevices[gActiveDevices[j]].id = gAllDevices[gActiveDevices[k]].id => j = k
  BY <1>3, <1>4, <1>6
<1> QED
  BY <1>1, <1>7, <1>8 DEF n, p

\* A store of active.
LEMMA DeactivateFacts ==
  ASSUME Types, NEW d \in Made, Update(d, "active", FALSE)
  PROVE  /\ gAllDevices' \in Seq(DeviceRecord) /\ Len(gAllDevices') = Len(gAllDevices)
         /\ \A e \in Made :
              /\ gAllDevices'[e].slot = gAllDevices[e].slot /\ gAllDevices'[e].id = gAllDevices[e].id
              /\ gAllDevices'[e].shape = gAllDevices[e].shape
              /\ gAllDevices'[e].deletePending = gAllDevices[e].deletePending
              /\ e # d => gAllDevices'[e].active = gAllDevices[e].active
         /\ SameClients
<1> DEFINE r == [gAllDevices[d] EXCEPT !["active"] = FALSE]
<1>1. gAllDevices[d] \in DeviceRecord
  BY DeviceFacts
<1>2. /\ r \in DeviceRecord /\ r.deletePending = gAllDevices[d].deletePending
      /\ r.slot = gAllDevices[d].slot /\ r.id = gAllDevices[d].id /\ r.shape = gAllDevices[d].shape
      /\ r.attachedClients = gAllDevices[d].attachedClients /\ r.runningClients = gAllDevices[d].runningClients
  BY <1>1 DEF DeviceRecord
<1>3. gAllDevices' = [gAllDevices EXCEPT ![d] = r]
  BY DEF Update
<1> HIDE DEF r
<1>4. /\ gAllDevices' \in Seq(DeviceRecord) /\ Len(gAllDevices') = Len(gAllDevices) /\ gAllDevices'[d] = r
      /\ \A e \in Made : e # d => gAllDevices'[e] = gAllDevices[e]
  BY <1>2, <1>3 DEF Types, Made
<1> QED
  BY <1>2, <1>4 DEF SameClients

\* The write of a removal succeeds: storage has every other promised device, and the slot is to
\* be given up.
LEMMA RemovePersistedStep ==
  ASSUME IndInv, NEW t \in Threads, RemovePersisted(t)
  PROVE  IndInv'
<1>1. /\ call[t].op = "persist_remove" /\ storage' = InventoryOf(gAllDevices, gActiveDevices)
      /\ Update(It(t), "active", FALSE) /\ promised' = promised \ {gAllDevices[It(t)].id}
      /\ gStateMutex' = NoThread /\ Go(t, "retire") /\ Types
      /\ UNCHANGED <<gActiveDevices, gSlots, changes, restarts>>
  BY DEF RemovePersisted, InventoryLocked, IndInv
<1>2. call[t].op \in Writing /\ call[t].op \notin Owning /\ call[t].op # "retire" /\ call[t].op # "idle"
  BY <1>1, OpNames DEF Writing
<1>3. PICK d \in Made : d = It(t)
  BY <1>2 DEF IndInv, Calls
<1>4. PICK c \in CallRecord : Moves(t, c) /\ c.op = "retire" /\ c.device = d
  <2> DEFINE cc == [call[t] EXCEPT !.op = "retire"]
  <2>1. call \in [Threads -> CallRecord] /\ call[t] \in CallRecord /\ call[t].device = d /\ "retire" \in Ops
    BY <1>1, <1>3, OpNames DEF Types, CallRecord, It
  <2>2. cc \in CallRecord /\ cc.op = "retire" /\ cc.device = d
    BY <2>1 DEF CallRecord
  <2>3. call' = [call EXCEPT ![t] = cc]
    BY <1>1, <2>1 DEF Go
  <2> HIDE DEF cc
  <2>4. Moves(t, cc)
    BY <1>1, <2>2, <2>3, CallFacts
  <2> QED BY <2>2, <2>4
<1>5. Locking' /\ InHand' /\ Roster' = gActiveDevices /\ Saved' = gActiveDevices
  BY <1>1, <1>2, <1>4, WriteEnds, OpNames
<1>6. /\ gAllDevices' \in Seq(DeviceRecord) /\ Len(gAllDevices') = Len(gAllDevices)
      /\ \A e \in Made :
           /\ gAllDevices'[e].slot = gAllDevices[e].slot /\ gAllDevices'[e].id = gAllDevices[e].id
           /\ gAllDevices'[e].shape = gAllDevices[e].shape
           /\ gAllDevices'[e].deletePending = gAllDevices[e].deletePending
           /\ e # d => gAllDevices'[e].active = gAllDevices[e].active
      /\ SameClients
  BY <1>1, <1>3, DeactivateFacts
<1>7. Made' = Made
  BY <1>6 DEF Made
<1>8. PICK n \in Nat : n = Len(gActiveDevices)
  BY <1>1 DEF Types
<1>9. gActiveDevices \in Seq(Nat) /\ \A k \in 1..n : gActiveDevices[k] \in Made
  BY <1>1, <1>8 DEF Types
<1>10. /\ storage' \in Seq(Line) /\ DOMAIN storage' = 1..n
       /\ \A k \in 1..n : storage'[k].id = gAllDevices[gActiveDevices[k]].id
  BY <1>1, <1>8, <1>9, InventoryFacts
<1>11. PICK p \in 1..(n + 1) : p = call[t].position /\ Inserted(Roster, gActiveDevices, p, d)
  BY <1>1, <1>3, <1>8, UnlistedFacts
<1>12. /\ \A k \in 1..n : gActiveDevices[k] # d
       /\ \A j, k \in 1..n : gAllDevices[gActiveDevices[j]].id = gAllDevices[gActiveDevices[k]].id => j = k
  BY <1>1, <1>3, <1>8, UnlistedFacts
<1>13. Types'
  <2>1. gStateMutex' \in Threads \cup {NoThread} /\ promised' \subseteq Ids /\ call' \in [Threads -> CallRecord]
    BY <1>1, <1>4 DEF Types, Moves
  <2> QED BY <1>1, <1>6, <1>7, <1>10, <2>1 DEF Types, CallRecord
<1>14. Calls'
  BY <1>4, <1>7, OpNames DEF IndInv, Calls, It, Moves
<1>15. Slotted' /\ AttachedKeepSlot'
  BY <1>1, <1>6, <1>7 DEF IndInv, Slotted, AttachedKeepSlot, SameClients
<1>16. RunningIsActive'
  <2>1. gAllDevices[d].runningClients = 0
    BY <1>1, <1>3 DEF IndInv, InHand
  <2>2. ~(0 > 0)
    OBVIOUS
  <2> QED BY <1>6, <1>7, <2>1, <2>2 DEF IndInv, RunningIsActive, SameClients
<1>17. Rostered'
  <2>1. ASSUME NEW k \in 1..n
        PROVE  gAllDevices'[gActiveDevices[k]].active /\ gSlots[gAllDevices'[gActiveDevices[k]].slot] = gActiveDevices[k]
    <3>1. gActiveDevices[k] \in Made /\ gAllDevices[gActiveDevices[k]].active /\ Holds(gActiveDevices[k])
      BY <1>8, ListedFacts
    <3> QED BY <1>6, <1>12, <3>1 DEF Holds
  <2>2. \A j, k \in 1..n : gAllDevices'[gActiveDevices[j]].id = gAllDevices'[gActiveDevices[k]].id => j = k
    BY <1>6, <1>9, <1>12
  <2> QED BY <1>1, <1>5, <1>8, <2>1, <2>2 DEF Rostered, Holds
<1>18. Stored'
  <2>1. InventoryOf(gAllDevices', gActiveDevices) = InventoryOf(gAllDevices, gActiveDevices)
    BY <1>6, <1>8, <1>9 DEF InventoryOf
  <2> QED BY <1>1, <1>5, <2>1 DEF Stored
<1>19. CreatedSurvive'
  <2> SUFFICES ASSUME NEW id \in promised' PROVE \E k \in 1..n : storage'[k].id = id
    BY <1>10 DEF CreatedSurvive
  <2>1. id \in promised /\ id # gAllDevices[d].id
    BY <1>1, <1>3
  <2>2. /\ Saved \in Seq(Nat) /\ \A k \in 1..Len(Saved) : Saved[k] \in Made
        /\ Saved = Roster
    BY <1>1, RosterFacts
  <2>3. /\ Len(Roster) = n + 1
        /\ \A k \in 1..(n + 1) : Roster[k] = IF k < p THEN gActiveDevices[k] ELSE IF k = p THEN d ELSE gActiveDevices[k - 1]
    BY <1>8, <1>11 DEF Inserted
  <2>4. DOMAIN storage = 1..(n + 1) /\ \A k \in 1..(n + 1) : storage[k].id = gAllDevices[Roster[k]].id
    BY <1>1, <2>2, <2>3, InventoryFacts DEF IndInv, Stored
  <2>5. PICK k \in 1..(n + 1) : gAllDevices[Roster[k]].id = id
    BY <2>1, <2>4 DEF IndInv, CreatedSurvive
  <2>6. k # p
    BY <2>1, <2>3, <2>5
  <2>7. (k < p => k \in 1..n) /\ (~(k < p) => k - 1 \in 1..n)
    BY <1>8, <1>11, <2>6
  <2> QED BY <1>10, <2>3, <2>5, <2>6, <2>7
<1>20. Retiring'
  <2> SUFFICES ASSUME NEW s \in Slots, gSlots[s] # Null
               PROVE  \/ gAllDevices'[gSlots[s]].active \/ gAllDevices'[gSlots[s]].attachedClients > 0
                      \/ \E u \in Threads : call'[u].op = "retire" /\ call'[u].device = gSlots[s]
    BY <1>1 DEF Retiring, It
  <2>1. CASE gSlots[s] = d
    BY <1>4, <2>1 DEF Moves
  <2>2. CASE gSlots[s] # d
    <3>1. gSlots[s] \in Made
      BY DEF IndInv, Slotted
    <3> QED BY <1>2, <1>4, <1>6, <2>2, <3>1, RetiringLast DEF SameClients
  <2> QED BY <2>1, <2>2
<1>21. OneOwner'
  BY <1>1, <1>2, <1>4, <1>6, <1>7, OwnersLast, OpNames
<1> QED
  BY <1>5, <1>13, <1>14, <1>15, <1>16, <1>17, <1>18, <1>19, <1>20, <1>21 DEF IndInv

\* It fails: the device is back in its place, and the list is the stored one again.
LEMMA RemoveFailedStep ==
  ASSUME IndInv, NEW t \in Threads, RemoveFailed(t)
  PROVE  IndInv'
<1>1. /\ call[t].op = "persist_remove" /\ gActiveDevices' = InsertAt(gActiveDevices, call[t].position, It(t))
      /\ gStateMutex' = NoThread /\ Return(t) /\ Types
      /\ UNCHANGED <<gAllDevices, gSlots, storage, changes, restarts, promised>>
  BY DEF RemoveFailed, history, IndInv
<1>2. call[t].op \in Writing /\ call[t].op \notin Owning /\ call[t].op # "retire" /\ call[t].op # "idle"
  BY <1>1, OpNames DEF Writing
<1>3. Moves(t, Idle) /\ Wellformed(Idle) /\ Idle.op = "idle"
  BY <1>1, ReturnFacts
<1>4. Locking' /\ InHand' /\ Roster' = gActiveDevices' /\ Saved' = gActiveDevices'
  BY <1>1, <1>2, <1>3, WriteEnds, OpNames
<1>5. /\ Roster' = Roster /\ Saved' = Saved /\ gActiveDevices' = Roster
      /\ Roster \in Seq(Nat) /\ \A k \in 1..Len(Roster) : Roster[k] \in Made
  BY <1>1, <1>4, RosterFacts
<1>6. Made' = Made
  BY <1>1 DEF Made
<1>7. Types'
  <2>1. gStateMutex' \in Threads \cup {NoThread} /\ call' \in [Threads -> CallRecord]
    BY <1>1, <1>3 DEF Moves
  <2>2. gActiveDevices' \in Seq(Nat) /\ \A k \in 1..Len(gActiveDevices') : gActiveDevices'[k] \in Made
    BY <1>5
  <2> QED BY <1>1, <1>6, <2>1, <2>2 DEF Types, CallRecord
<1>8. Calls'
  BY <1>3, <1>6 DEF IndInv, Calls, It, Moves, Wellformed
<1>9. Slotted' /\ RunningIsActive' /\ AttachedKeepSlot' /\ CreatedSurvive'
  BY <1>1, <1>6 DEF IndInv, Slotted, RunningIsActive, AttachedKeepSlot, CreatedSurvive
<1>10. Rostered' /\ Stored'
  BY <1>1, <1>5 DEF IndInv, Rostered, Holds, Stored
<1>11. Retiring'
  BY <1>1, <1>2, <1>3, RetiringLast DEF Retiring, It
<1>12. OneOwner'
  BY <1>1, <1>2, <1>3, <1>6, OwnersLast, OpNames
<1> QED
  BY <1>4, <1>7, <1>8, <1>9, <1>10, <1>11, <1>12 DEF IndInv

-----------------------------------------------------------------------------
(* Restart *)

\* The stored list is the listed one as far as it goes.
LEMMA SavedFacts ==
  ASSUME IndInv
  PROVE  \A k \in 1..Len(Saved) : k \in 1..Len(Roster) /\ Saved[k] = Roster[k]
<1>0. Len(Saved) \in Nat /\ Len(Roster) \in Nat /\ Len(Saved) <= Len(Roster)
  BY RosterFacts
<1>1. \A k \in 1..Len(Saved) : k \in 1..Len(Roster)
  BY <1>0
<1>2. CASE Unlocked
  BY <1>1, <1>2, RosterFacts
<1>3. CASE ~Unlocked
  <2>1. PICK t \in Threads : call[t].op \in Writing
    BY <1>3, OneWriter DEF IndInv, Unlocked
  <2>2. CASE call[t].op = "persist_remove"
    BY <1>1, <2>2, RosterFacts
  <2>3. CASE call[t].op = "persist_add"
    <3>1. Roster = gActiveDevices /\ Saved = Front(gActiveDevices)
      BY <2>3, RosterFacts
    <3>2. gActiveDevices \in Seq(Nat) /\ Len(gActiveDevices) >= 1
      BY <2>3 DEF IndInv, Types, InHand
    <3>3. Len(Saved) = Len(gActiveDevices) - 1 /\ \A k \in 1..(Len(gActiveDevices) - 1) : Saved[k] = gActiveDevices[k]
      BY <3>1, <3>2, FrontFacts
    <3> QED BY <1>1, <3>1, <3>3
  <2> QED BY <2>1, <2>2, <2>3 DEF Writing
<1> QED
  BY <1>2, <1>3

\* The devices of the list have distinct slots: there are at most as many.
LEMMA RosterFits ==
  ASSUME IndInv
  PROVE  Len(Roster) <= MaxSlots
<1> DEFINE n == Len(Roster)
           f == [k \in 1..n |-> gAllDevices[Roster[k]].slot]
<1>1. n \in Nat /\ MaxSlots \in Nat /\ Slots = 1..MaxSlots
  BY RosterFacts, DriverAssumption DEF Slots
<1>2. \A k \in 1..n : Roster[k] \in Made /\ Holds(Roster[k]) /\ gAllDevices[Roster[k]].slot \in Slots
  BY RosterFacts, DeviceFacts DEF IndInv, Rostered
<1>3. ASSUME NEW j \in 1..n, NEW k \in 1..n, gAllDevices[Roster[j]].slot = gAllDevices[Roster[k]].slot PROVE j = k
  <2>1. Roster[j] = Roster[k]
    BY <1>2, <1>3 DEF Holds
  <2> QED BY <2>1 DEF IndInv, Rostered
<1>4. f \in [1..n -> Slots] /\ \A j, k \in 1..n : f[j] = f[k] => j = k
  BY <1>2, <1>3
<1> HIDE DEF f, n
<1>5. IsFiniteSet(1..n) /\ Cardinality(1..n) = (IF 1 > n THEN 0 ELSE n - 1 + 1)
  BY <1>1, FS_Interval
<1>6. IsFiniteSet(Slots) /\ Cardinality(Slots) = (IF 1 > MaxSlots THEN 0 ELSE MaxSlots - 1 + 1)
  BY <1>1, FS_Interval
<1>7. ~(Cardinality(Slots) < Cardinality(1..n))
  <2> SUFFICES ASSUME Cardinality(Slots) < Cardinality(1..n) PROVE FALSE
    OBVIOUS
  <2>1. f \in [1..n -> Slots] /\ IsFiniteSet(1..n) /\ IsFiniteSet(Slots)
    BY <1>4, <1>5, <1>6
  <2>2. \E x, y \in 1..n : x # y /\ f[x] = f[y]
    BY <2>1, FS_PigeonHole, Zenon
  <2> QED BY <1>4, <2>2
<1>8. Cardinality(1..n) = n /\ Cardinality(Slots) = MaxSlots
  BY <1>1, <1>5, <1>6
<1>9. n <= MaxSlots
  BY <1>1, <1>7, <1>8
<1> QED
  BY <1>9 DEF n

\* What is in storage can be loaded: it fits the slots and its ids are distinct.
LEMMA StorageFacts ==
  ASSUME IndInv
  PROVE  /\ storage \in Seq(Line) /\ Len(storage) \in Nat /\ Len(storage) <= MaxSlots
         /\ \A k \in 1..Len(storage) : storage[k] \in Line
         /\ \A j, k \in 1..Len(storage) : storage[j].id = storage[k].id => j = k
<1>1. Saved \in Seq(Nat) /\ \A k \in 1..Len(Saved) : Saved[k] \in Made
  BY RosterFacts
<1>2. /\ Len(storage) = Len(Saved)
      /\ \A k \in 1..Len(Saved) : storage[k].id = gAllDevices[Saved[k]].id
  BY <1>1, InventoryFacts DEF IndInv, Stored
<1>3. storage \in Seq(Line)
  BY DEF IndInv, Types
<1>4. Len(Saved) \in Nat /\ Len(Roster) \in Nat /\ MaxSlots \in Nat /\ Len(Saved) <= Len(Roster) /\ Len(Roster) <= MaxSlots
  BY RosterFacts, RosterFits, DriverAssumption
<1>5. Len(Saved) <= MaxSlots
  BY <1>4
<1>6. \A j, k \in 1..Len(Saved) : storage[j].id = storage[k].id => j = k
  BY <1>2, SavedFacts DEF IndInv, Rostered
<1>7. \A k \in 1..Len(storage) : storage[k] \in Line
  BY <1>3
<1> QED
  BY <1>2, <1>3, <1>4, <1>5, <1>6, <1>7

\* The plug-in has just loaded the stored inventory, and nothing is under way.
Started ==
  /\ storage \in Seq(Line) /\ Len(storage) <= MaxSlots
  /\ \A j, k \in 1..Len(storage) : storage[j].id = storage[k].id => j = k
  /\ gAllDevices = [k \in 1..Len(storage) |-> NewDevice(k, storage[k].id, storage[k].shape)]
  /\ gActiveDevices = [k \in 1..Len(storage) |-> k]
  /\ gSlots = [s \in Slots |-> IF s <= Len(storage) THEN s ELSE Null]
  /\ gStateMutex = NoThread /\ changes = {} /\ call = [t \in Threads |-> Idle]
  /\ restarts \in Nat /\ promised \subseteq Ids /\ CreatedSurvive

\* A Device as NewDevice makes it.
Fresh(r, s, line) ==
  /\ r \in DeviceRecord /\ r.slot = s /\ r.id = line.id /\ r.shape = line.shape
  /\ r.active = TRUE /\ r.deletePending = FALSE /\ r.attachedClients = 0 /\ r.runningClients = 0

\* Such a state is a good one.
LEMMA Starts == Started => IndInv
<1> SUFFICES ASSUME Started PROVE IndInv
  OBVIOUS
<1>1. PICK n \in Nat : n = Len(storage) /\ n <= MaxSlots
  BY DEF Started
<1>2. storage \in Seq(Line) /\ \A k \in 1..n : storage[k] \in Line
  BY <1>1 DEF Started
<1>3. \A k \in 1..n : k \in Nat /\ k # 0 /\ k \in Slots
  BY <1>1, DriverAssumption DEF Slots
<1>4. ASSUME NEW k \in 1..n
      PROVE  Fresh(NewDevice(k, storage[k].id, storage[k].shape), k, storage[k])
  <2>1. storage[k].id \in Ids /\ storage[k].shape \in Shapes /\ k \in Slots
    BY <1>2, <1>3 DEF Line
  <2> QED BY <2>1 DEF NewDevice, DeviceRecord, Fresh
<1>5. gAllDevices \in Seq(DeviceRecord) /\ Len(gAllDevices) = n /\ \A k \in 1..n : Fresh(gAllDevices[k], k, storage[k])
  <2>1. gAllDevices = [k \in 1..n |-> NewDevice(k, storage[k].id, storage[k].shape)]
    BY <1>1 DEF Started
  <2>2. \A k \in 1..n : gAllDevices[k] = NewDevice(k, storage[k].id, storage[k].shape)
    BY <2>1
  <2>3. \A k \in 1..n : Fresh(gAllDevices[k], k, storage[k])
    BY <1>4, <2>2
  <2>4. \A k \in 1..n : gAllDevices[k] \in DeviceRecord
    BY <2>3 DEF Fresh
  <2>5. gAllDevices \in [1..n -> DeviceRecord]
    BY <2>1, <2>4
  <2> QED BY <1>1, <2>3, <2>5
<1>6. \A k \in 1..n :
        /\ gAllDevices[k].slot = k /\ gAllDevices[k].id = storage[k].id /\ gAllDevices[k].shape = storage[k].shape
        /\ gAllDevices[k].active = TRUE /\ gAllDevices[k].deletePending = FALSE
        /\ gAllDevices[k].attachedClients = 0 /\ gAllDevices[k].runningClients = 0
  BY <1>5 DEF Fresh
<1>7. gActiveDevices \in Seq(Nat) /\ Len(gActiveDevices) = n /\ \A k \in 1..n : gActiveDevices[k] = k
  <2>1. gActiveDevices = [k \in 1..n |-> k] /\ gActiveDevices \in [1..n -> Nat]
    BY <1>1, <1>3 DEF Started
  <2> QED BY <1>1, <2>1
<1>8. /\ gSlots \in [Slots -> Nat] /\ \A k \in 1..n : gSlots[k] = k
      /\ \A s \in Slots : gSlots[s] # Null => s \in 1..n /\ gSlots[s] = s
  <2>1. gSlots = [s \in Slots |-> IF s <= n THEN s ELSE Null]
    BY <1>1 DEF Started
  <2>2. \A s \in Slots : s \in Nat /\ s >= 1
    BY DriverAssumption DEF Slots
  <2>3. gSlots \in [Slots -> Nat]
    BY <2>1, <2>2 DEF Null
  <2>4. \A k \in 1..n : k <= n
    BY <1>1
  <2>5. \A k \in 1..n : gSlots[k] = k
    BY <1>3, <2>1, <2>4
  <2>6. \A s \in Slots : gSlots[s] # Null => s \in 1..n /\ gSlots[s] = s
    BY <1>1, <2>1, <2>2
  <2> QED BY <2>3, <2>5, <2>6
<1>9. Made = 1..n
  BY <1>5 DEF Made
<1>10. /\ gStateMutex = NoThread /\ changes = {} /\ restarts \in Nat /\ promised \subseteq Ids /\ CreatedSurvive
       /\ \A j, k \in 1..n : storage[j].id = storage[k].id => j = k
       /\ call = [t \in Threads |-> Idle]
  BY <1>1 DEF Started
<1>11. /\ call \in [Threads -> CallRecord]
       /\ \A t \in Threads : call[t] = Idle /\ call[t].op = "idle" /\ call[t].op \notin Writing /\ call[t].op \notin Owning
  BY <1>10, CallRecords, OpNames
<1>12. Types
  <2>1. \A k \in 1..Len(gActiveDevices) : gActiveDevices[k] \in Made
    BY <1>7, <1>9
  <2> QED BY <1>2, <1>5, <1>7, <1>8, <1>10, <1>11, <2>1 DEF Types, CallRecord
<1>13. Calls /\ Locking /\ InHand
  BY <1>10, <1>11, DriverAssumption DEF Calls, Locking, InHand, Writing
<1>14. Slotted
  BY <1>6, <1>8, <1>9 DEF Slotted
<1>15. Roster = gActiveDevices /\ Saved = gActiveDevices
  BY <1>10 DEF Roster, Saved
<1>16. Rostered
  <2>1. \A k \in 1..n : gAllDevices[gActiveDevices[k]].active /\ gSlots[gAllDevices[gActiveDevices[k]].slot] = gActiveDevices[k]
    BY <1>6, <1>7, <1>8
  <2>2. \A j, k \in 1..n : gAllDevices[gActiveDevices[j]].id = gAllDevices[gActiveDevices[k]].id => j = k
    BY <1>6, <1>7, <1>10
  <2> QED BY <1>7, <1>15, <2>1, <2>2 DEF Rostered, Holds
<1>17. Stored
  <2> DEFINE i == InventoryOf(gAllDevices, gActiveDevices)
  <2>1. i \in Seq(Line) /\ Len(i) = n
        /\ \A k \in 1..n : i[k].id = gAllDevices[gActiveDevices[k]].id /\ i[k].shape = gAllDevices[gActiveDevices[k]].shape
    BY <1>7, <1>9, <1>12, InventoryFacts
  <2> HIDE DEF i
  <2>2. ASSUME NEW k \in 1..n PROVE i[k] = storage[k]
    <3>1. i[k] \in Line /\ storage[k] \in Line /\ i[k].id = storage[k].id /\ i[k].shape = storage[k].shape
      BY <1>2, <1>6, <1>7, <2>1
    <3> QED BY <3>1 DEF Line
  <2>3. i = storage
    BY <1>1, <1>2, <2>1, <2>2, SeqEqual
  <2> QED BY <1>15, <2>3 DEF Stored, i
<1>18. RunningIsActive /\ AttachedKeepSlot
  BY <1>6, <1>8, <1>9 DEF RunningIsActive, AttachedKeepSlot
<1>19. Retiring
  BY <1>6, <1>8 DEF Retiring
<1>20. OneOwner
  BY <1>6, <1>9, <1>10, <1>11 DEF OneOwner, Owns
<1> QED
  BY <1>10, <1>12, <1>13, <1>14, <1>16, <1>17, <1>18, <1>19, <1>20 DEF IndInv

\* It is how the plug-in first starts, from an empty storage.
LEMMA InitIndInv == Init => IndInv
<1> SUFFICES ASSUME Init PROVE Started
  BY Starts
<1>1. storage \in Seq(Line) /\ Len(storage) = 0 /\ 0 <= MaxSlots /\ 1..0 = {}
  BY DriverAssumption DEF Init
<1>2. /\ gAllDevices = [k \in 1..0 |-> NewDevice(k, storage[k].id, storage[k].shape)]
      /\ gActiveDevices = [k \in 1..0 |-> k]
  BY DEF Init
<1>3. gSlots = [s \in Slots |-> IF s <= 0 THEN s ELSE Null]
  <2>1. \A s \in Slots : ~(s <= 0)
    BY DriverAssumption DEF Slots
  <2> QED BY <2>1 DEF Init
<1>4. CreatedSurvive /\ promised \subseteq Ids
  BY DEF Init, CreatedSurvive
<1> QED
  BY <1>1, <1>2, <1>3, <1>4 DEF Init, Started

\* And again after coreaudiod has ended at any moment, in the middle of a write too.
LEMMA InitializeStep ==
  ASSUME IndInv, Initialize
  PROVE  IndInv'
<1>1. /\ restarts' = restarts + 1 /\ Loaded(storage) /\ gStateMutex' = NoThread /\ changes' = {}
      /\ call' = [t \in Threads |-> Idle] /\ storage' = storage /\ promised' = promised
  BY DEF Initialize
<1>2. /\ storage \in Seq(Line) /\ Len(storage) <= MaxSlots
      /\ \A j, k \in 1..Len(storage) : storage[j].id = storage[k].id => j = k
  BY StorageFacts
<1>3. restarts' \in Nat /\ promised \subseteq Ids
  BY <1>1 DEF IndInv, Types
<1>4. CreatedSurvive'
  BY <1>1 DEF IndInv, CreatedSurvive
<1>5. Started'
  BY <1>1, <1>2, <1>3, <1>4 DEF Started, Loaded
<1>6. Started' => IndInv'
  BY Starts, PTL
<1> QED
  BY <1>5, <1>6

-----------------------------------------------------------------------------
(* The specification *)

\* A refused call changes nothing.
LEMMA StutterStep ==
  ASSUME IndInv, UNCHANGED vars
  PROVE  IndInv'
<1> USE DEF vars, memory, history
<1>1. Types' /\ Calls' /\ Locking' /\ Slotted'
  BY DEF IndInv, Types, Calls, Locking, Slotted, Made, It
<1>2. Roster' = Roster /\ Saved' = Saved
  BY DEF Roster, Saved, It
<1>3. InHand' /\ Rostered' /\ Stored'
  BY <1>2 DEF IndInv, InHand, Rostered, Stored, Holds, It
<1>4. CreatedSurvive' /\ RunningIsActive' /\ AttachedKeepSlot' /\ Retiring' /\ OneOwner'
  BY DEF IndInv, CreatedSurvive, RunningIsActive, AttachedKeepSlot, Retiring, OneOwner, Owns, Holds, Made, It
<1> QED
  BY <1>1, <1>3, <1>4 DEF IndInv

\* Every step keeps the invariant.
LEMMA NextIndInv ==
  ASSUME IndInv, [Next]_vars
  PROVE  IndInv'
<1>1. CASE UNCHANGED vars
  BY <1>1, StutterStep
<1>2. CASE Initialize
  BY <1>2, InitializeStep
<1>3. CASE Decide
  <2>1. PICK t \in Threads, d \in changes : DecideChange(t, d, "perform") \/ DecideChange(t, d, "abort")
    BY <1>3 DEF Decide
  <2> QED BY <2>1, DecideStep
<1>4. ASSUME NEW t \in Threads, Continue(t) PROVE IndInv'
  <2>1. CASE AddDevicePersisted(t)
    BY <2>1, AddDevicePersistedStep
  <2>2. CASE AddDeviceFailed(t)
    BY <2>2, AddDeviceFailedStep
  <2>3. CASE RequestChange(t)
    BY <2>3, RequestChangeStep
  <2>4. CASE RequestChangeFailed(t) \/ Abort(t)
    BY <2>4, UnmarkStep
  <2>5. CASE Perform(t)
    BY <2>5, PerformStep
  <2>6. CASE DestroyDevice(t)
    BY <2>6, DestroyDeviceStep
  <2>7. CASE RemovePersisted(t)
    BY <2>7, RemovePersistedStep
  <2>8. CASE RemoveFailed(t)
    BY <2>8, RemoveFailedStep
  <2>9. CASE Retire(t)
    BY <2>9, RetireStep
  <2>10. CASE AddDeviceClient(t)
    BY <2>10, AddDeviceClientStep
  <2>11. CASE RemoveDeviceClient(t)
    BY <2>11, RemoveDeviceClientStep
  <2>12. CASE StartIO(t) \/ StopIO(t)
    BY <2>12, IOStep
  <2> QED
    BY <1>4, <2>1, <2>2, <2>3, <2>4, <2>5, <2>6, <2>7, <2>8, <2>9, <2>10, <2>11, <2>12 DEF Continue
<1>5. ASSUME NEW t \in Threads, Begin(t) PROVE IndInv'
  <2>1. CASE \E id \in Ids, shape \in Shapes : AddDevice(t, id, shape)
    BY <2>1, AddDeviceStep
  <2>2. CASE \E id \in Ids : AskDelete(t, id)
    BY <2>2, AskDeleteStep
  <2>3. CASE \E s \in Slots, op \in ObjectCalls : DeviceForObject(t, op, s)
    BY <2>3, DeviceForObjectStep
  <2>4. CASE \E s \in Slots : BadObject(t, s)
    BY <2>4, StutterStep DEF BadObject
  <2> QED
    BY <1>5, <2>1, <2>2, <2>3, <2>4 DEF Begin
<1> QED
  BY <1>1, <1>2, <1>3, <1>4, <1>5 DEF Next

\* The invariant holds in every reachable state of the control plane.
THEOREM Invariance == Spec => []IndInv
  BY InitIndInv, NextIndInv, PTL DEF Spec

-----------------------------------------------------------------------------
(* What follows *)

\* Whenever the mutex is free the stored inventory is the list in its order, whatever writes
\* failed and whenever coreaudiod was restarted (AddDeviceLocked, RemoveDeviceLocked, Initialize).
THEOREM StorageMatches == Spec => []StorageIsInventory
<1>1. IndInv => StorageIsInventory
  <2> SUFFICES ASSUME IndInv, Unlocked PROVE storage = InventoryLocked
    BY DEF StorageIsInventory
  <2>1. Saved = gActiveDevices
    BY RosterFacts
  <2> QED BY <2>1 DEF IndInv, Stored, InventoryLocked
<1> QED
  BY <1>1, Invariance, PTL

\* A created device stays in the storage until its own deletion is written: no failed command, no
\* deletion of another device and no restart loses it.
THEOREM CreationsSurvive == Spec => []CreatedSurvive
<1>1. IndInv => CreatedSurvive
  BY DEF IndInv
<1> QED
  BY <1>1, Invariance, PTL

\* I/O runs only on active devices, although StartIO finds its device before it takes the mutex.
THEOREM IOOnlyOnActive == Spec => []RunningIsActive
<1>1. IndInv => RunningIsActive
  BY DEF IndInv
<1> QED
  BY <1>1, Invariance, PTL

\* A device that clients are attached to keeps its slot: the object id they know never comes to
\* name another device (AddDeviceClient, ReleaseRetiredSlotLocked).
THEOREM ObjectIdsNotReused == Spec => []AttachedKeepSlot
<1>1. IndInv => AttachedKeepSlot
  BY DEF IndInv
<1> QED
  BY <1>1, Invariance, PTL

\* Every listed device is active and answers to its object id, and no two have the same id.
THEOREM ListedAnswer == Spec => []ListedReachable
<1>1. IndInv => ListedReachable
  <2> SUFFICES ASSUME IndInv, Unlocked
               PROVE  /\ \A d \in Range(gActiveDevices) : gAllDevices[d].active /\ Holds(d)
                      /\ \A d, e \in Range(gActiveDevices) : gAllDevices[d].id = gAllDevices[e].id => d = e
    BY DEF ListedReachable, Holds
  <2>1. Roster = gActiveDevices
    BY RosterFacts
  <2>2. Range(gActiveDevices) = {gActiveDevices[k] : k \in 1..Len(gActiveDevices)}
    BY DEF Range, IndInv, Types
  <2> QED BY <2>1, <2>2 DEF IndInv, Rostered
<1> QED
  BY <1>1, Invariance, PTL

\* When no call is in progress every slot is held by an active device or by one that still has
\* clients: deletions do not use up the kMaximumDevices slots.
THEOREM SlotsNotLeaked == Spec => []NoSlotLeak
<1>1. IndInv => NoSlotLeak
  <2> SUFFICES ASSUME IndInv, \A t \in Threads : call[t] = Idle, NEW s \in Slots, gSlots[s] # Null
               PROVE  gAllDevices[gSlots[s]].active \/ gAllDevices[gSlots[s]].attachedClients > 0
    BY DEF NoSlotLeak
  <2>1. \A t \in Threads : call[t].op # "retire"
    BY CallRecords, OpNames
  <2> QED BY <2>1 DEF IndInv, Retiring
<1> QED
  BY <1>1, Invariance, PTL

\* A listed device is marked deletePending exactly while one request for its deletion is under
\* way, at the host or in a call, and there is never a second one (AskDelete to Perform or Abort).
THEOREM OneDeletion == Spec => []DeletionHasOwner
<1>1. IndInv => DeletionHasOwner
  <2> SUFFICES ASSUME IndInv, NEW d \in Range(gActiveDevices)
               PROVE  Cardinality({t \in Threads : It(t) = d /\ call[t].op \in {"request", "perform", "abort"}})
                        + (IF d \in changes THEN 1 ELSE 0) = IF gAllDevices[d].deletePending THEN 1 ELSE 0
    BY DEF DeletionHasOwner
  <2> DEFINE owners == {t \in Threads : It(t) = d /\ call[t].op \in {"request", "perform", "abort"}}
  <2>1. PICK k \in 1..Len(gActiveDevices) : d = gActiveDevices[k]
    BY DEF Range, IndInv, Types
  <2>2. d \in Made /\ Holds(d)
    BY <2>1, ListedFacts
  <2>3. /\ \A t, u \in owners : t = u
        /\ d \in changes => owners = {}
        /\ gAllDevices[d].deletePending <=> d \in changes \/ owners # {}
    BY <2>2 DEF IndInv, OneOwner, Owns, Owning
  <2> HIDE DEF owners
  <2>4. CASE owners = {}
    <3>1. Cardinality(owners) = 0
      BY <2>4, FS_EmptySet
    <3> QED BY <2>3, <2>4, <3>1 DEF owners
  <2>5. CASE owners # {}
    <3>0. PICK t \in owners : TRUE
      BY <2>5
    <3>1. owners = {t}
      BY <2>3, <3>0
    <3>2. Cardinality(owners) = 1
      BY <3>1, FS_Singleton
    <3> QED BY <2>3, <2>5, <3>2 DEF owners
  <2> QED BY <2>4, <2>5
<1> QED
  BY <1>1, Invariance, PTL
=============================================================================
