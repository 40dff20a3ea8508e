-------------------------- MODULE Dispatch_proofs --------------------------
(***************************************************************************)
(* Proofs about Dispatch for any number of threads, dispatch keys and      *)
(* queue families: an entry of g_devices describes the device that lives   *)
(* under its key and no other, and the overlay is drawn only where the     *)
(* entry allows it, whatever the threads do in between.                    *)
(***************************************************************************)
EXTENDS Dispatch, TLAPS

-----------------------------------------------------------------------------
(* The inductive invariant *)

Objects == [id : Nat, inst : Nat, infos : SUBSET Infos]
Entries == [disp : Nat, inst : Nat, gfx : Families \cup {None},
            queue : {"unset", "plain", "flagged"}, queues : SUBSET (Nat \X Infos),
            failed : Nat, exists : BOOLEAN]

InstSteps == {"recordInstance", "eraseInstance", "downInstance"}
DevSteps  == {"recordDevice", "eraseDevice", "downDevice", "present", "drawing"}

(* Every variable keeps its type. *)
TypeOK ==
    /\ inst \in [InstKeys -> Nat] /\ dev \in [DevKeys -> Objects]
    /\ made \in [instances : Nat, devices : Nat]
    /\ instances \in [InstKeys -> Nat] /\ devices \in [DevKeys -> Entries]
    /\ lost \subseteq InstKeys \cup DevKeys
    /\ pc \in [Threads -> {"out"} \cup InstSteps \cup DevSteps]
    /\ key \in [Threads -> InstKeys \cup DevKeys \cup {None}]
    /\ queue \in [Threads -> Infos \cup {None}]

(* A thread inside a hook works on an object that lives and is not lost,   *)
(* and shares it with nobody unless both are presenting.                   *)
OneWorker ==
    /\ \A t \in Threads : pc[t] = "out" <=> key[t] = None
    /\ \A t \in Threads : pc[t] \in InstSteps => key[t] \in InstKeys /\ inst[key[t]] # 0
    /\ \A t \in Threads : pc[t] \in DevSteps => key[t] \in DevKeys /\ dev[key[t]].id # 0
    /\ \A t \in Threads : key[t] \notin lost
    /\ \A t, u \in Threads :
          t # u /\ key[t] = key[u] /\ key[t] # None => pc[t] \in {"present", "drawing"}

(* What is lost still lives below the layer; what has no number is nothing,*)
(* and a device that is still the application's has an instance that is,   *)
(* and that nobody is destroying.                                          *)
ObjectsLive ==
    /\ \A k \in InstKeys : k \in lost => inst[k] # 0
    /\ \A k \in DevKeys : k \in lost => dev[k].id # 0
    /\ \A k \in DevKeys : dev[k].id = 0 => dev[k] = NoDevice
    /\ \A k \in DevKeys : dev[k].id # 0 => dev[k].inst # 0
    /\ \A k \in DevKeys : dev[k].id # 0 /\ k \notin lost =>
          \E i \in InstKeys :
             /\ inst[i] = dev[k].inst /\ i \notin lost
             /\ \A u \in Threads : key[u] = i => pc[u] = "recordInstance"

(* Entry e tells of device d only, and the family and the queue the        *)
(* overlay is drawn with go together.                                      *)
Own(e, d) ==
    /\ e.disp = d.id /\ e.queues \subseteq EnumeratedQueues(d)
    /\ e.failed \in {0, d.id} /\ e.inst \in {0, d.inst}
    /\ e.gfx # None => e.gfx \in Graphics /\ e.inst # 0 /\ e.queue = GetDeviceQueue(d, e.gfx)

(* A key has no entry before RecordDevice and after EraseDevice. *)
EntriesOwn ==
    /\ \A k \in DevKeys :
          \/ devices[k] = NoEntry
          \/ devices[k].exists /\ dev[k].id # 0 /\ k \notin lost /\ Own(devices[k], dev[k])
    /\ \A t \in Threads : pc[t] \in {"recordDevice", "downDevice"} => devices[key[t]] = NoEntry

(* A drawing thread's guards still hold. *)
DrawingAllowed ==
    \A t \in Threads : pc[t] = "drawing" =>
       /\ devices[key[t]].exists /\ queue[t] \in Infos
       /\ queue[t].family \in Graphics /\ devices[key[t]].gfx = queue[t].family
       /\ devices[key[t]].queue = "plain" /\ devices[key[t]].inst # 0

DispatchInv == TypeOK /\ OneWorker /\ ObjectsLive /\ EntriesOwn /\ DrawingAllowed

-----------------------------------------------------------------------------
(* Lemmas *)

(* Thread t is now at `to` with key k, and no other thread has moved. *)
Moved(t, to, k) ==
    /\ pc' \in [Threads -> {"out"} \cup InstSteps \cup DevSteps]
    /\ key' \in [Threads -> InstKeys \cup DevKeys \cup {None}]
    /\ pc'[t] = to /\ key'[t] = k
    /\ \A u \in Threads : u # t => pc'[u] = pc[u] /\ key'[u] = key[u]

(* What a thread that moves on leaves alone. *)
LEMMA GoesMovesOne ==
    ASSUME TypeOK, NEW t \in Threads, NEW to \in {"out"} \cup InstSteps \cup DevSteps,
           NEW k \in InstKeys \cup DevKeys \cup {None}, Goes(t, to, k)
    PROVE  Moved(t, to, k)
    BY DEF TypeOK, Goes, Moved

(* What a device without an entry is described by (dispatch.cpp:258-294):  *)
(* its own numbers, and a graphics family only with its instance.          *)
LEMMA DescribedIsOwn ==
    ASSUME NEW d \in Objects, d.inst # 0
    PROVE  /\ Described(NoEntry, d) \in Entries
           /\ Described(NoEntry, d).exists
           /\ Own(Described(NoEntry, d), d)
           /\ EnumeratedQueues(d) \subseteq Nat \X Infos
<1> DEFINE f == CHOOSE g \in Capable(d) : TRUE
<1>1. Capable(d) # {} => f \in Capable(d)
    OBVIOUS
<1>2. Capable(d) \subseteq Graphics /\ Capable(d) \subseteq Families
    BY DispatchAssumption DEF Capable
<1>3. Capable(d) # {} => Known(d)
    BY DEF Capable
<1>4. EnumeratedQueues(d) \subseteq Nat \X Infos
    BY DEF EnumeratedQueues, Objects
<1>5. GetDeviceQueue(d, f) \in {"plain", "flagged"}
    BY DEF GetDeviceQueue
<1>6. NoEntry \in Entries
    BY DEF NoEntry, Entries
<1>6a. Described(NoEntry, d) =
         [NoEntry EXCEPT !.exists = TRUE, !.disp = d.id,
              !.inst   = IF Known(d) THEN d.inst ELSE @,
              !.gfx    = IF Capable(d) # {} THEN f ELSE @,
              !.queue  = IF Capable(d) # {} THEN GetDeviceQueue(d, f) ELSE @,
              !.queues = @ \cup EnumeratedQueues(d)]
    BY DEF Described
<1>6b. {} \cup EnumeratedQueues(d) = EnumeratedQueues(d)
    OBVIOUS
<1> HIDE DEF f
<1>7. Described(NoEntry, d) =
         [disp |-> d.id, inst |-> IF Known(d) THEN d.inst ELSE 0,
          gfx |-> IF Capable(d) # {} THEN f ELSE None,
          queue |-> IF Capable(d) # {} THEN GetDeviceQueue(d, f) ELSE "unset",
          queues |-> EnumeratedQueues(d), failed |-> 0, exists |-> TRUE]
    BY <1>6a, <1>6b DEF NoEntry
<1>8. Described(NoEntry, d) \in Entries
    BY <1>1, <1>2, <1>4, <1>5, <1>7 DEF Entries, Objects
<1>9. Own(Described(NoEntry, d), d)
    BY <1>1, <1>2, <1>3, <1>7 DEF Own
<1> QED
    BY <1>4, <1>7, <1>8, <1>9

-----------------------------------------------------------------------------
(* Initial states, and one lemma per group of operations *)

LEMMA DispatchInvInit == Init => DispatchInv
    BY DispatchAssumption
       DEF Init, DispatchInv, TypeOK, OneWorker, ObjectsLive, EntriesOwn, DrawingAllowed,
           NoDevice, NoEntry, Objects, Entries, InstSteps, DevSteps

(* A new instance takes a key nobody works on. *)
LEMMA KeepsCreateInstance ==
    ASSUME DispatchInv, NEW t \in Threads, NEW k \in InstKeys,
           CreateInstance(t, k)
    PROVE  DispatchInv'
<1> USE DispatchAssumption DEF DispatchInv
<1>1. Moved(t, "recordInstance", k)
    BY GoesMovesOne DEF CreateInstance, InstSteps, DevSteps, TypeOK, OneWorker
<1>2. TypeOK'
    BY <1>1
       DEF Moved, TypeOK, OneWorker, InstSteps, DevSteps, CreateInstance, mapVars, InUse
<1>3. OneWorker'
    BY <1>1
       DEF Moved, TypeOK, OneWorker, ObjectsLive, InstSteps, DevSteps, CreateInstance,
           mapVars, InUse
<1>4. ObjectsLive'
    BY <1>1, SMTT(30)
       DEF Moved, TypeOK, OneWorker, ObjectsLive, InstSteps, DevSteps, CreateInstance,
           mapVars, InUse
<1>5. EntriesOwn'
    BY <1>1
       DEF Moved, TypeOK, OneWorker, ObjectsLive, EntriesOwn, Own, InstSteps, DevSteps,
           CreateInstance, mapVars, InUse
<1>6. DrawingAllowed'
    BY <1>1
       DEF Moved, TypeOK, OneWorker, EntriesOwn, DrawingAllowed, InstSteps, DevSteps,
           CreateInstance, mapVars, InUse
<1> QED
    BY <1>2, <1>3, <1>4, <1>5, <1>6

(* The entry of an instance is made, or not. *)
LEMMA KeepsRecordInstance ==
    ASSUME DispatchInv, NEW t \in Threads,
           RecordInstance(t)
    PROVE  DispatchInv'
<1> USE DispatchAssumption DEF DispatchInv
<1>1. Moved(t, "out", None)
    BY GoesMovesOne DEF RecordInstance, Returns, InstSteps, DevSteps, TypeOK, OneWorker
<1>2. TypeOK'
    BY <1>1 DEF Moved, TypeOK, OneWorker, InstSteps, DevSteps, RecordInstance, driverVars
<1>3. OneWorker'
    BY <1>1
       DEF Moved, TypeOK, OneWorker, ObjectsLive, InstSteps, DevSteps, RecordInstance,
           driverVars
<1>4. ObjectsLive'
    BY <1>1
       DEF Moved, TypeOK, OneWorker, ObjectsLive, InstSteps, DevSteps, RecordInstance,
           driverVars
<1>5. EntriesOwn'
    BY <1>1
       DEF Moved, TypeOK, OneWorker, ObjectsLive, EntriesOwn, Own, InstSteps, DevSteps,
           RecordInstance, driverVars
<1>6. DrawingAllowed'
    BY <1>1
       DEF Moved, TypeOK, OneWorker, EntriesOwn, DrawingAllowed, InstSteps, DevSteps,
           RecordInstance, driverVars
<1> QED
    BY <1>2, <1>3, <1>4, <1>5, <1>6

(* An instance goes after its devices. *)
LEMMA KeepsDestroyInstance ==
    ASSUME DispatchInv, NEW t \in Threads, NEW k \in InstKeys,
           DestroyInstance(t, k)
    PROVE  DispatchInv'
<1> USE DispatchAssumption DEF DispatchInv
<1>1. Moved(t, "eraseInstance", k)
    BY GoesMovesOne DEF DestroyInstance, InstSteps, DevSteps, TypeOK, OneWorker
<1>2. TypeOK'
    BY <1>1
       DEF Moved, TypeOK, OneWorker, InstSteps, DevSteps, DestroyInstance, driverVars,
           mapVars, InUse
<1>3. OneWorker'
    BY <1>1
       DEF Moved, TypeOK, OneWorker, ObjectsLive, InstSteps, DevSteps, DestroyInstance,
           driverVars, mapVars, InUse
<1>4. ObjectsLive'
    BY <1>1
       DEF Moved, TypeOK, OneWorker, ObjectsLive, InstSteps, DevSteps, DestroyInstance,
           driverVars, mapVars, InUse
<1>5. EntriesOwn'
    BY <1>1
       DEF Moved, TypeOK, OneWorker, ObjectsLive, EntriesOwn, Own, InstSteps, DevSteps,
           DestroyInstance, driverVars, mapVars, InUse
<1>6. DrawingAllowed'
    BY <1>1
       DEF Moved, TypeOK, OneWorker, EntriesOwn, DrawingAllowed, InstSteps, DevSteps,
           DestroyInstance, driverVars, mapVars, InUse
<1> QED
    BY <1>2, <1>3, <1>4, <1>5, <1>6

(* The entry is erased, and the instance lost when there was none. *)
LEMMA KeepsEraseInstance ==
    ASSUME DispatchInv, NEW t \in Threads,
           EraseInstance(t)
    PROVE  DispatchInv'
<1> USE DispatchAssumption DEF DispatchInv
<1>1. \/ Moved(t, "downInstance", key[t]) /\ lost' = lost
      \/ Moved(t, "out", None) /\ lost' = lost \cup {key[t]}
    BY GoesMovesOne DEF EraseInstance, Returns, InstSteps, DevSteps, TypeOK, OneWorker
<1>2. TypeOK'
    BY <1>1 DEF Moved, TypeOK, OneWorker, InstSteps, DevSteps, EraseInstance
<1>3. OneWorker'
    BY <1>1 DEF Moved, TypeOK, OneWorker, ObjectsLive, InstSteps, DevSteps, EraseInstance
<1>4. ObjectsLive'
    BY <1>1 DEF Moved, TypeOK, OneWorker, ObjectsLive, InstSteps, DevSteps, EraseInstance
<1>5. EntriesOwn'
    BY <1>1
       DEF Moved, TypeOK, OneWorker, ObjectsLive, EntriesOwn, Own, InstSteps, DevSteps,
           EraseInstance
<1>6. DrawingAllowed'
    BY <1>1
       DEF Moved, TypeOK, OneWorker, EntriesOwn, DrawingAllowed, InstSteps, DevSteps,
           EraseInstance
<1> QED
    BY <1>2, <1>3, <1>4, <1>5, <1>6

(* The instance is destroyed below the layer. *)
LEMMA KeepsDownInstance ==
    ASSUME DispatchInv, NEW t \in Threads,
           DownInstance(t)
    PROVE  DispatchInv'
<1> USE DispatchAssumption DEF DispatchInv
<1>1. Moved(t, "out", None)
    BY GoesMovesOne DEF DownInstance, Returns, InstSteps, DevSteps, TypeOK, OneWorker
<1>2. TypeOK'
    BY <1>1 DEF Moved, TypeOK, OneWorker, InstSteps, DevSteps, DownInstance, mapVars
<1>3. OneWorker'
    BY <1>1
       DEF Moved, TypeOK, OneWorker, ObjectsLive, InstSteps, DevSteps, DownInstance,
           mapVars
<1>4. ObjectsLive'
    BY <1>1
       DEF Moved, TypeOK, OneWorker, ObjectsLive, InstSteps, DevSteps, DownInstance,
           mapVars
<1>5. EntriesOwn'
    BY <1>1
       DEF Moved, TypeOK, OneWorker, ObjectsLive, EntriesOwn, Own, InstSteps, DevSteps,
           DownInstance, mapVars
<1>6. DrawingAllowed'
    BY <1>1
       DEF Moved, TypeOK, OneWorker, EntriesOwn, DrawingAllowed, InstSteps, DevSteps,
           DownInstance, mapVars
<1> QED
    BY <1>2, <1>3, <1>4, <1>5, <1>6

(* A new device takes a key without an entry. *)
LEMMA KeepsCreateDevice ==
    ASSUME DispatchInv, NEW t \in Threads, NEW k \in DevKeys, NEW i \in InstKeys,
           NEW infos \in SUBSET Infos,
           CreateDevice(t, k, i, infos)
    PROVE  DispatchInv'
<1> USE DispatchAssumption DEF DispatchInv
<1>1. Moved(t, "recordDevice", k)
    BY GoesMovesOne DEF CreateDevice, InstSteps, DevSteps, TypeOK, OneWorker
<1>0. /\ dev' \in [DevKeys -> Objects] /\ made' \in [instances : Nat, devices : Nat]
      /\ dev[k].id = 0 /\ dev'[k].id # 0 /\ dev'[k].inst = inst[i]
      /\ \A j \in DevKeys : j # k => dev'[j] = dev[j]
    BY DEF CreateDevice, TypeOK, Objects, NoDevice
<1>2. TypeOK'
    BY <1>0, <1>1
       DEF Moved, TypeOK, OneWorker, InstSteps, DevSteps, CreateDevice, mapVars, InUse
<1>3. OneWorker'
    BY <1>0, <1>1
       DEF Moved, TypeOK, OneWorker, ObjectsLive, InstSteps, DevSteps, CreateDevice,
           mapVars, InUse
<1>4. ObjectsLive'
    BY <1>0, <1>1
       DEF Moved, TypeOK, OneWorker, ObjectsLive, InstSteps, DevSteps, CreateDevice,
           mapVars, InUse
<1>5. EntriesOwn'
    BY <1>0, <1>1
       DEF Moved, TypeOK, OneWorker, ObjectsLive, EntriesOwn, Own, InstSteps, DevSteps,
           CreateDevice, mapVars, InUse
<1>6. DrawingAllowed'
    BY <1>0, <1>1
       DEF Moved, TypeOK, OneWorker, EntriesOwn, DrawingAllowed, InstSteps, DevSteps,
           CreateDevice, mapVars, InUse
<1> QED
    BY <1>2, <1>3, <1>4, <1>5, <1>6

(* A device goes when nobody uses it. *)
LEMMA KeepsDestroyDevice ==
    ASSUME DispatchInv, NEW t \in Threads, NEW k \in DevKeys,
           DestroyDevice(t, k)
    PROVE  DispatchInv'
<1> USE DispatchAssumption DEF DispatchInv
<1>1. Moved(t, "eraseDevice", k)
    BY GoesMovesOne DEF DestroyDevice, InstSteps, DevSteps, TypeOK, OneWorker
<1>2. TypeOK'
    BY <1>1
       DEF Moved, TypeOK, OneWorker, InstSteps, DevSteps, DestroyDevice, driverVars,
           mapVars, InUse, NoDevice
<1>3. OneWorker'
    BY <1>1
       DEF Moved, TypeOK, OneWorker, ObjectsLive, InstSteps, DevSteps, DestroyDevice,
           driverVars, mapVars, InUse, NoDevice
<1>4. ObjectsLive'
    BY <1>1
       DEF Moved, TypeOK, OneWorker, ObjectsLive, InstSteps, DevSteps, DestroyDevice,
           driverVars, mapVars, InUse, NoDevice
<1>5. EntriesOwn'
    BY <1>1
       DEF Moved, TypeOK, OneWorker, ObjectsLive, EntriesOwn, Own, InstSteps, DevSteps,
           DestroyDevice, driverVars, mapVars, InUse, NoDevice
<1>6. DrawingAllowed'
    BY <1>1
       DEF Moved, TypeOK, OneWorker, EntriesOwn, DrawingAllowed, InstSteps, DevSteps,
           DestroyDevice, driverVars, mapVars, InUse, NoDevice
<1> QED
    BY <1>2, <1>3, <1>4, <1>5, <1>6

(* The entry is erased before the key can come round again. *)
LEMMA KeepsEraseDevice ==
    ASSUME DispatchInv, NEW t \in Threads,
           EraseDevice(t)
    PROVE  DispatchInv'
<1> USE DispatchAssumption DEF DispatchInv
<1>1. \/ Moved(t, "downDevice", key[t]) /\ lost' = lost
      \/ Moved(t, "out", None) /\ lost' = lost \cup {key[t]}
    BY GoesMovesOne DEF EraseDevice, Returns, InstSteps, DevSteps, TypeOK, OneWorker
<1>0. /\ key[t] \in DevKeys /\ devices' \in [DevKeys -> Entries]
      /\ devices'[key[t]] = NoEntry /\ key[t] \notin InstKeys
      /\ \A j \in DevKeys : j # key[t] => devices'[j] = devices[j]
    BY DEF EraseDevice, TypeOK, OneWorker, DevSteps, Entries, NoEntry
<1>2. TypeOK'
    BY <1>0, <1>1 DEF Moved, TypeOK, OneWorker, InstSteps, DevSteps, EraseDevice
<1>3. OneWorker'
    BY <1>0, <1>1
       DEF Moved, TypeOK, OneWorker, ObjectsLive, InstSteps, DevSteps, EraseDevice
<1>4. ObjectsLive'
    BY <1>0, <1>1
       DEF Moved, TypeOK, OneWorker, ObjectsLive, InstSteps, DevSteps, EraseDevice
<1>5. EntriesOwn'
    BY <1>0, <1>1
       DEF Moved, TypeOK, OneWorker, ObjectsLive, EntriesOwn, Own, InstSteps, DevSteps,
           EraseDevice
<1>6. DrawingAllowed'
    BY <1>0, <1>1
       DEF Moved, TypeOK, OneWorker, EntriesOwn, DrawingAllowed, InstSteps, DevSteps,
           EraseDevice
<1> QED
    BY <1>2, <1>3, <1>4, <1>5, <1>6

(* The device is destroyed below the layer. *)
LEMMA KeepsDownDevice ==
    ASSUME DispatchInv, NEW t \in Threads,
           DownDevice(t)
    PROVE  DispatchInv'
<1> USE DispatchAssumption DEF DispatchInv
<1>1. Moved(t, "out", None)
    BY GoesMovesOne DEF DownDevice, Returns, InstSteps, DevSteps, TypeOK, OneWorker
<1>0. /\ key[t] \in DevKeys /\ dev' \in [DevKeys -> Objects]
      /\ dev'[key[t]] = NoDevice /\ NoDevice.id = 0
      /\ \A j \in DevKeys : j # key[t] => dev'[j] = dev[j]
    BY DEF DownDevice, TypeOK, OneWorker, DevSteps, Objects, NoDevice
<1>2. TypeOK'
    BY <1>0, <1>1 DEF Moved, TypeOK, OneWorker, InstSteps, DevSteps, DownDevice, mapVars
<1>3. OneWorker'
    BY <1>0, <1>1
       DEF Moved, TypeOK, OneWorker, ObjectsLive, InstSteps, DevSteps, DownDevice, mapVars
<1>4. ObjectsLive'
    BY <1>0, <1>1
       DEF Moved, TypeOK, OneWorker, ObjectsLive, InstSteps, DevSteps, DownDevice, mapVars
<1>5. EntriesOwn'
    BY <1>0, <1>1
       DEF Moved, TypeOK, OneWorker, ObjectsLive, EntriesOwn, Own, InstSteps, DevSteps,
           DownDevice, mapVars
<1>6. DrawingAllowed'
    BY <1>0, <1>1
       DEF Moved, TypeOK, OneWorker, EntriesOwn, DrawingAllowed, InstSteps, DevSteps,
           DownDevice, mapVars
<1> QED
    BY <1>2, <1>3, <1>4, <1>5, <1>6

(* A present shares the device with other presents only. *)
LEMMA KeepsQueuePresent ==
    ASSUME DispatchInv, NEW t \in Threads, NEW k \in DevKeys, NEW c \in Infos,
           QueuePresent(t, k, c)
    PROVE  DispatchInv'
<1> USE DispatchAssumption DEF DispatchInv
<1>1. Moved(t, "present", k)
    BY GoesMovesOne DEF QueuePresent, InstSteps, DevSteps, TypeOK, OneWorker
<1>2. TypeOK'
    BY <1>1
       DEF Moved, TypeOK, OneWorker, InstSteps, DevSteps, QueuePresent, driverVars,
           mapVars, NoDevice
<1>3. OneWorker'
    BY <1>1
       DEF Moved, TypeOK, OneWorker, ObjectsLive, InstSteps, DevSteps, QueuePresent,
           driverVars, mapVars, NoDevice
<1>4. ObjectsLive'
    BY <1>1
       DEF Moved, TypeOK, OneWorker, ObjectsLive, InstSteps, DevSteps, QueuePresent,
           driverVars, mapVars, NoDevice
<1>5. EntriesOwn'
    BY <1>1
       DEF Moved, TypeOK, OneWorker, ObjectsLive, EntriesOwn, Own, InstSteps, DevSteps,
           QueuePresent, driverVars, mapVars, NoDevice
<1>6. DrawingAllowed'
    BY <1>1
       DEF Moved, TypeOK, OneWorker, EntriesOwn, DrawingAllowed, InstSteps, DevSteps,
           QueuePresent, driverVars, mapVars, NoDevice
<1> QED
    BY <1>2, <1>3, <1>4, <1>5, <1>6

(* A key that has no entry gets one that is its device's own. *)
LEMMA KeepsNewEntry ==
    ASSUME DispatchInv, NEW t \in Threads, pc[t] = "recordDevice", Returns(t),
           UNCHANGED <<driverVars, instances, queue>>,
           NEW e \in Entries, e.exists, Own(e, dev[key[t]]),
           devices' = [devices EXCEPT ![key[t]] = e]
    PROVE  DispatchInv'
<1> USE DispatchAssumption DEF DispatchInv
<1>0. /\ key[t] \in DevKeys /\ devices' \in [DevKeys -> Entries]
      /\ dev[key[t]].id # 0 /\ key[t] \notin lost
      /\ devices'[key[t]] = e /\ key[t] \notin InstKeys
      /\ \A j \in DevKeys : j # key[t] => devices'[j] = devices[j]
    BY DEF TypeOK, OneWorker, DevSteps
<1>1. Moved(t, "out", None)
    BY GoesMovesOne DEF Returns, InstSteps, DevSteps, TypeOK, OneWorker
<1>2. TypeOK'
    BY <1>0, <1>1 DEF Moved, TypeOK, driverVars
<1>3. OneWorker'
    BY <1>0, <1>1 DEF Moved, TypeOK, OneWorker, InstSteps, DevSteps, driverVars
<1>4. ObjectsLive'
    BY <1>0, <1>1
       DEF Moved, TypeOK, OneWorker, ObjectsLive, InstSteps, DevSteps, driverVars
<1>5. EntriesOwn'
    BY <1>0, <1>1
       DEF Moved, TypeOK, OneWorker, EntriesOwn, Own, InstSteps, DevSteps, driverVars
<1>6. DrawingAllowed'
    BY <1>0, <1>1
       DEF Moved, TypeOK, OneWorker, DrawingAllowed, InstSteps, DevSteps, driverVars
<1> QED
    BY <1>2, <1>3, <1>4, <1>5, <1>6

(* CreateDevice's book-keeping to the end. *)
LEMMA KeepsRecordDevice ==
    ASSUME DispatchInv, NEW t \in Threads, RecordDevice(t)
    PROVE  DispatchInv'
<1> DEFINE d == dev[key[t]]
<1>1. d \in Objects /\ d.inst # 0 /\ devices[key[t]] = NoEntry /\ key[t] \in DevKeys
    BY DEF RecordDevice, DispatchInv, TypeOK, OneWorker, ObjectsLive, EntriesOwn, DevSteps
<1>2. devices' = [devices EXCEPT ![key[t]] = Described(NoEntry, d)]
    BY <1>1 DEF RecordDevice, DispatchInv, TypeOK
<1> QED
    BY <1>1, <1>2, DescribedIsOwn, KeepsNewEntry DEF RecordDevice

(* CreateDevice's book-keeping as far as an allocation that throws: no     *)
(* entry, one without families, or one that lacks some of the queues.      *)
LEMMA KeepsRecordDeviceThrows ==
    ASSUME DispatchInv, NEW t \in Threads, RecordDeviceThrows(t)
    PROVE  DispatchInv'
<1> DEFINE d == dev[key[t]]
           full == Described(NoEntry, d)
<1>1. d \in Objects /\ d.inst # 0 /\ devices[key[t]] = NoEntry /\ key[t] \in DevKeys
    BY DEF RecordDeviceThrows, DispatchInv, TypeOK, OneWorker, ObjectsLive, EntriesOwn,
           DevSteps
<1>2. full \in Entries /\ full.exists /\ Own(full, d) /\ EnumeratedQueues(d) \subseteq Nat \X Infos
    BY <1>1, DescribedIsOwn
<1>3. pc[t] = "recordDevice" /\ Returns(t) /\ UNCHANGED <<driverVars, instances, queue>>
    BY DEF RecordDeviceThrows
<1>4. \/ devices' = devices
      \/ devices' = [devices EXCEPT ![key[t]] =
                        [full EXCEPT !.gfx = None, !.queue = "unset", !.queues = {}]]
      \/ \E some \in SUBSET EnumeratedQueues(d) :
            devices' = [devices EXCEPT ![key[t]] = [full EXCEPT !.queues = {} \cup some]]
    <2>1. NoEntry.gfx = None /\ NoEntry.queue = "unset" /\ NoEntry.queues = {}
        BY DEF NoEntry
    <2>2. LET old == NoEntry
          IN  \/ devices' = devices
              \/ devices' = [devices EXCEPT ![key[t]] =
                      [full EXCEPT !.gfx = old.gfx, !.queue = old.queue, !.queues = old.queues]]
              \/ \E some \in SUBSET EnumeratedQueues(d) \ {EnumeratedQueues(d)} :
                     devices' = [devices EXCEPT ![key[t]] =
                                    [full EXCEPT !.queues = old.queues \cup some]]
        BY <1>1, Zenon DEF RecordDeviceThrows
    <2> HIDE DEF full, d
    <2> QED
        BY <2>1, <2>2
<1> HIDE DEF full, d
<1>5. CASE devices' = devices
    <2> USE DispatchAssumption DEF DispatchInv
    <2>1. Moved(t, "out", None)
        BY <1>3, GoesMovesOne
           DEF Returns, DispatchInv, InstSteps, DevSteps, TypeOK, OneWorker
    <2>2. TypeOK'
        BY <1>3, <1>5, <2>1 DEF Moved, TypeOK, driverVars
    <2>3. OneWorker'
        BY <1>3, <1>5, <2>1 DEF Moved, TypeOK, OneWorker, InstSteps, DevSteps, driverVars
    <2>4. ObjectsLive'
        BY <1>3, <1>5, <2>1
           DEF Moved, TypeOK, OneWorker, ObjectsLive, InstSteps, DevSteps, driverVars
    <2>5. EntriesOwn'
        BY <1>3, <1>5, <2>1
           DEF Moved, TypeOK, OneWorker, EntriesOwn, Own, InstSteps, DevSteps, driverVars
    <2>6. DrawingAllowed'
        BY <1>3, <1>5, <2>1
           DEF Moved, TypeOK, OneWorker, DrawingAllowed, InstSteps, DevSteps, driverVars
    <2> QED
        BY <2>2, <2>3, <2>4, <2>5, <2>6
<1>6. CASE devices' = [devices EXCEPT ![key[t]] =
                         [full EXCEPT !.gfx = None, !.queue = "unset", !.queues = {}]]
    <2> DEFINE e == [full EXCEPT !.gfx = None, !.queue = "unset", !.queues = {}]
    <2>1. e \in Entries /\ e.exists /\ Own(e, d)
        BY <1>2 DEF Entries, Own
    <2> QED
        BY <1>3, <1>6, <2>1, KeepsNewEntry DEF d
<1>7. ASSUME NEW some \in SUBSET EnumeratedQueues(d),
             devices' = [devices EXCEPT ![key[t]] = [full EXCEPT !.queues = {} \cup some]]
      PROVE  DispatchInv'
    <2> DEFINE e == [full EXCEPT !.queues = {} \cup some]
    <2>1. e \in Entries /\ e.exists /\ Own(e, d)
        BY <1>2 DEF Entries, Own
    <2> QED
        BY <1>3, <1>7, <2>1, KeepsNewEntry DEF d
<1> QED
    BY <1>4, <1>5, <1>6, <1>7

(* The guards of the present hook let through only what may be drawn on:   *)
(* an enumerated queue is a plain one, so the entry's queue was fetched    *)
(* from a family that has a plain one.                                     *)
LEMMA KeepsPresentGuards ==
    ASSUME DispatchInv, NEW t \in Threads, PresentGuards(t)
    PROVE  DispatchInv'
<1> USE DispatchAssumption DEF DispatchInv
<1>0. key[t] \in DevKeys /\ devices[key[t]] \in Entries /\ dev[key[t]] \in Objects
    BY DEF PresentGuards, TypeOK, OneWorker, DevSteps
<1>1. CASE MayDraw(devices[key[t]], t) /\ Goes(t, "drawing", key[t]) /\ queue' = queue
    <2> DEFINE e == devices[key[t]]
               d == dev[key[t]]
    <2>1. Moved(t, "drawing", key[t])
        BY <1>0, <1>1, GoesMovesOne
           DEF InstSteps, DevSteps, TypeOK, OneWorker, PresentGuards
    <2>2. e.exists /\ e.gfx # None /\ queue[t].family = e.gfx /\ <<d.id, queue[t]>> \in e.queues
        BY <1>1 DEF MayDraw
    <2>3. Own(e, d)
        BY <1>0, <2>2 DEF EntriesOwn, NoEntry
    <2>4. queue[t] \in d.infos /\ queue[t].plain /\ queue[t] \in Infos
        BY <1>0, <2>2, <2>3 DEF Own, EnumeratedQueues, Objects
    <2>5. queue[t] = [family |-> e.gfx, plain |-> TRUE]
        BY <2>2, <2>4 DEF Infos
    <2>6. e.gfx \in Graphics /\ e.inst # 0 /\ e.queue = "plain"
        BY <2>2, <2>3, <2>4, <2>5 DEF Own, GetDeviceQueue
    <2>7. UNCHANGED <<inst, dev, made, lost, instances, devices, queue>>
        BY <1>1 DEF PresentGuards, driverVars, mapVars
    <2> HIDE DEF e, d
    <2>8. pc[t] = "present"
        BY DEF PresentGuards
    <2>9. TypeOK'
        BY <2>1, <2>7 DEF Moved, TypeOK
    <2>10. OneWorker'
        BY <1>0, <2>1, <2>7, <2>8 DEF Moved, TypeOK, OneWorker, InstSteps, DevSteps
    <2>11. ObjectsLive'
        BY <1>0, <2>1, <2>7, <2>8
           DEF Moved, TypeOK, OneWorker, ObjectsLive, InstSteps, DevSteps
    <2>12. EntriesOwn'
        BY <1>0, <2>1, <2>7, <2>8
           DEF Moved, TypeOK, OneWorker, EntriesOwn, Own, InstSteps, DevSteps
    <2>13. DrawingAllowed'
        BY <1>0, <2>1, <2>2, <2>4, <2>6, <2>7, <2>8 DEF Moved, TypeOK, DrawingAllowed, e
    <2> QED
        BY <2>9, <2>10, <2>11, <2>12, <2>13
<1>2. CASE Returns(t) /\ queue' = [queue EXCEPT ![t] = None]
    <2>1. Moved(t, "out", None)
        BY <1>2, GoesMovesOne DEF Returns, InstSteps, DevSteps, TypeOK, OneWorker
    <2>2. UNCHANGED <<inst, dev, made, lost, instances, devices>> /\ pc[t] = "present"
        BY <1>2 DEF PresentGuards, driverVars, mapVars
    <2>3. TypeOK'
        BY <1>2, <2>1, <2>2 DEF Moved, TypeOK
    <2>4. OneWorker'
        BY <1>0, <2>1, <2>2 DEF Moved, TypeOK, OneWorker, InstSteps, DevSteps
    <2>5. ObjectsLive'
        BY <1>0, <2>1, <2>2 DEF Moved, TypeOK, OneWorker, ObjectsLive, InstSteps, DevSteps
    <2>6. EntriesOwn'
        BY <1>0, <2>1, <2>2
           DEF Moved, TypeOK, OneWorker, EntriesOwn, Own, InstSteps, DevSteps
    <2>7. DrawingAllowed'
        BY <1>0, <1>2, <2>1, <2>2 DEF Moved, TypeOK, DrawingAllowed
    <2> QED
        BY <2>3, <2>4, <2>5, <2>6, <2>7
<1> QED
    BY <1>1, <1>2 DEF PresentGuards

(* A frame that fails latches its own device's entry. *)
LEMMA KeepsDrawEnds ==
    ASSUME DispatchInv, NEW t \in Threads, DrawEnds(t)
    PROVE  DispatchInv'
<1> USE DispatchAssumption DEF DispatchInv
<1>0. /\ key[t] \in DevKeys /\ devices[key[t]].exists /\ pc[t] = "drawing"
      /\ devices[key[t]] \in Entries /\ dev[key[t]].id \in Nat
      /\ Own(devices[key[t]], dev[key[t]])
    BY DEF DrawEnds, TypeOK, OneWorker, DevSteps, DrawingAllowed, EntriesOwn, NoEntry,
           Objects
<1>1. Moved(t, "out", None)
    BY GoesMovesOne DEF DrawEnds, Returns, InstSteps, DevSteps, TypeOK, OneWorker
<1>2. UNCHANGED <<inst, dev, made, lost, instances>> /\ queue' = [queue EXCEPT ![t] = None]
    BY DEF DrawEnds, driverVars
<1>3. PICK e \in Entries :
          /\ devices' = [devices EXCEPT ![key[t]] = e] /\ Own(e, dev[key[t]]) /\ e.exists
          /\ e.gfx = devices[key[t]].gfx /\ e.queue = devices[key[t]].queue
          /\ e.inst = devices[key[t]].inst
    <2>1. CASE devices' = devices
        <3> devices[key[t]] \in Entries
            BY <1>0
        <3> WITNESS devices[key[t]] \in Entries
        <3> QED
            BY <1>0, <2>1 DEF Moved, TypeOK
    <2>2. CASE devices' = [devices EXCEPT ![key[t]].failed = dev[key[t]].id]
        <3> DEFINE e == [devices[key[t]] EXCEPT !.failed = dev[key[t]].id]
        <3> e \in Entries
            BY <1>0 DEF Entries
        <3>1. Own(e, dev[key[t]])
            BY <1>0 DEF Entries, Own
        <3> WITNESS e \in Entries
        <3> QED
            BY <1>0, <2>2, <3>1 DEF Moved, TypeOK, Entries
    <2> QED
        BY <2>1, <2>2 DEF DrawEnds
<1>4. TypeOK'
    BY <1>0, <1>1, <1>2, <1>3 DEF Moved, TypeOK
<1>5. OneWorker'
    BY <1>0, <1>1, <1>2 DEF Moved, TypeOK, OneWorker, InstSteps, DevSteps
<1>6. ObjectsLive'
    BY <1>0, <1>1, <1>2 DEF Moved, TypeOK, OneWorker, ObjectsLive, InstSteps, DevSteps
<1>7. EntriesOwn'
    <2>1. \A j \in DevKeys : devices'[j] = IF j = key[t] THEN e ELSE devices[j]
        BY <1>3 DEF Moved, TypeOK
    <2>2. dev[key[t]].id # 0 /\ key[t] \notin lost
        BY <1>0 DEF OneWorker, DevSteps
    <2> QED
        BY <1>0, <1>1, <1>2, <1>3, <2>1, <2>2
           DEF Moved, TypeOK, OneWorker, EntriesOwn, Own, InstSteps, DevSteps
<1>8. DrawingAllowed'
    <2>1. \A j \in DevKeys : devices'[j] = IF j = key[t] THEN e ELSE devices[j]
        BY <1>3 DEF Moved, TypeOK
    <2> QED
        BY <1>0, <1>1, <1>2, <1>3, <2>1
           DEF Moved, TypeOK, OneWorker, DrawingAllowed, DevSteps
<1> QED
    BY <1>4, <1>5, <1>6, <1>7, <1>8

-----------------------------------------------------------------------------
(* The theorems *)

LEMMA DispatchInvNext == DispatchInv /\ [Next]_vars => DispatchInv'
<1> SUFFICES ASSUME DispatchInv, [Next]_vars PROVE DispatchInv'
    OBVIOUS
<1>1. ASSUME NEW t \in Threads, Instances(t) PROVE DispatchInv'
    BY <1>1, KeepsCreateInstance, KeepsDestroyInstance, KeepsRecordInstance,
       KeepsEraseInstance,
       KeepsDownInstance DEF Instances
<1>2. ASSUME NEW t \in Threads, Devices(t) PROVE DispatchInv'
    BY <1>2, KeepsCreateDevice, KeepsDestroyDevice, KeepsRecordDevice,
       KeepsRecordDeviceThrows,
       KeepsEraseDevice, KeepsDownDevice DEF Devices
<1>3. ASSUME NEW t \in Threads, Presents(t) PROVE DispatchInv'
    BY <1>3, KeepsQueuePresent, KeepsPresentGuards, KeepsDrawEnds DEF Presents
<1>4. CASE UNCHANGED vars
    <2> USE <1>4 DEF vars, DispatchInv
    <2>1. TypeOK' /\ OneWorker' /\ ObjectsLive'
        BY DEF TypeOK, OneWorker, ObjectsLive
    <2>2. EntriesOwn'
        BY DEF EntriesOwn, Own
    <2>3. DrawingAllowed'
        BY DEF DrawingAllowed
    <2> QED
        BY <2>1, <2>2, <2>3
<1> QED
    BY <1>1, <1>2, <1>3, <1>4 DEF Next

LEMMA DispatchInvariant == Spec => []DispatchInv
    BY DispatchInvInit, DispatchInvNext, PTL DEF Spec

(* Every variable of the book-keeping keeps its type. *)
THEOREM TypeCorrect == Spec => []TypeOK
<1>1. DispatchInv => TypeOK
    BY DEF DispatchInv
<1> QED
    BY <1>1, DispatchInvariant, PTL

(* An entry of g_devices describes the device under its key and no other,  *)
(* though CreateDevice writes into whatever entry is there: every entry is *)
(* gone before its key can be used again, for any number of threads.       *)
THEOREM EntryDescribesItsDevice == Spec => []EntryIsOwn
<1>1. DispatchInv => EntryIsOwn
    <2> SUFFICES ASSUME DispatchInv, NEW k \in DevKeys, devices[k].exists
                 PROVE  /\ dev[k] # NoDevice /\ devices[k].disp = dev[k].id
                        /\ devices[k].queues \subseteq EnumeratedQueues(dev[k])
                        /\ devices[k].failed \in {0, dev[k].id}
                        /\ devices[k].inst \in {0, dev[k].inst}
                        /\ \E i \in InstKeys : inst[i] = dev[k].inst
        BY DEF EntryIsOwn
    <2>1. dev[k].id # 0 /\ k \notin lost /\ Own(devices[k], dev[k])
        BY DEF DispatchInv, EntriesOwn, NoEntry
    <2> QED
        BY <2>1 DEF DispatchInv, ObjectsLive, Own, NoDevice
<1> QED
    BY <1>1, DispatchInvariant, PTL

(* The present hook draws only on a queue of a graphics family, with an    *)
(* instance and a graphics_queue created without flags, also after an      *)
(* allocation in CreateDevice threw half way.                              *)
THEOREM DrawsOnlyWhereItCan == Spec => []DrawsWhereItCan
<1>1. DispatchInv => DrawsWhereItCan
    BY DEF DispatchInv, DrawingAllowed, DrawsWhereItCan
<1> QED
    BY <1>1, DispatchInvariant, PTL
=============================================================================
