------------------------------- MODULE Dispatch -------------------------------
(***************************************************************************)
(* The Vulkan layer's book-keeping (src/layer/dispatch.cpp): what it knows *)
(* of every instance and device, kept in two maps under g_lock by the      *)
(* loader's dispatch key, which a later object may get again.  Creation    *)
(* and destruction call down the chain outside the lock, and book-keeping  *)
(* that throws does not take the object away from the application.         *)
(*                                                                         *)
(* The application keeps Vulkan's rules: nobody uses an object that is     *)
(* being destroyed, and an instance outlives its devices.                  *)
(***************************************************************************)
EXTENDS Naturals, FiniteSets

CONSTANTS
    Threads,     \* the application's threads
    InstKeys, DevKeys,      \* dispatch keys
    Families, Graphics,     \* queue families; those with VK_QUEUE_GRAPHICS_BIT
    None,
    MaxInstances, MaxDevices    \* bounds on what is created

(* A key is the address of a loader table, which an instance and a device  *)
(* never share.                                                            *)
ASSUME DispatchAssumption ==
    /\ Graphics \subseteq Families
    /\ None \notin InstKeys \cup DevKeys \cup Families
    /\ InstKeys \cap DevKeys = {}
    /\ MaxInstances \in Nat /\ MaxDevices \in Nat

VARIABLES
    inst,        \* the instance that lives under a key, by number; 0 for none
    dev,         \* the device that lives under a key, or NoDevice
    made,        \* instances and devices created so far
    instances,   \* g_instances: key -> the instance described, 0 for no entry
    devices,     \* g_devices: key -> entry, or NoEntry
    lost,        \* keys of objects the application destroyed and the driver not
    pc,          \* a thread: out, recordInstance, recordDevice, eraseInstance,
                 \* downInstance, eraseDevice, downDevice, present, drawing
    key,         \* the key the thread is working on
    queue        \* the create-info of the queue a thread presents on

driverVars == <<inst, dev, made, lost>>
mapVars    == <<instances, devices>>
vars == <<inst, dev, made, instances, devices, lost, pc, key, queue>>

-----------------------------------------------------------------------------
(* A queue create-info: its family, and whether its flags are 0. *)
Infos    == [family : Families, plain : BOOLEAN]
NoDevice == [id |-> 0, inst |-> 0, infos |-> {}]

(* DeviceData as it is constructed.  disp and the queues are known by the  *)
(* device they came from; queue is graphics_queue: unset, or fetched from  *)
(* a family that has a queue created without flags or from one that has    *)
(* none; failed is overlay_failed, with the device that tripped it.        *)
NoEntry == [disp |-> 0, inst |-> 0, gfx |-> None, queue |-> "unset", queues |-> {},
            failed |-> 0, exists |-> FALSE]

Init ==
    /\ inst = [k \in InstKeys |-> 0] /\ dev = [k \in DevKeys |-> NoDevice]
    /\ made = [instances |-> 0, devices |-> 0] /\ lost = {}
    /\ instances = [k \in InstKeys |-> 0] /\ devices = [k \in DevKeys |-> NoEntry]
    /\ pc = [t \in Threads |-> "out"] /\ key = [t \in Threads |-> None]
    /\ queue = [t \in Threads |-> None]

Goes(t, to, k) == pc' = [pc EXCEPT ![t] = to] /\ key' = [key EXCEPT ![t] = k]
Returns(t)     == Goes(t, "out", None)
InUse(k)       == \E t \in Threads : key[t] = k

-----------------------------------------------------------------------------
(* Instances *)

(* CreateInstance, as far as the call down the chain that succeeds. *)
CreateInstance(t, k) ==
    /\ pc[t] = "out" /\ inst[k] = 0 /\ ~InUse(k) /\ made.instances < MaxInstances
    /\ made' = [made EXCEPT !.instances = @ + 1]
    /\ inst' = [inst EXCEPT ![k] = made.instances + 1]
    /\ Goes(t, "recordInstance", k)
    /\ UNCHANGED <<dev, lost, mapVars, queue>>

(* ... and from there on; the assignment throws or is made. *)
RecordInstance(t) ==
    /\ pc[t] = "recordInstance"
    /\ \/ instances' = [instances EXCEPT ![key[t]] = inst[key[t]]]
       \/ UNCHANGED instances
    /\ Returns(t)
    /\ UNCHANGED <<driverVars, devices, queue>>

(* DestroyInstance: the application has destroyed its devices. *)
DestroyInstance(t, k) ==
    /\ pc[t] = "out" /\ inst[k] # 0 /\ k \notin lost /\ ~InUse(k)
    /\ \A d \in DevKeys : dev[d].inst = inst[k] => d \in lost
    /\ Goes(t, "eraseInstance", k)
    /\ UNCHANGED <<driverVars, mapVars, queue>>

(* Under g_lock.  Without an entry there is nothing to call down to. *)
EraseInstance(t) ==
    /\ pc[t] = "eraseInstance"
    /\ instances' = [instances EXCEPT ![key[t]] = 0]
    /\ \/ /\ instances[key[t]] # 0
          /\ Goes(t, "downInstance", key[t]) /\ lost' = lost
       \/ /\ instances[key[t]] = 0
          /\ Returns(t) /\ lost' = lost \cup {key[t]}
    /\ UNCHANGED <<inst, dev, made, devices, queue>>

DownInstance(t) ==
    /\ pc[t] = "downInstance"
    /\ inst' = [inst EXCEPT ![key[t]] = 0]
    /\ Returns(t)
    /\ UNCHANGED <<dev, made, lost, mapVars, queue>>

-----------------------------------------------------------------------------
(* Devices *)

(* CreateDevice, as far as the call down the chain that succeeds. *)
CreateDevice(t, k, i, infos) ==
    /\ pc[t] = "out" /\ dev[k] = NoDevice /\ ~InUse(k) /\ made.devices < MaxDevices
    /\ inst[i] # 0 /\ i \notin lost /\ ~InUse(i)
    /\ made' = [made EXCEPT !.devices = @ + 1]
    /\ dev' = [dev EXCEPT ![k] = [id |-> made.devices + 1, inst |-> inst[i], infos |-> infos]]
    /\ Goes(t, "recordDevice", k)
    /\ UNCHANGED <<inst, lost, mapVars, queue>>

Known(d) == \E k \in InstKeys : instances[k] = d.inst

(* The graphics-capable families among those the application asked for,    *)
(* which the layer can tell when it knows the instance.                    *)
Capable(d) == IF Known(d) THEN {c.family : c \in d.infos} \cap Graphics ELSE {}

(* vkGetDeviceQueue finds a queue that was created without flags. *)
GetDeviceQueue(d, f) ==
    IF [family |-> f, plain |-> TRUE] \in d.infos THEN "plain" ELSE "flagged"

(* Fault: the flags are not looked at. *)
EnumeratedQueues_All(d) == {<<d.id, c>> : c \in d.infos}

(* queue_families: the queues of the create-infos without flags. *)
EnumeratedQueues(d) == {<<d.id, c>> : c \in {i \in d.infos : i.plain}}

(* What CreateDevice writes over whatever entry the key has: overlay_failed *)
(* is not reset and queue_families is appended to.                          *)
Described(e, d) ==
    [e EXCEPT !.exists = TRUE, !.disp = d.id,
              !.inst   = IF Known(d) THEN d.inst ELSE @,
              !.gfx    = IF Capable(d) # {} THEN CHOOSE f \in Capable(d) : TRUE ELSE @,
              !.queue  = IF Capable(d) # {}
                         THEN GetDeviceQueue(d, CHOOSE f \in Capable(d) : TRUE) ELSE @,
              !.queues = @ \cup EnumeratedQueues(d)]

RecordDevice(t) ==
    /\ pc[t] = "recordDevice"
    /\ devices' = [devices EXCEPT ![key[t]] = Described(@, dev[key[t]])]
    /\ Returns(t)
    /\ UNCHANGED <<driverVars, instances, queue>>

(* An allocation throws: before there is an entry, before the families are *)
(* known, or at one of the queues.  The application keeps its device.      *)
RecordDeviceThrows(t) ==
    /\ pc[t] = "recordDevice"
    /\ LET d    == dev[key[t]]
           full == Described(devices[key[t]], d)
           old  == devices[key[t]]
       IN  \/ devices' = devices
           \/ devices' = [devices EXCEPT ![key[t]] =
                              [full EXCEPT !.gfx = old.gfx, !.queue = old.queue, !.queues = old.queues]]
           \/ \E some \in SUBSET EnumeratedQueues(d) \ {EnumeratedQueues(d)} :
                  devices' = [devices EXCEPT ![key[t]] =
                                  [full EXCEPT !.queues = old.queues \cup some]]
    /\ Returns(t)
    /\ UNCHANGED <<driverVars, instances, queue>>

(* DestroyDevice *)
DestroyDevice(t, k) ==
    /\ pc[t] = "out" /\ dev[k] # NoDevice /\ k \notin lost /\ ~InUse(k)
    /\ Goes(t, "eraseDevice", k)
    /\ UNCHANGED <<driverVars, mapVars, queue>>

(* Fault: the entry outlives its device. *)
EraseDevice_Kept(t) ==
    /\ pc[t] = "eraseDevice"
    /\ devices' = devices
    /\ \/ devices[key[t]].exists /\ Goes(t, "downDevice", key[t]) /\ lost' = lost
       \/ ~devices[key[t]].exists /\ Returns(t) /\ lost' = lost \cup {key[t]}
    /\ UNCHANGED <<inst, dev, made, instances, queue>>

(* Under g_lock, and before the key can be used again. *)
EraseDevice(t) ==
    /\ pc[t] = "eraseDevice"
    /\ devices' = [devices EXCEPT ![key[t]] = NoEntry]
    /\ \/ devices[key[t]].exists /\ Goes(t, "downDevice", key[t]) /\ lost' = lost
       \/ ~devices[key[t]].exists /\ Returns(t) /\ lost' = lost \cup {key[t]}
    /\ UNCHANGED <<inst, dev, made, instances, queue>>

DownDevice(t) ==
    /\ pc[t] = "downDevice"
    /\ dev' = [dev EXCEPT ![key[t]] = NoDevice]
    /\ Returns(t)
    /\ UNCHANGED <<inst, made, lost, mapVars, queue>>

-----------------------------------------------------------------------------
(* The book-keeping as the present hook uses it *)

(* The application presents on one of its queues. *)
QueuePresent(t, k, c) ==
    /\ pc[t] = "out" /\ dev[k] # NoDevice /\ k \notin lost /\ c \in dev[k].infos
    /\ \A u \in Threads : key[u] = k => pc[u] \in {"present", "drawing"}
    /\ Goes(t, "present", k) /\ queue' = [queue EXCEPT ![t] = c]
    /\ UNCHANGED <<driverVars, mapVars>>

(* device_data, queue_family_for: the guards before any overlay work.  A   *)
(* device without an entry gets an error, one that may not be drawn on the *)
(* plain present.                                                          *)
MayDraw(e, t) ==
    /\ e.exists /\ e.failed = 0 /\ e.gfx # None
    /\ <<dev[key[t]].id, queue[t]>> \in e.queues /\ queue[t].family = e.gfx

PresentGuards(t) ==
    /\ pc[t] = "present"
    /\ \/ MayDraw(devices[key[t]], t) /\ Goes(t, "drawing", key[t]) /\ queue' = queue
       \/ ~MayDraw(devices[key[t]], t) /\ Returns(t) /\ queue' = [queue EXCEPT ![t] = None]
    /\ UNCHANGED <<driverVars, mapVars>>

(* The frame is drawn, or fails and mark_overlay_failed latches. *)
DrawEnds(t) ==
    /\ pc[t] = "drawing"
    /\ \/ devices' = devices
       \/ devices' = [devices EXCEPT ![key[t]].failed = dev[key[t]].id]
    /\ Returns(t) /\ queue' = [queue EXCEPT ![t] = None]
    /\ UNCHANGED <<driverVars, instances>>

-----------------------------------------------------------------------------
Instances(t) ==
    \/ \E k \in InstKeys : CreateInstance(t, k) \/ DestroyInstance(t, k)
    \/ RecordInstance(t) \/ EraseInstance(t) \/ DownInstance(t)

Devices(t) ==
    \/ \E k \in DevKeys, i \in InstKeys, infos \in SUBSET Infos \ {{}} :
           CreateDevice(t, k, i, infos)
    \/ \E k \in DevKeys : DestroyDevice(t, k)
    \/ RecordDevice(t) \/ RecordDeviceThrows(t) \/ EraseDevice(t) \/ DownDevice(t)

Presents(t) ==
    \/ \E k \in DevKeys, c \in Infos : QueuePresent(t, k, c)
    \/ PresentGuards(t) \/ DrawEnds(t)

Next == \E t \in Threads : Instances(t) \/ Devices(t) \/ Presents(t)

Spec == Init /\ [][Next]_vars

-----------------------------------------------------------------------------
(* An entry describes the device that lives under its key and no other:    *)
(* functions, queues, instance and the failure latch are its own, though   *)
(* CreateDevice writes into whatever entry the key already has and keys    *)
(* come round again while other threads destroy (dispatch.cpp:235, 316).   *)
EntryIsOwn ==
    \A k \in DevKeys :
        LET e == devices[k]
            d == dev[k]
        IN  e.exists => /\ d # NoDevice /\ e.disp = d.id
                        /\ e.queues \subseteq EnumeratedQueues(d)
                        /\ e.failed \in {0, d.id}
                        /\ e.inst \in {0, d.inst} /\ \E i \in InstKeys : inst[i] = d.inst

(* The overlay is drawn only where it can be: on a queue of a graphics     *)
(* family, with an instance, and with a graphics_queue that was created    *)
(* without flags, although CreateDevice fetches that queue before it looks *)
(* at the flags and may throw at any allocation (dispatch.cpp:274-294).    *)
DrawsWhereItCan ==
    \A t \in Threads : pc[t] = "drawing" =>
        LET e == devices[key[t]]
        IN  /\ queue[t].family \in Graphics /\ e.gfx = queue[t].family
            /\ e.queue = "plain" /\ e.inst # 0
=============================================================================
