----------------------------- MODULE UsbManager -----------------------------
(***************************************************************************)
(* The USB manager above the rings of the host controller, in two parts.   *)
(*                                                                         *)
(* Its tasks: the doorbell scheduler with the hub it is focused on, the    *)
(* root hub task, the hub drivers and the tables of devices, slots and     *)
(* children they keep.  All of them are tasks of the executor of one       *)
(* thread (USB Manager): a step is what a task does between two awaits,    *)
(* and no task runs while the scheduler works off its batch (uActive).     *)
(* Slot 0 stands for None, the root hub.  A transfer posts its doorbell    *)
(* and waits until it has rung.                                            *)
(*                                                                         *)
(* One device from the moment it has an address: the place in the tree of  *)
(* hubs (UsbRouteString), UsbDeviceContext::new with the descriptors it    *)
(* reads, the choice of drivers (UsbManager::instantiate), the endpoints   *)
(* they configure and their read loops.  A descriptor is a record: its     *)
(* type, whether its length is usable, and its number (of an interface or  *)
(* endpoint; endpoint 0 is not an address).  What the device answers is    *)
(* external: any request may fail.                                         *)
(***************************************************************************)
EXTENDS Integers, Sequences, FiniteSets, SequencesExt

CONSTANTS UTasks,     \* the root hub (0), the hubs' slots and other devices' slots
          UParent,    \* the slot of the hub each is attached to
          UPlans,     \* sets of jobs: for each task, what it does in order
          MaxSlots    \* Xhci::max_device_slots

\* What a task can have to do: the ports of the root hub are powered and reset
\* by the controller, those of other hubs by requests to the hub.
UJobs(t) == [kind : IF t = 0 THEN {"quick", "disconnect", "attach", "timeout"}
                    ELSE {"attach", "detach", "timeout", "transfer"},
             port : Nat]

ASSUME UsbHubsAssumption ==
    /\ MaxSlots \in Nat /\ 0 \in UTasks /\ UTasks \subseteq 0..MaxSlots
    /\ UParent \in [UTasks -> UTasks]
    /\ \A plan \in UPlans : \A t \in UTasks : plan[t] \in Seq(UJobs(t))

VARIABLES uQueue,     \* doorbell_queue
          uActive,    \* active_tasks of the scheduler
          uRetired,   \* retired
          uLocked,    \* locked_hub: {} or {hub}
          uTask,      \* the tasks, each with the jobs it still has
          uDevices,   \* UsbManager.devices: the addresses in use
          uChildren,  \* children of each device: port -> address
          uSlots      \* port2slot and slot2port of the root hub, slots enabled

uVars == <<uQueue, uActive, uRetired, uLocked, uTask, uDevices, uChildren, uSlots>>

Focus(h) == [kind |-> "focus", hub |-> h, slot |-> h, task |-> h]
Unfocus(h) == [kind |-> "unfocus", hub |-> h, slot |-> h, task |-> h]
\* The doorbell of a transfer of task t to the device in slot s below hub h.
Doorbell(h, s, t) == [kind |-> "bell", hub |-> h, slot |-> s, task |-> t]

UInit ==
    /\ uQueue = <<>> /\ uActive = <<>> /\ uRetired = <<>> /\ uLocked = {}
    /\ \E plan \in UPlans :
         uTask = [t \in UTasks |-> [pc |-> "idle", jobs |-> plan[t], focused |-> FALSE, slot |-> 0]]
    /\ uDevices = UTasks \ {0}
    /\ uChildren = [t \in UTasks |-> <<>>]
    /\ uSlots = [port |-> <<>>, slot |-> <<>>, used |-> Cardinality(UTasks) - 1]

-----------------------------------------------------------------------------
(* _schedule_task *)

Resting == uActive = <<>>

\* wait_event, then everything that is in the queue.
TakeBatch ==
    /\ Resting /\ uQueue # <<>>
    /\ uActive' = uQueue
    /\ uQueue' = <<>>
    /\ UNCHANGED <<uRetired, uLocked, uTask, uDevices, uChildren, uSlots>>

\* ring_a_doorbell when no hub, this hub or this device is in focus.
RingOrRetire(bell) ==
    IF uLocked = {} \/ bell.hub \in uLocked \/ bell.slot \in uLocked
    THEN /\ uTask' = [uTask EXCEPT ![bell.task].pc = "rung"]
         /\ uActive' = Tail(uActive)
         /\ UNCHANGED <<uRetired, uLocked>>
    ELSE /\ uRetired' = Append(uRetired, bell)
         /\ uActive' = Tail(uActive)
         /\ UNCHANGED <<uTask, uLocked>>

FocusOrRetire(task) ==
    /\ IF uLocked = {}
       THEN uLocked' = {task.hub} /\ UNCHANGED uRetired
       ELSE uRetired' = Append(uRetired, task) /\ UNCHANGED uLocked
    /\ uActive' = Tail(uActive)
    /\ UNCHANGED uTask

\* Mutant: what was retired stays retired.
UnfocusOrRetireForgets(task) ==
    /\ IF uLocked = {task.hub}
       THEN uLocked' = {} /\ uActive' = Tail(uActive) /\ UNCHANGED uRetired
       ELSE /\ uRetired' = Append(uRetired, task)
            /\ uActive' = Tail(uActive)
            /\ UNCHANGED uLocked
    /\ UNCHANGED uTask

\* Mutant: the Unfocus of a hub that is not in focus is ignored.
UnfocusOrRetireDrops(task) ==
    /\ IF uLocked = {task.hub}
       THEN uLocked' = {} /\ uActive' = Tail(uActive) \o uRetired /\ uRetired' = <<>>
       ELSE uActive' = Tail(uActive) /\ UNCHANGED <<uRetired, uLocked>>
    /\ UNCHANGED uTask

\* The hub in focus gives it up: what was retired goes behind what is active.
UnfocusOrRetire(task) ==
    /\ IF uLocked = {task.hub}
       THEN uLocked' = {} /\ uActive' = Tail(uActive) \o uRetired /\ uRetired' = <<>>
       ELSE /\ uRetired' = Append(uRetired, task)
            /\ uActive' = Tail(uActive)
            /\ UNCHANGED uLocked
    /\ UNCHANGED uTask

SchedulerStep ==
    /\ uActive # <<>>
    /\ LET task == Head(uActive)
       IN \/ task.kind = "bell" /\ RingOrRetire(task)
          \/ task.kind = "focus" /\ FocusOrRetire(task)
          \/ task.kind = "unfocus" /\ UnfocusOrRetire(task)
    /\ UNCHANGED <<uQueue, uDevices, uChildren, uSlots>>

-----------------------------------------------------------------------------
(* The root hub task and the hub drivers *)

Job(t) == Head(uTask[t].jobs)
At(t, pc) == Resting /\ uTask[t].pc = pc
HasJob(t) == uTask[t].jobs # <<>>
IsHub(t) == t = 0 \/ \E c \in UTasks : UParent[c] = t
JobDone(t) == [uTask EXCEPT ![t].pc = "idle", ![t].jobs = Tail(@), ![t].focused = FALSE]

\* A port change with nothing to do, or the disconnection of a root port
\* (_process_port_change without CCS): the focus is posted and given up in
\* one poll, and the device of the port leaves both tables it is in.
QuickJob(t) ==
    /\ t = 0 /\ At(t, "idle") /\ HasJob(t)
    /\ Job(t).kind \in {"quick", "disconnect"}
    /\ uQueue' = uQueue \o <<Focus(t), Unfocus(t)>>
    /\ IF Job(t).kind = "disconnect" /\ Job(t).port \in DOMAIN uSlots.port
       THEN /\ uDevices' = uDevices \ {uSlots.port[Job(t).port]}
            /\ uSlots' = [uSlots EXCEPT
                 !.port = [p \in DOMAIN @ \ {Job(t).port} |-> @[p]]]
       ELSE UNCHANGED <<uDevices, uSlots>>
    /\ uTask' = JobDone(t)
    /\ UNCHANGED <<uActive, uRetired, uLocked, uChildren>>

\* A port that needs work: focus_hub (focus_device for a hub driver).
StartJob(t) ==
    /\ At(t, "idle") /\ HasJob(t) /\ IsHub(t)
    /\ Job(t).kind \in {"attach", "detach", "timeout"}
    /\ uQueue' = Append(uQueue, Focus(t))
    /\ uTask' = [uTask EXCEPT ![t].focused = TRUE,
                   ![t].pc = IF Job(t).kind = "timeout" THEN "timeout"
                             ELSE IF t = 0 THEN "enable" ELSE "ask"]
    /\ UNCHANGED <<uActive, uRetired, uLocked, uDevices, uChildren, uSlots>>

\* A hub driver reads the status of its port first (get_port_status).
AskStatus(t) ==
    /\ At(t, "ask")
    /\ uQueue' = Append(uQueue, Doorbell(UParent[t], t, t))
    /\ uTask' = [uTask EXCEPT ![t].pc = "wait"]
    /\ UNCHANGED <<uActive, uRetired, uLocked, uDevices, uChildren, uSlots>>

\* detach_child_device: the child leaves the manager, not the children.
Detach(t) ==
    /\ At(t, "rung") /\ Job(t).kind = "detach"
    /\ uDevices' = IF Job(t).port \in DOMAIN uChildren[t]
                   THEN uDevices \ {uChildren[t][Job(t).port]} ELSE uDevices
    /\ uTask' = [uTask EXCEPT ![t].pc = "unfocus"]
    /\ UNCHANGED <<uQueue, uActive, uRetired, uLocked, uChildren, uSlots>>

\* attach_child_device refuses a port that has a child.
Refuse(t) ==
    /\ At(t, "rung") /\ t # 0 /\ Job(t).kind = "attach" /\ uTask[t].slot = 0
    /\ Job(t).port \in DOMAIN uChildren[t]
    /\ uTask' = [uTask EXCEPT ![t].pc = "unfocus"]
    /\ UNCHANGED <<uQueue, uActive, uRetired, uLocked, uDevices, uChildren, uSlots>>

\* port2slot and slot2port (attach_root_device)
NewSlot(slot, port) == [uSlots EXCEPT !.used = slot,
    !.port = [p \in DOMAIN @ \cup {port} |-> IF p = port THEN slot ELSE @[p]],
    !.slot = [s \in DOMAIN @ \cup {slot} |-> IF s = slot THEN port ELSE @[s]]]

\* ENABLE_SLOT and ADDRESS_DEVICE, then the first transfer to the new device.
\* The controller hands out slots it has not handed out: none is given back.
Enable(t) ==
    LET slot == uSlots.used + 1 IN
    /\ \/ At(t, "enable")
       \/ /\ At(t, "rung") /\ t # 0 /\ Job(t).kind = "attach" /\ uTask[t].slot = 0
          /\ Job(t).port \notin DOMAIN uChildren[t]
    /\ IF slot > MaxSlots
       THEN /\ uTask' = [uTask EXCEPT ![t].pc = "unfocus"]
            /\ UNCHANGED <<uQueue, uSlots>>
       ELSE /\ uSlots' = IF t = 0 THEN NewSlot(slot, Job(t).port)
                                  ELSE [uSlots EXCEPT !.used = slot]
            /\ uQueue' = Append(uQueue, Doorbell(t, slot, t))
            /\ uTask' = [uTask EXCEPT ![t].pc = "wait", ![t].slot = slot]
    /\ UNCHANGED <<uActive, uRetired, uLocked, uDevices, uChildren>>

\* UsbManager::instantiate has read the descriptors: the device is inserted
\* and becomes a child of its hub; reading them may also have failed.
Instantiate(t, ok) ==
    LET slot == uTask[t].slot IN
    /\ At(t, "rung") /\ slot # 0
    /\ uDevices' = IF ok THEN uDevices \cup {slot} ELSE uDevices
    /\ uChildren' = IF ok /\ t # 0
                    THEN [uChildren EXCEPT ![t] =
                            [p \in DOMAIN @ \cup {Job(t).port} |->
                                IF p = Job(t).port THEN slot ELSE @[p]]]
                    ELSE uChildren
    /\ uTask' = [uTask EXCEPT ![t].pc = "unfocus", ![t].slot = 0]
    /\ UNCHANGED <<uQueue, uActive, uRetired, uLocked, uSlots>>

\* unfocus_hub; for a hub driver, the end of the scope of focus_device.  A
\* root port that is not enabled in time is powered off without a transfer.
EndJob(t) ==
    /\ At(t, "unfocus") \/ At(t, "timeout")
    /\ uQueue' = Append(uQueue, Unfocus(t))
    /\ uTask' = JobDone(t)
    /\ UNCHANGED <<uActive, uRetired, uLocked, uDevices, uChildren, uSlots>>

-----------------------------------------------------------------------------
(* Other devices: a driver's read loop *)

Transfer(t) ==
    /\ At(t, "idle") /\ HasJob(t) /\ Job(t).kind = "transfer"
    /\ uQueue' = Append(uQueue, Doorbell(UParent[t], t, t))
    /\ uTask' = [uTask EXCEPT ![t].pc = "wait"]
    /\ UNCHANGED <<uActive, uRetired, uLocked, uDevices, uChildren, uSlots>>

TransferEnds(t) ==
    /\ At(t, "rung") /\ Job(t).kind = "transfer"
    /\ uTask' = JobDone(t)
    /\ UNCHANGED <<uQueue, uActive, uRetired, uLocked, uDevices, uChildren, uSlots>>

UTaskStep(t) ==
    \/ QuickJob(t) \/ StartJob(t) \/ AskStatus(t) \/ Detach(t) \/ Refuse(t)
    \/ Enable(t) \/ Instantiate(t, TRUE) \/ Instantiate(t, FALSE) \/ EndJob(t)
    \/ Transfer(t) \/ TransferEnds(t)

UNext ==
    \/ TakeBatch
    \/ SchedulerStep
    \/ \E t \in UTasks : UTaskStep(t)

UsbHubsSpec == UInit /\ [][UNext]_uVars

-----------------------------------------------------------------------------
(* Properties *)

UTypeOK ==
    /\ uLocked \in SUBSET UTasks /\ Cardinality(uLocked) <= 1
    /\ uDevices \subseteq 1..MaxSlots
    /\ uSlots.used \in 0..MaxSlots
    /\ \A t \in UTasks : uTask[t].pc \in {"idle", "ask", "enable", "wait", "rung",
                                          "unfocus", "timeout"}

\* An Unfocus that overtook its Focus: it was retired behind another hub's
\* focus, and the Focus took effect after it was looked at.
Overtaken(h) == h \in uLocked /\ \E i \in 1..Len(uRetired) : uRetired[i] = Unfocus(h)

\* When the scheduler has nothing left to look at, the hub in focus is one
\* whose driver will still give the focus up, or has: no Unfocus is lost in
\* _schedule_task, which otherwise never looks at what it retired again.
LockWillEnd ==
    Resting /\ uQueue = <<>> => \A h \in uLocked : uTask[h].focused \/ Overtaken(h)

\* Every doorbell that was asked for has rung: the only way for a transfer to
\* wait for ever is an Unfocus that overtook its Focus (ring_a_doorbell_async,
\* _schedule_task).
BellsRung == (\A t \in UTasks : uTask[t].pc # "wait") \/ \E h \in UTasks : Overtaken(h)

\* port2slot and slot2port are inverses on the ports in use: the slot a
\* disconnected port removes is the slot of the device that was on it.
SlotTablesAgree ==
    /\ \A p \in DOMAIN uSlots.port :
         /\ uSlots.port[p] \in DOMAIN uSlots.slot
         /\ uSlots.slot[uSlots.port[p]] = p
    /\ \A p, q \in DOMAIN uSlots.port : uSlots.port[p] = uSlots.port[q] => p = q

\* All that the doorbell scheduler and the tables of devices keep: their
\* types, LockWillEnd, SlotTablesAgree.
UsbHubsInv == UTypeOK /\ LockWillEnd /\ SlotTablesAgree

-----------------------------------------------------------------------------
(* A device *)

CONSTANTS EDevices,   \* the devices to try
          EPorts,     \* hub port numbers
          MaxReads    \* bound: packets a driver receives

VARIABLES eDev,       \* the device, as it answers
          ePath,      \* the hub ports on the way to it
          eRoute,     \* UsbRouteString
          ePc,        \* how far UsbDeviceContext::new and instantiate are
          eTry,       \* the attempts to read the device descriptor
          ePacket,    \* the max packet size of the control endpoint
          eCursor,    \* the next descriptor of the configuration
          eConf,      \* configurations, current_configuration, current_interface
          eRings,     \* endpoints configured
          eTasks,     \* the drivers' read loops: [if, ep, reads]
          eNext       \* the next interface to find a driver for

eVars == <<eDev, ePath, eRoute, ePc, eTry, ePacket, eCursor, eConf, eRings, eTasks, eNext>>

-----------------------------------------------------------------------------
(* UsbRouteString, endpoint addresses *)

MaxDepth == 5

Depth(raw) == Cardinality({d \in 1..MaxDepth : raw >= 16^(d - 1)})

\* appending: the port, at most 15, becomes the next digit.
Appending(raw, port) == raw + (IF port < 15 THEN port ELSE 15) * 16^Depth(raw)

\* UsbEndpointAddress: 4 bits of number, bit 7 the direction; and DCI.
DirIn(address) == address >= 128
Dci(address) == 2 * (address % 16) + (IF DirIn(address) THEN 1 ELSE 0)

\* Endpoint Context Interval: periods of 2^n * 125 us.  next_power_of_two of a
\* byte wraps to 0 above 128, which has 8 trailing zeros.
PollInterval(speed, interrupt, interval) ==
    IF speed \notin {"LS", "FS"} THEN interval - 1
    ELSE IF interrupt THEN Cardinality({m \in 0..7 : 2^m < interval}) + 3
    ELSE interval + 2

-----------------------------------------------------------------------------

EInit ==
    /\ eDev \in EDevices /\ ePath = <<>> /\ eRoute = 0 /\ ePc = "place" /\ eTry = 0
    /\ ePacket = IF eDev.speed \in {"FS", "LS"} THEN 8 ELSE IF eDev.speed = "HS" THEN 64 ELSE 512
    /\ eCursor = 1 /\ eConf = [done |-> <<>>, conf |-> <<>>, if |-> <<>>]
    /\ eRings = {} /\ eTasks = {} /\ eNext = 1

Fail == ePc' = "failed"

\* attach_child_device of one more hub; a sixth tier is an InvalidParameter.
Descend(port) ==
    /\ ePc = "place" /\ Len(ePath) <= MaxDepth
    /\ ePath' = Append(ePath, port)
    /\ IF Depth(eRoute) < MaxDepth
       THEN eRoute' = Appending(eRoute, port) /\ UNCHANGED ePc
       ELSE Fail /\ UNCHANGED eRoute
    /\ UNCHANGED <<eDev, eTry, ePacket, eCursor, eConf, eRings, eTasks, eNext>>

Address ==
    /\ ePc = "place"
    /\ ePc' = IF eDev.speed = "FS" THEN "packet" ELSE "device"
    /\ UNCHANGED <<eDev, ePath, eRoute, eTry, ePacket, eCursor, eConf, eRings, eTasks, eNext>>

\* The first 8 bytes of a full speed device give its packet size.
ReadPacketSize(ok) ==
    /\ ePc = "packet"
    /\ ePacket' = IF ok THEN eDev.packet ELSE ePacket
    /\ ePc' = "device"
    /\ UNCHANGED <<eDev, ePath, eRoute, eTry, eCursor, eConf, eRings, eTasks, eNext>>

\* The device descriptor, five times at most.  External: more than one packet
\* is only read with the right packet size.
ReadDeviceDescriptor(ok) ==
    /\ ePc = "device" /\ (ok => ePacket = eDev.packet)
    /\ eTry' = eTry + 1
    /\ ePc' = IF ok THEN "bos" ELSE IF eTry' = 5 THEN "failed"
              ELSE IF eDev.speed = "FS" THEN "packet" ELSE "device"
    /\ UNCHANGED <<eDev, ePath, eRoute, ePacket, eCursor, eConf, eRings, eTasks, eNext>>

\* The strings, whose errors are ignored, and the binary object store of a
\* device of USB 2.1 or later, whose errors are not.
ReadObjectStore(ok) ==
    /\ ePc = "bos"
    /\ ePc' = IF ok \/ ~eDev.bos THEN "config" ELSE "failed"
    /\ UNCHANGED <<eDev, ePath, eRoute, eTry, ePacket, eCursor, eConf, eRings, eTasks, eNext>>

ReadConfiguration(ok) ==
    /\ ePc = "config"
    /\ ePc' = IF ok THEN "parse" ELSE "failed"
    /\ UNCHANGED <<eDev, ePath, eRoute, eTry, ePacket, eCursor, eConf, eRings, eTasks, eNext>>

\* The interface that was open goes to its configuration, a new one is open.
WithInterface(no) ==
    [eConf EXCEPT !.conf = <<@[1] \o eConf.if>>,
                  !.if = <<[no |-> no, eps |-> <<>>]>>]

\* One descriptor of the configuration; the end, or a broken one, ends it.
ParseDescriptor ==
    /\ ePc = "parse"
    /\ IF eCursor > Len(eDev.config) \/ eDev.config[eCursor].broken
       THEN /\ IF eConf.conf = <<>> \/ eConf.if = <<>> THEN Fail ELSE ePc' = "set"
            /\ eConf' = IF eConf.conf = <<>> \/ eConf.if = <<>> THEN eConf
                        ELSE [done |-> Append(eConf.done, eConf.conf[1] \o eConf.if),
                              conf |-> <<>>, if |-> <<>>]
            /\ UNCHANGED eCursor
       ELSE LET d == eDev.config[eCursor] IN
            /\ eCursor' = eCursor + 1
            /\ \/ /\ d.type = "configuration"
                  /\ eConf' = [done |-> eConf.done \o eConf.conf, conf |-> <<<<>>>>, if |-> <<>>]
                  /\ UNCHANGED ePc
               \/ /\ d.type = "interface"
                  /\ IF eConf.conf = <<>> THEN Fail /\ UNCHANGED eConf
                     ELSE eConf' = WithInterface(d.no) /\ UNCHANGED ePc
               \/ /\ d.type = "endpoint"
                  /\ IF eConf.if = <<>> \/ d.no = 0 THEN Fail /\ UNCHANGED eConf
                     ELSE /\ eConf' = [eConf EXCEPT !.if[1].eps = Append(@, d.no)]
                          /\ UNCHANGED ePc
               \/ /\ d.type = "hid"      \* the report descriptor: errors ignored
                  /\ IF eConf.if = <<>> THEN Fail ELSE UNCHANGED ePc
                  /\ UNCHANGED eConf
               \/ d.type = "other" /\ UNCHANGED <<ePc, eConf>>
    /\ UNCHANGED <<eDev, ePath, eRoute, eTry, ePacket, eRings, eTasks, eNext>>

SetConfiguration(ok) ==
    /\ ePc = "set"
    /\ ePc' = IF ok THEN "drivers" ELSE "failed"
    /\ UNCHANGED <<eDev, ePath, eRoute, eTry, ePacket, eCursor, eConf, eRings, eTasks, eNext>>

Interfaces == eConf.done[1]

\* find_interface without an alternate setting: the first with the number.
FindInterface(no) == SelectSeq(Interfaces, LAMBDA i : i.no = no)[1]

\* A specific or class driver takes the whole device (a hub: its first
\* interface and endpoint, a todo!() without one), or fails and leaves it.
BindDevice(ok) ==
    /\ ePc = "drivers" /\ eNext = 1 /\ eDev.class = "hub"
    /\ ePc' = IF Interfaces[1].eps = <<>> THEN "stopped" ELSE "running"
    /\ IF ok /\ Interfaces[1].eps # <<>>
       THEN LET ep == Interfaces[1].eps[1] IN
            /\ eRings' = eRings \cup {Dci(ep)}
            /\ eTasks' = {[if |-> Interfaces[1].no, ep |-> ep, reads |-> 0]}
       ELSE UNCHANGED <<eRings, eTasks>>
    /\ UNCHANGED <<eDev, ePath, eRoute, eTry, ePacket, eCursor, eConf, eNext>>

\* Mutant: the driver reads the first endpoint whatever its direction.
HidEndpointAny(i) == i.eps # <<>>

\* UsbHidDriver::_instantiate: the first endpoint must be an input.
HidEndpoint(i) == i.eps # <<>> /\ DirIn(i.eps[1])

\* A composite device: the interface drivers, interface by interface; the HID
\* driver takes class HID.  Its task is spawned when all have been tried.
BindInterface(ok) ==
    /\ ePc = "drivers" /\ eDev.class = "composite" /\ eNext <= Len(Interfaces)
    /\ LET i == FindInterface(Interfaces[eNext].no) IN
       IF i.no \in eDev.hid /\ HidEndpoint(i) /\ ok
       THEN /\ eRings' = eRings \cup {Dci(i.eps[1])}
            /\ eTasks' = eTasks \cup {[if |-> i.no, ep |-> i.eps[1], reads |-> 0]}
       ELSE UNCHANGED <<eRings, eTasks>>
    /\ eNext' = eNext + 1
    /\ UNCHANGED <<eDev, ePath, eRoute, ePc, eTry, ePacket, eCursor, eConf>>

StartTasks ==
    /\ ePc = "drivers"
    /\ eDev.class = "composite" => eNext > Len(Interfaces)
    /\ eDev.class # "hub"
    /\ ePc' = "running"
    /\ UNCHANGED <<eDev, ePath, eRoute, eTry, ePacket, eCursor, eConf, eRings, eTasks, eNext>>

\* read_vec of a read loop: a packet or an error goes round again, an aborted
\* transfer (the device is gone) ends the task.
Read(task, aborted) ==
    /\ ePc = "running" /\ task \in eTasks /\ (~aborted => task.reads < MaxReads)
    /\ eTasks' = (eTasks \ {task}) \cup
                 (IF aborted THEN {} ELSE {[task EXCEPT !.reads = @ + 1]})
    /\ UNCHANGED <<eDev, ePath, eRoute, ePc, eTry, ePacket, eCursor, eConf, eRings, eNext>>

EAnswer(ok) ==
    \/ ReadPacketSize(ok) \/ ReadDeviceDescriptor(ok) \/ ReadObjectStore(ok)
    \/ ReadConfiguration(ok) \/ SetConfiguration(ok) \/ BindDevice(ok) \/ BindInterface(ok)

ENext ==
    \/ \E port \in EPorts : Descend(port)
    \/ Address
    \/ \E ok \in BOOLEAN : EAnswer(ok)
    \/ ParseDescriptor
    \/ StartTasks
    \/ \E task \in eTasks, aborted \in BOOLEAN : Read(task, aborted)

-----------------------------------------------------------------------------
(* Properties *)

ETypeOK ==
    /\ eRoute \in 0..(16^MaxDepth - 1)
    /\ eTry \in 0..5 /\ eCursor \in 1..(Len(eDev.config) + 1)
    /\ eRings \subseteq 2..31
    /\ ePc \in {"place", "packet", "device", "bos", "config", "parse", "set", "drivers",
                "running", "failed", "stopped"}

\* The route string names the way to the device: one digit per hub port, the
\* ports above 15 as 15, and no device is placed on a sixth tier.
RouteNamesPath ==
    ePc # "failed" =>
        /\ Len(ePath) <= MaxDepth
        /\ \A d \in 1..MaxDepth :
             (eRoute \div 16^(d - 1)) % 16 =
                IF d > Len(ePath) THEN 0 ELSE IF ePath[d] < 15 THEN ePath[d] ELSE 15

\* What the descriptors say: the interfaces before the first broken one, each
\* with the endpoints up to the next interface.
Usable == LET broken == {i \in 1..Len(eDev.config) : eDev.config[i].broken}
          IN IF broken = {} THEN Len(eDev.config)
             ELSE (CHOOSE i \in broken : \A j \in broken : i <= j) - 1
InterfaceAt == {i \in 1..Usable : eDev.config[i].type = "interface"}
EndpointsOf(i) ==
    {j \in (i + 1)..Usable : /\ eDev.config[j].type = "endpoint"
                             /\ \A k \in InterfaceAt : k <= i \/ k > j}

\* A configuration that is accepted holds every interface of the descriptors
\* and every endpoint under its own interface, whatever stands in between.
DescriptorsKept ==
    ePc \in {"set", "drivers", "running"} =>
        /\ Len(eConf.done) = 1 /\ Len(Interfaces) = Cardinality(InterfaceAt)
        /\ \A i \in InterfaceAt :
             LET kept == Interfaces[Cardinality({k \in InterfaceAt : k <= i})] IN
             /\ kept.no = eDev.config[i].no
             /\ Len(kept.eps) = Cardinality(EndpointsOf(i))
             /\ ToSet(kept.eps) = {eDev.config[j].no : j \in EndpointsOf(i)}

\* A read loop reads an input endpoint of its own interface that has a ring,
\* and no two loops read the same one: control_async and transfer_async keep
\* the rings locked while they wait.
LoopsReadTheirOwn ==
    /\ \A t \in eTasks : /\ DirIn(t.ep) /\ Dci(t.ep) \in eRings
                         /\ \E n \in 1..Len(Interfaces) :
                              Interfaces[n].no = t.if /\ t.ep \in ToSet(Interfaces[n].eps)
    /\ \A t, u \in eTasks : t.ep = u.ep => t = u

\* The period of an interrupt endpoint of full or low speed is at least the
\* interval in ms it asks for and less than twice that, up to 255.
PollPeriod ==
    eDev.interval > 0 /\ eDev.speed \in {"LS", "FS"} =>
        LET eighths == 2^PollInterval(eDev.speed, TRUE, eDev.interval)
        IN 8 * eDev.interval <= eighths /\ eighths < 16 * eDev.interval

\* The enumeration of a device has come to its end, whatever it answered.
Enumerated == ePc \in {"running", "failed", "stopped"}

\* All that enumeration keeps: its types, RouteNamesPath, DescriptorsKept,
\* LoopsReadTheirOwn, PollPeriod.
UsbDeviceInv == ETypeOK /\ RouteNamesPath /\ DescriptorsKept /\ LoopsReadTheirOwn /\ PollPeriod
=============================================================================
