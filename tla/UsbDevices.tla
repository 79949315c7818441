----------------------------- MODULE UsbDevices -----------------------------
(***************************************************************************)
(* Sessions of libusb and the devices they know (core.c, hotplug.c, the    *)
(* enumeration of linux_usbfs.c, linux_netlink.c), as usb.c uses them:     *)
(* usbInit makes a context and lists its devices, usbGetDevices opens and  *)
(* closes each, usbClose frees the list and the context.                   *)
(*                                                                         *)
(* Several callers have a context each.  One thread of the library reads   *)
(* what the kernel announces and tells every context; a caller that lists  *)
(* reads announcements too, one that makes a context scans sysfs, one that *)
(* finds its device gone tells all contexts.  Meanwhile devices are        *)
(* plugged and unplugged, and addresses are used again.                    *)
(*                                                                         *)
(* What happens under usb_devs_lock, event_data_lock or the lock of a      *)
(* device is a step; linux_hotplug_lock is job.by, active_contexts_lock is *)
(* held while job.telling, and default_context_lock and the lock of start  *)
(* and stop are variables.  usb.c registers no hotplug callback.           *)
(* External: the bus, sysfs, and the socket of the kernel's announcements. *)
(***************************************************************************)
EXTENDS Integers, SequencesExt, FiniteSetsExt

CONSTANTS Callers,     \* threads with a context each
          Openers,     \* bound: those that call usbGetDevices
          Places,      \* sysfs names
          Hub,         \* Hub[p]: the place of the hub p is plugged into, or None
          MaxAddress,  \* addresses of a bus are 1 .. MaxAddress, given in turn
          MaxChanges,  \* bound: devices plugged in and unplugged after the start
          MaxSessions, \* bound: contexts that are ever made
          Structs,     \* bound: memory for struct libusb_device
          Overlap,     \* a context may be made while another is given up
          Others,      \* which announcements of a device those of its interfaces go with
          Failures     \* what may fail of libusb_init: "monitor", "scan", "io"

None == "none"
Monitor == "monitor"

VARIABLES
  bus, born,       \* per place the device (its number, its address); devices so far
  changes,         \* how often the bus has changed
  socket, events,  \* the socket of the announcements is open; those not yet read
  devs,            \* struct libusb_device
  lists, msgs,     \* per context: usb_devs, hotplug_msgs
  ready,           \* contexts whose hotplug_msgs is initialised
  active, made,    \* active_contexts_list; contexts so far
  users,           \* init_count
  monitor,         \* the event thread, and the byte in its control pipe
  job,             \* what the holder of linux_hotplug_lock is about
  starting, creating,  \* who holds linux_hotplug_startstop_lock, default_context_lock
  pc, held, at,    \* per caller: its place, its list (devs), the device it is at
  handle,          \* per caller: the device it opens or has opened (0: none)
  opened,          \* per caller: the number of the device behind its handle
  sure,            \* history: callers that have found the device they open attached
  lost             \* history: left before the messages of their context were ready

vars == <<bus, born, changes, socket, events, devs, lists, msgs, ready, active, made, users, monitor, job,
          starting, creating, pc, held, at, handle, opened, sure, lost>>
wires == <<bus, born, changes>>
kernel == <<wires, socket, events>>
library == <<devs, lists, msgs>>
session == <<ready, active, made, users>>
locks == <<starting, creating>>
caller == <<held, at, handle, opened>>
history == <<sure, lost>>

NoDevice == [number |-> 0, address |-> 0]
Free == [ctx |-> None, address |-> 0, place |-> None, number |-> 0, parent |-> 0, refcnt |-> 0,
         attached |-> FALSE]
NoJob == [by |-> None, telling |-> FALSE, todo |-> {}, ctxs |-> {}, msg |-> << >>, stack |-> << >>]

UsbDevicesAssumption ==
  /\ Openers \subseteq Callers /\ Monitor \notin Callers /\ None \notin Callers
  /\ Hub \in [Places -> Places \cup {None}]
  /\ MaxAddress \in Nat \ {0} /\ MaxChanges \in Nat /\ MaxSessions \in Nat
  /\ Overlap \in BOOLEAN /\ Others \subseteq {"add", "remove"} /\ Failures \subseteq {"monitor", "scan", "io"}

Devices == Cardinality(Places) + MaxChanges
Root(p) == Hub[p] = None
Plugged(p) == bus[p] # NoDevice
Event(action, p, address) == [action |-> action, place |-> p, address |-> address]
Announced == [action : {"add", "remove"}, place : Places, address : 1 .. MaxAddress]
Resting == {"out", "have"}
Starting == {"start", "toscan", "scan", "io"}
Stopping == {"exit", "drain", "stop", "join"}

TypeOK ==
  /\ bus \in [Places -> [number : 0 .. Devices, address : 0 .. MaxAddress]] /\ born \in 0 .. Devices
  /\ socket \in BOOLEAN /\ events \in Seq(Announced \cup {Event("other", None, 0)})
  /\ devs \in [Structs -> [ctx : Callers \cup {None}, address : 0 .. MaxAddress, place : Places \cup {None},
                           number : 0 .. Devices, parent : Structs \cup {0}, refcnt : Nat, attached : BOOLEAN]]
  /\ \A c \in Callers : /\ lists[c] \in Seq(Structs) /\ IsInjective(lists[c])
                        /\ msgs[c] \in Seq([event : {"arrived", "left"}, dev : Structs])
                        /\ held[c] \in Seq(Structs) /\ at[c] \in Nat
                        /\ handle[c] \in Structs \cup {0} /\ opened[c] \in 0 .. Devices
                        /\ pc[c] \in {"out", "inited", "poll", "list", "have", "open", "node", "gone", "unopen", "string", "undo"}
                                       \cup Starting \cup Stopping
  /\ ready \subseteq active \cup {c \in Callers : pc[c] \in Stopping} /\ active \subseteq Callers /\ made \in 0 .. MaxSessions
  /\ users \in 0 .. Cardinality(Callers)
  /\ monitor.at \in {"off", "poll", "lock", "work"} /\ monitor.control \in BOOLEAN
  /\ job.by \in Callers \cup {None, Monitor} /\ job.telling \in BOOLEAN
  /\ job.todo \subseteq Places /\ job.ctxs \subseteq Callers
  /\ starting \in Callers \cup {None} /\ creating \in Callers \cup {None}
  /\ sure \subseteq Callers /\ lost \subseteq Structs

\* The root hubs are there, and maybe more; nobody uses the library yet.
Init ==
  /\ \E present \in SUBSET Places :
       /\ \A p \in Places : Root(p) => p \in present
       /\ \A p \in present : Root(p) \/ Hub[p] \in present
       /\ LET turn == SetToSeq(present)
              number(p) == SelectInSeq(turn, LAMBDA q : q = p)
          IN bus = [p \in Places |-> [number |-> number(p), address |-> number(p)]]
       /\ born = Cardinality(present)
  /\ changes = 0
  /\ socket = FALSE /\ events = << >>
  /\ devs = [d \in Structs |-> Free]
  /\ lists = [c \in Callers |-> << >>] /\ msgs = [c \in Callers |-> << >>]
  /\ ready = {} /\ active = {} /\ made = 0 /\ users = 0
  /\ monitor = [at |-> "off", control |-> FALSE] /\ job = NoJob
  /\ starting = None /\ creating = None
  /\ pc = [c \in Callers |-> "out"] /\ held = [c \in Callers |-> << >>] /\ at = [c \in Callers |-> 0]
  /\ handle = [c \in Callers |-> 0] /\ opened = [c \in Callers |-> 0]
  /\ sure = {} /\ lost = {}
-----------------------------------------------------------------------------
At(c, place) == pc[c] = place
Goto(c, place) == pc' = [pc EXCEPT ![c] = place]

-----------------------------------------------------------------------------
(* The bus. *)

Announce(s) == events' = IF socket THEN events \o s ELSE events

\* The kernel gives addresses in turn and skips those in use.
NextAddress ==
  LET turn(k) == ((born + k) % MaxAddress) + 1
  IN turn(Min({k \in 0 .. MaxAddress : \A p \in Places : bus[p].address # turn(k)}))

\* The interfaces of a device come after it and go before it.
OfInterfaces(action) == IF action \in Others THEN <<Event("other", None, 0)>> ELSE << >>

Plug(p) ==
  /\ ~Plugged(p) /\ ~Root(p) /\ Plugged(Hub[p])
  /\ changes < MaxChanges /\ changes' = changes + 1
  /\ Cardinality({bus[q].address : q \in Places} \ {0}) < MaxAddress
  /\ born' = born + 1
  /\ bus' = [bus EXCEPT ![p] = [number |-> born + 1, address |-> NextAddress]]
  /\ Announce(<<Event("add", p, NextAddress)>> \o OfInterfaces("add"))
  /\ UNCHANGED <<socket, library, session, monitor, job, locks, pc, caller, sure, lost>>

\* What is plugged into it goes with it, and is announced first.
Unplug(p) ==
  /\ Plugged(p) /\ ~Root(p)
  /\ changes < MaxChanges /\ changes' = changes + 1
  /\ LET below == {q \in Places : Plugged(q) /\ Hub[q] = p}
         gone == SetToSeq(below) \o <<p>>
     IN /\ bus' = [q \in Places |-> IF q \in below \cup {p} THEN NoDevice ELSE bus[q]]
        /\ Announce(FlattenSeq([i \in DOMAIN gone |-> OfInterfaces("remove") \o <<Event("remove", gone[i], bus[gone[i]].address)>>]))
  /\ UNCHANGED <<born, socket, library, session, monitor, job, locks, pc, caller, sure, lost>>

-----------------------------------------------------------------------------
(* References. *)

Ref(ds, d) == [ds EXCEPT ![d].refcnt = @ + 1]

\* libusb_unref_device: the last reference destroys it, and drops its parent.
RECURSIVE Unref(_, _)
Unref(ds, d) ==
  IF d = 0 THEN ds
  ELSE IF ds[d].refcnt > 1 THEN [ds EXCEPT ![d].refcnt = @ - 1]
  ELSE Unref([ds EXCEPT ![d] = Free], ds[d].parent)
UnrefAll(ds, s) == FoldLeft(Unref, ds, s)

\* usbi_get_device_by_session_id: the address on the bus.
Known(c, address) == SelectInSeq(lists[c], LAMBDA d : devs[d].address = address)

\* usbi_hotplug_notification, if the messages of the context are ready.
Message(c, event, d) == IF c \in ready THEN Append(msgs[c], [event |-> event, dev |-> d]) ELSE msgs[c]

\* usbi_disconnect_device: they leave the lists of their contexts; the reference goes
\* to the message, if there can be one.
Leave(gone) ==
  LET of(c) == {d \in gone : devs[d].ctx = c}
  IN /\ devs' = [d \in Structs |-> IF d \in gone THEN [devs[d] EXCEPT !.attached = FALSE] ELSE devs[d]]
     /\ lists' = [c \in Callers |-> SelectSeq(lists[c], LAMBDA d : d \notin gone)]
     /\ msgs' = [c \in Callers |-> IF of(c) = {} THEN msgs[c] ELSE Message(c, "left", CHOOSE d \in of(c) : TRUE)]
     /\ lost' = lost \cup {d \in gone : devs[d].ctx \notin ready}

\* linux_device_disconnected: the device of the session in every active context.
Disconnect(address) == Leave({lists[c][Known(c, address)] : c \in {b \in active : Known(b, address) # 0}})

-----------------------------------------------------------------------------
(* Enumeration, under linux_hotplug_lock.  A frame of job.stack is a call of     *)
(* linux_enumerate_device; scanning for a parent nests them.                     *)

\* linux_get_device_address: what sysfs says of the place.
AddressOf(p) == bus[p].address

Frame(c, p, address) == [ctx |-> c, place |-> p, address |-> address, dev |-> 0, tried |-> FALSE]
Top == Last(job.stack)
Pop == [job EXCEPT !.stack = Front(@)]

\* sysfs_scan_device: the address is read from sysfs, if the device is still there.
\* The directory is read in any order.
ScanDevice ==
  /\ job.stack = << >>
  /\ \E p \in job.todo :
       /\ Plugged(p)
       /\ job' = [job EXCEPT !.todo = @ \ {p}, !.stack = <<Frame(job.by, p, AddressOf(p))>>]
  /\ UNCHANGED <<kernel, library, session, monitor, locks, pc, caller, history>>

\* linux_hotplug_enumerate: the next active context.
TellContext ==
  /\ job.stack = << >>
  /\ \E c \in job.ctxs :
       job' = [job EXCEPT !.ctxs = @ \ {c}, !.stack = <<Frame(c, job.msg.place, job.msg.address)>>]
  /\ UNCHANGED <<kernel, library, session, monitor, locks, pc, caller, history>>

\* Mutant: the parent is not referenced.
Connect_ParentKept(ds, c, d, parent) ==
  /\ devs' = [ds EXCEPT ![d].parent = parent, ![d].attached = TRUE]
  /\ lists' = [lists EXCEPT ![c] = <<d>> \o @]
  /\ msgs' = [msgs EXCEPT ![c] = Message(c, "arrived", d)]

\* usbi_connect_device: a message does not count as a reference.
Connect(ds, c, d, parent) ==
  /\ LET new == [ds EXCEPT ![d].parent = parent, ![d].attached = TRUE]
     IN devs' = IF parent = 0 THEN new ELSE Ref(new, parent)
  /\ lists' = [lists EXCEPT ![c] = <<d>> \o @]
  /\ msgs' = [msgs EXCEPT ![c] = Message(c, "arrived", d)]

\* linux_get_parent_info: the parent is looked up by its name; if the context does not
\* have it, it is scanned first, once.
Attach(ds, f, rest) ==
  LET hub == Hub[f.place]
      i == SelectInSeq(lists[f.ctx], LAMBDA d : devs[d].place = hub)
  IN IF ~Root(f.place) /\ i = 0 /\ ~f.tried
     THEN /\ job' = [job EXCEPT !.stack = Append(rest, [f EXCEPT !.tried = TRUE])
                                           \o IF Plugged(hub) THEN <<Frame(f.ctx, hub, AddressOf(hub))>> ELSE << >>]
          /\ devs' = ds /\ UNCHANGED <<lists, msgs>>
     ELSE Connect(ds, f.ctx, f.dev, IF Root(f.place) \/ i = 0 THEN 0 ELSE lists[f.ctx][i]) /\ job' = [job EXCEPT !.stack = rest]

\* usbi_alloc_device, initialize_device: what is read is of the device that is there now.
Allocated(f) == [Free EXCEPT !.ctx = f.ctx, !.address = f.address, !.refcnt = 1]
Initialised(d, f) == [d EXCEPT !.place = f.place, !.number = bus[f.place].number]


\* linux_enumerate_device: nothing if the context has the session, else a new
\* structure, initialised from what sysfs says of the place by now.
Enumerate ==
  /\ job.stack # << >> /\ Top.dev = 0
  /\ IF Known(Top.ctx, Top.address) # 0 \/ ~Plugged(Top.place)
     THEN job' = Pop /\ UNCHANGED library
     ELSE LET d == Min({s \in Structs : devs[s] = Free})
          IN Attach([devs EXCEPT ![d] = Initialised(Allocated(Top), Top)], [Top EXCEPT !.dev = d], Front(job.stack))
  /\ UNCHANGED <<kernel, session, monitor, locks, pc, caller, history>>

\* The parent has been scanned.
Retry ==
  /\ job.stack # << >> /\ Top.dev # 0
  /\ Attach(devs, Top, Front(job.stack))
  /\ UNCHANGED <<kernel, session, monitor, locks, pc, caller, history>>

\* linux_netlink_read_message, by t: a removal is told at once, an addition to one
\* context after the other; anything else, or nothing, ends the reading.  The lock
\* is left to done.
Stops == events = << >> \/ Head(events).action = "other"
Dropped == IF events = << >> THEN events ELSE Tail(events)
ReadMessage(t, done) ==
  /\ events' = Tail(events)
  /\ IF Head(events).action = "remove"
     THEN Disconnect(Head(events).address) /\ job' = [NoJob EXCEPT !.by = done]
     ELSE /\ job' = [NoJob EXCEPT !.by = t, !.telling = TRUE, !.ctxs = active, !.msg = Head(events)]
          /\ UNCHANGED <<library, lost>>

JobDone == job.stack = << >> /\ job.ctxs = {} /\ ~\E p \in job.todo : Plugged(p)

-----------------------------------------------------------------------------
(* The event thread: linux_netlink_event_thread_main. *)

\* The control pipe is looked at first.
MonitorPolls ==
  /\ monitor.at = "poll" /\ (monitor.control \/ events # << >>)
  /\ monitor' = IF monitor.control THEN [at |-> "off", control |-> FALSE] ELSE [monitor EXCEPT !.at = "lock"]
  /\ UNCHANGED <<kernel, library, session, job, locks, pc, caller, history>>

\* With the lock it reads one message; somebody else may have read it already.
MonitorReads ==
  /\ monitor.at = "lock" /\ job.by = None
  /\ IF Stops
     THEN events' = Dropped /\ UNCHANGED <<library, job, lost>>
     ELSE ReadMessage(Monitor, None)
  /\ monitor' = [monitor EXCEPT !.at = IF job'.by = Monitor THEN "work" ELSE "poll"]
  /\ UNCHANGED <<wires, socket, session, locks, pc, caller, sure>>

MonitorDone ==
  /\ job.by = Monitor /\ JobDone
  /\ job' = NoJob /\ monitor' = [monitor EXCEPT !.at = "poll"]
  /\ UNCHANGED <<kernel, library, session, locks, pc, caller, history>>

-----------------------------------------------------------------------------
(* usbInit: libusb_init ... *)

\* linux_netlink_start_event_monitor
Listening == [at |-> "poll", control |-> FALSE]

\* The context is active before it knows any device.  (What an earlier one has lost
\* is not kept track of any longer.)
CreateContext(c) ==
  /\ At(c, "out") /\ creating = None /\ ~job.telling
  /\ Overlap \/ \A b \in Callers : pc[b] \notin Stopping
  /\ made < MaxSessions /\ made' = made + 1
  /\ creating' = c
  /\ active' = active \cup {c}
  /\ devs' = [d \in Structs |-> IF devs[d].ctx = c THEN Free ELSE devs[d]]
  /\ lost' = {d \in lost : devs[d].ctx # c}
  /\ Goto(c, "start")
  /\ UNCHANGED <<kernel, lists, msgs, ready, users, monitor, job, starting, caller, sure>>

\* op_init: the first context opens the socket and starts the event thread.
StartMonitor(c) ==
  /\ At(c, "start") /\ starting = None
  /\ starting' = c
  /\ IF users = 0
     THEN socket' = TRUE /\ events' = << >> /\ monitor' = Listening
     ELSE UNCHANGED <<socket, events, monitor>>
  /\ Goto(c, "toscan")
  /\ UNCHANGED <<wires, library, session, job, creating, caller, history>>

\* ... or cannot.
MonitorFails(c) ==
  /\ At(c, "start") /\ starting = None
  /\ users = 0 /\ "monitor" \in Failures
  /\ Goto(c, "undo")
  /\ UNCHANGED <<kernel, library, session, monitor, job, locks, caller, history>>

\* linux_scan_devices
BeginScan(c) ==
  /\ At(c, "toscan") /\ job.by = None
  /\ job' = [NoJob EXCEPT !.by = c, !.todo = {p \in Places : Plugged(p)}]
  /\ Goto(c, "scan")
  /\ UNCHANGED <<kernel, library, session, monitor, locks, caller, history>>

\* The directory cannot be read: the first context stops the event thread again.
ScanFails(c) ==
  /\ At(c, "toscan") /\ job.by = None /\ "scan" \in Failures
  /\ IF users = 0
     THEN monitor' = [monitor EXCEPT !.control = TRUE] /\ Goto(c, "join") /\ UNCHANGED starting
     ELSE starting' = None /\ Goto(c, "undo") /\ UNCHANGED monitor
  /\ UNCHANGED <<kernel, library, session, job, creating, caller, history>>

EndScan(c) ==
  /\ At(c, "scan") /\ JobDone
  /\ job' = NoJob /\ users' = users + 1 /\ starting' = None
  /\ Goto(c, "io")
  /\ UNCHANGED <<kernel, library, ready, active, made, monitor, creating, caller, history>>

\* usbi_io_init makes the list of messages ready ...
IoInit(c) ==
  /\ At(c, "io")
  /\ ready' = ready \cup {c} /\ creating' = None
  /\ Goto(c, "inited")
  /\ UNCHANGED <<kernel, library, active, made, users, monitor, job, starting, caller, history>>

\* ... or fails, and what was done is undone, the backend first.
IoFails(c) ==
  /\ At(c, "io") /\ "io" \in Failures
  /\ Goto(c, "stop")
  /\ UNCHANGED <<kernel, library, session, monitor, job, locks, caller, history>>

Forget(c) ==
  /\ At(c, "undo") /\ ~job.telling
  /\ active' = active \ {c} /\ creating' = None
  /\ devs' = UnrefAll(devs, lists[c]) /\ lists' = [lists EXCEPT ![c] = << >>]
  /\ Goto(c, "out")
  /\ UNCHANGED <<kernel, msgs, ready, made, users, monitor, job, starting, caller, history>>

-----------------------------------------------------------------------------
(* ... and libusb_get_device_list. *)

\* linux_netlink_hotplug_poll: what has been announced is read first.
Poll(c) ==
  /\ \/ At(c, "inited") /\ job.by = None
     \/ At(c, "poll") /\ job.by = c /\ JobDone
  /\ IF Stops
     THEN events' = Dropped /\ job' = NoJob /\ Goto(c, "list") /\ UNCHANGED <<library, lost>>
     ELSE ReadMessage(c, c) /\ Goto(c, "poll")
  /\ UNCHANGED <<wires, socket, session, monitor, locks, caller, sure>>

GetDeviceList(c) ==
  /\ At(c, "list")
  /\ held' = [held EXCEPT ![c] = lists[c]]
  /\ devs' = FoldLeft(Ref, devs, lists[c])
  /\ Goto(c, "have")
  /\ UNCHANGED <<kernel, lists, msgs, session, monitor, job, locks, at, handle, opened, history>>

-----------------------------------------------------------------------------
(* usbGetDevices: each device of the list is opened, asked for its strings and *)
(* closed.                                                                     *)

\* On to the next device of the list, if there is one.
Advance(c) ==
  /\ at' = [at EXCEPT ![c] = IF @ = Len(held[c]) THEN 0 ELSE @ + 1]
  /\ Goto(c, IF at'[c] = 0 THEN "have" ELSE "open")

GetDevices(c) ==
  /\ At(c, "have") /\ c \in Openers
  /\ Advance(c)
  /\ UNCHANGED <<kernel, library, session, monitor, job, locks, held, handle, opened, history>>

\* Mutant: nobody looks whether it is still attached.
Open_Unchecked(c) ==
  /\ At(c, "open")
  /\ LET d == held[c][at[c]]
     IN /\ devs' = Ref(devs, d) /\ handle' = [handle EXCEPT ![c] = d]
        /\ sure' = IF devs[d].attached THEN sure \cup {c} ELSE sure
        /\ Goto(c, "node") /\ UNCHANGED at
  /\ UNCHANGED <<kernel, lists, msgs, session, monitor, job, locks, held, opened, lost>>

\* libusb_open looks whether the device is attached, with no lock held, ...
Open(c) ==
  /\ At(c, "open")
  /\ LET d == held[c][at[c]]
     IN IF ~devs[d].attached
        THEN Advance(c) /\ UNCHANGED <<devs, handle, sure>>
        ELSE /\ devs' = Ref(devs, d) /\ handle' = [handle EXCEPT ![c] = d]
             /\ sure' = sure \cup {c}
             /\ Goto(c, "node") /\ UNCHANGED at
  /\ UNCHANGED <<kernel, lists, msgs, session, monitor, job, locks, held, opened, lost>>

\* ... and later op_open opens the file that has its address by then.
OpenNode(c) ==
  /\ At(c, "node")
  /\ LET file == {p \in Places : Plugged(p) /\ bus[p].address = devs[handle[c]].address}
     IN IF file = {} THEN Goto(c, "gone") /\ UNCHANGED opened
        ELSE Goto(c, "string") /\ opened' = [opened EXCEPT ![c] = bus[CHOOSE p \in file : TRUE].number]
  /\ sure' = sure \ {c}
  /\ UNCHANGED <<kernel, library, session, monitor, job, locks, held, at, handle, lost>>

\* Mutant: nobody looks whether the event thread has been faster.
OpenGone_Blind(c) ==
  /\ At(c, "gone") /\ job.by = None
  /\ Disconnect(devs[handle[c]].address)
  /\ Goto(c, "unopen")
  /\ UNCHANGED <<kernel, session, monitor, job, locks, caller, sure>>

\* The file is gone although the event thread has not said so: all contexts are told.
OpenGone(c) ==
  /\ At(c, "gone") /\ job.by = None
  /\ IF devs[handle[c]].attached THEN Disconnect(devs[handle[c]].address)
     ELSE UNCHANGED <<library, lost>>
  /\ Goto(c, "unopen")
  /\ UNCHANGED <<kernel, session, monitor, job, locks, caller, sure>>

\* The transfers for the strings handle events: a device that has left loses the
\* reference of its list.
HandleMessage(c) ==
  /\ pc[c] \in {"string", "drain"} /\ msgs[c] # << >>
  /\ msgs' = [msgs EXCEPT ![c] = Tail(@)]
  /\ devs' = IF Head(msgs[c]).event = "left" THEN Unref(devs, Head(msgs[c]).dev) ELSE devs
  /\ UNCHANGED <<kernel, lists, session, monitor, job, locks, pc, caller, history>>

\* libusb_close, or the open has failed.
Close(c) ==
  /\ pc[c] \in {"string", "unopen"}
  /\ devs' = Unref(devs, handle[c])
  /\ handle' = [handle EXCEPT ![c] = 0] /\ opened' = [opened EXCEPT ![c] = 0]
  /\ Advance(c)
  /\ UNCHANGED <<kernel, lists, msgs, session, monitor, job, locks, held, history>>

-----------------------------------------------------------------------------
(* usbClose: libusb_free_device_list and libusb_exit. *)

FreeDeviceList(c) ==
  /\ At(c, "have")
  /\ devs' = UnrefAll(devs, held[c]) /\ held' = [held EXCEPT ![c] = << >>]
  /\ Goto(c, "exit")
  /\ UNCHANGED <<kernel, lists, msgs, session, monitor, job, locks, at, handle, opened, history>>

\* Once the context is not active its messages are handled a last time, ...
Exit(c) ==
  /\ At(c, "exit") /\ creating = None /\ ~job.telling
  /\ active' = active \ {c}
  /\ Goto(c, "drain")
  /\ UNCHANGED <<kernel, library, ready, made, users, monitor, job, locks, caller, history>>

\* Mutant: the messages are left.
ForgetDevices_Undrained(c) ==
  /\ At(c, "drain")
  /\ devs' = UnrefAll(devs, lists[c])
  /\ lists' = [lists EXCEPT ![c] = << >>] /\ msgs' = [msgs EXCEPT ![c] = << >>]
  /\ ready' = ready \ {c}
  /\ Goto(c, "stop")
  /\ UNCHANGED <<kernel, active, made, users, monitor, job, locks, caller, history>>

\* ... and its devices are forgotten.
ForgetDevices(c) ==
  /\ At(c, "drain") /\ msgs[c] = << >>
  /\ devs' = UnrefAll(devs, lists[c]) /\ lists' = [lists EXCEPT ![c] = << >>]
  /\ ready' = ready \ {c}
  /\ Goto(c, "stop")
  /\ UNCHANGED <<kernel, msgs, active, made, users, monitor, job, locks, caller, history>>

After(c) == IF creating = c THEN "undo" ELSE "out"

\* Mutant: any context stops it.
StopMonitor_Always(c) ==
  /\ At(c, "stop") /\ starting = None
  /\ users' = users - 1
  /\ starting' = c /\ monitor' = [monitor EXCEPT !.control = TRUE] /\ Goto(c, "join")
  /\ UNCHANGED <<kernel, library, ready, active, made, job, creating, caller, history>>

\* op_exit: the last context stops the event thread and waits for its end.
StopMonitor(c) ==
  /\ At(c, "stop") /\ starting = None
  /\ users' = users - 1
  /\ IF users = 1
     THEN starting' = c /\ monitor' = [monitor EXCEPT !.control = TRUE] /\ Goto(c, "join")
     ELSE Goto(c, After(c)) /\ UNCHANGED <<starting, monitor>>
  /\ UNCHANGED <<kernel, library, ready, active, made, job, creating, caller, history>>

Join(c) ==
  /\ At(c, "join") /\ monitor.at = "off"
  /\ socket' = FALSE /\ events' = << >>
  /\ starting' = None
  /\ Goto(c, After(c))
  /\ UNCHANGED <<wires, library, session, monitor, job, creating, caller, history>>

-----------------------------------------------------------------------------
\* What is to be enumerated is by the holder of linux_hotplug_lock.
Work(t) == job.by = t /\ (ScanDevice \/ TellContext \/ Enumerate \/ Retry)
Watch == MonitorPolls \/ MonitorReads \/ Work(Monitor) \/ MonitorDone

\* What a caller does once it has begun.
Go(c) ==
  \/ Work(c) \/ StartMonitor(c) \/ MonitorFails(c) \/ BeginScan(c) \/ ScanFails(c) \/ EndScan(c) \/ IoInit(c) \/ IoFails(c) \/ Forget(c)
  \/ Poll(c) \/ GetDeviceList(c)
  \/ Open(c) \/ OpenNode(c) \/ OpenGone(c) \/ HandleMessage(c) \/ Close(c)
  \/ Exit(c) \/ ForgetDevices(c) \/ StopMonitor(c) \/ Join(c)
Call(c) == CreateContext(c) \/ GetDevices(c) \/ FreeDeviceList(c)

\* Bound: no more contexts are made and the bus does not change any more.
Ended ==
  /\ \A c \in Callers : At(c, "out")
  /\ monitor.at = "off"
  /\ UNCHANGED vars

Next ==
  \/ \E p \in Places : Plug(p) \/ Unplug(p)
  \/ Watch
  \/ \E c \in Callers : Go(c) \/ Call(c)
  \/ Ended

Spec == Init /\ [][Next]_vars

\* The threads go on, and a lock comes to each that waits for it.
FairSpec == Spec /\ SF_vars(Watch) /\ \A c \in Callers : SF_vars(Go(c))

-----------------------------------------------------------------------------
\* Every reference of a device has its holder: the list of its context or the message
\* that it has left, the lists of the callers, their handles, the devices behind it,
\* the call that makes it (core.c 696-708, io.c 2165-2171); so that nothing that has
\* been destroyed is referred to, be it by a message that it has arrived.
Copies(s, d) == Cardinality({i \in DOMAIN s : s[i] = d})
Holders(d) ==
  FoldSet(LAMBDA c, n : n + Copies(lists[c], d) + Copies(held[c], d)
                        + Copies(msgs[c], [event |-> "left", dev |-> d]) + IF handle[c] = d THEN 1 ELSE 0,
          0, Callers)
  + Cardinality({e \in Structs : devs[e].parent = d})
  + Cardinality({i \in DOMAIN job.stack : job.stack[i].dev = d})
  + IF d \in lost THEN 1 ELSE 0
RefsAreHeld ==
  /\ \A d \in Structs : devs[d].refcnt = Holders(d)
  /\ \A c \in Callers : \A i \in DOMAIN msgs[c] : devs[msgs[c][i].dev] # Free

\* A context leaves no device behind (core.c 2116-2126), but for what left before its
\* messages were ready, with what that was plugged into.
ExitFreesDevices ==
  \A c \in Callers : At(c, "out") =>
    \A d \in Structs \ lost : devs[d].ctx = c => \E e \in Structs : devs[e].parent = d

\* No device is destroyed while it is in use, none is kept that is not.
DevicesAreHeld == RefsAreHeld /\ ExitFreesDevices

\* Nor does a structure outlive its place in a list twice: an address is in a list once.
ListedOnce ==
  \A c \in Callers : \A i, j \in DOMAIN lists[c] :
    devs[lists[c][i]].address = devs[lists[c][j]].address => i = j

\* The list of the context has the devices of the bus.
Listed(c) == {devs[lists[c][i]].number : i \in DOMAIN lists[c]} = {bus[p].number : p \in Places} \ {0}

\* A device of the bus and one of the list of a context are the same.
Same(p, d) == devs[d].place = p /\ bus[p] = [number |-> devs[d].number, address |-> devs[d].address]

\* "the backend should ensure any pending hotplug events are fully processed before
\* returning" (libusbi.h 637-639): when the socket has been read for a list that is asked
\* for, the list has the devices that are on the bus, and no other.
ListIsTheBus ==
  [][\A c \in Callers : At(c, "list")' /\ ~At(c, "list") => Listed(c)']_vars

\* What a list lacks of the bus is still to be announced to its context, and what it has
\* too much is still to be taken back: no announcement is lost between the scan, the
\* threads that read the socket and the callers that find a device gone (linux_usbfs.c
\* 1110-1127, 1287-1294), though addresses are used again.
Unread(action, address) == \E i \in DOMAIN events : events[i].action = action /\ events[i].address = address
WhatDiffersIsUnread ==
  job.by = None =>
    \A c \in ready \cap active :
      /\ \A p \in Places : Plugged(p) /\ ~(\E i \in DOMAIN lists[c] : Same(p, lists[c][i])) => Unread("add", bus[p].address)
      /\ \A i \in DOMAIN lists[c] :
           LET d == lists[c][i] IN ~(\E p \in Places : Same(p, d)) => Unread("remove", devs[d].address)

\* What is opened is the device that was listed, unless its leaving is yet to be read, or has
\* been since its being attached was looked at (core.c 1227, linux_usbfs.c 1285).
OpensTheListed ==
  [][\A c \in Callers : opened'[c] \notin {0, opened[c]} =>
       LET d == devs[handle[c]] IN
         \/ opened'[c] = d.number
         \/ Unread("remove", d.address)
         \/ ~d.attached /\ c \in sure]_vars

\* The contexts follow the bus: if it changes no more, a session that lasts has in the
\* end its devices, and no other.
ListsFollowTheBus == \A c \in Callers : <>[](c \in ready) => []<>Listed(c)
=============================================================================
