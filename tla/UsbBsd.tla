-------------------------------- MODULE UsbBsd --------------------------------
(***************************************************************************)
(* The backends of libusb for OpenBSD and NetBSD (openbsd_usb.c,           *)
(* netbsd_usb.c): descriptors of ugen(4) nodes, one for control kept with  *)
(* the device, one per endpoint kept with the handle, and transfers that   *)
(* are made, from beginning to end, by the call that submits them.         *)
(*                                                                         *)
(* A handle is used by one thread, which names it; an application frees    *)
(* its list of devices before it asks for another and releases what it has *)
(* claimed before it closes.  A step is a system call.  The data of        *)
(* transfers and the flag of ugen(4) for short ones are abstracted.        *)
(* External: the kernels, with their tables of descriptors.                *)
(***************************************************************************)
EXTENDS Integers, Functions, FiniteSetsExt

CONSTANTS Systems,    \* subset of {"OpenBSD", "NetBSD"}
          Places,     \* units of ugen(4), and addresses on the bus
          Ugen,       \* those of them that ugen(4) drives
          Endpoints,  \* beside endpoint 0, which is that of control
          Configs,    \* values of configurations; a device starts with the least
          Handles,
          Interfaces,
          Leaving,    \* bound: the devices that may be unplugged
          MaxFd,      \* the table of descriptors holds 0 .. MaxFd
          MaxLost,    \* bound: how often a call fails that leaves a descriptor open
          Again,      \* bound: devices are listed again
          Shared,     \* a device is opened while a handle of it is open
          Several     \* a handle claims an interface while it has another

None == -1
Bus == 0
Free == [place |-> None, node |-> 0, timeout |-> "none"]
File(p, node) == [place |-> p, node |-> node, timeout |-> "none"]

UsbBsdAssumption ==
  /\ Systems \subseteq {"OpenBSD", "NetBSD"} /\ Ugen \subseteq Places
  /\ Places \subseteq Nat \ {Bus} /\ Endpoints \subseteq Nat \ {0}
  /\ MaxFd \in Nat /\ MaxLost \in Nat

VARIABLES
  system,
  present, config,  \* the devices there are, and the configuration of each
  fds,              \* the table of descriptors
  cdesc, fd,        \* struct device_priv of each device that libusb has: cdesc is None without
  held,             \* the devices in the application's list
  scan,             \* the loop of get_device_list: devices still to come, found, the bus node
  place, claimed, endpoints,  \* per handle: its device, interfaces, struct handle_priv
  pc, node,         \* per handle: where its transfer is, and to which endpoint it is
  ran,              \* per handle: the file its last request went to
  lost,             \* history: descriptors that failing calls have left open
  stale             \* history: devices of which the last set_configuration reported a failure

device == <<cdesc, fd>>
handle == <<place, claimed, endpoints>>
transfer == <<pc, node, ran>>
vars == <<system, present, config, fds, device, held, scan, handle, transfer, lost, stale>>

NoScan == [left |-> {}, found |-> {}, fd |-> None, on |-> FALSE]

Init ==
  /\ system \in Systems
  /\ present = Places /\ config = [p \in Places |-> Min(Configs)]
  /\ fds = [f \in 0 .. MaxFd |-> Free]
  /\ cdesc = [p \in Places |-> None] /\ fd = [p \in Places |-> None]
  /\ held = {} /\ scan = NoScan
  /\ place = [h \in Handles |-> None] /\ claimed = [h \in Handles |-> {}]
  /\ endpoints = [h \in Handles |-> [e \in Endpoints |-> 0]]
  /\ pc = [h \in Handles |-> "closed"] /\ node = [h \in Handles |-> 0]
  /\ ran = [h \in Handles |-> Free]
  /\ lost = {} /\ stale = {}

-----------------------------------------------------------------------------
(* The kernel. *)

FreeFds(table) == {f \in DOMAIN table : table[f] = Free}
Full(table) == FreeFds(table) = {}
\* open returns the least number that is free.
Opened(table, file) == [table EXCEPT ![Min(FreeFds(table))] = file]
CloseAll(table, set) == [f \in DOMAIN table |-> IF f \in set THEN Free ELSE table[f]]
\* A request on f gets to a device that is there; EBADF or EIO otherwise.
Reaches(f) == f \in DOMAIN fds /\ fds[f] # Free /\ fds[f].place \in present

Unplug(p) ==
  /\ p \in present \cap Leaving /\ present' = present \ {p}
  /\ UNCHANGED <<system, config, fds, device, held, scan, handle, transfer, lost, stale>>

-----------------------------------------------------------------------------
(* obsd_get_device_list, netbsd_get_device_list: one device after another.   *)

InUse == {place[h] : h \in Handles} \ {None}
\* References are dropped: structs that no list, no handle holds any more are freed.
Keep(set) ==
  /\ held' = set
  /\ cdesc' = [p \in Places |-> IF p \in set \cup InUse THEN cdesc[p] ELSE None]
  /\ fd' = [p \in Places |-> IF p \in set \cup InUse THEN fd[p] ELSE None]

MayLose == Cardinality(lost) < MaxLost
\* A descriptor is opened and, on an error path, forgotten.
Lose(file) ==
  /\ MayLose /\ ~Full(fds)
  /\ fds' = Opened(fds, file) /\ lost' = lost \cup {Min(FreeFds(fds))}

\* OpenBSD opens the node of the bus first.
BeginScan ==
  /\ ~scan.on /\ (Again \/ held = {}) /\ Keep({})
  /\ LET bus == system = "OpenBSD" /\ ~Full(fds) IN
     /\ scan' = [left |-> IF system = "OpenBSD" /\ Full(fds) THEN {} ELSE Places, found |-> {},
                 fd |-> IF bus THEN Min(FreeFds(fds)) ELSE None, on |-> TRUE]
     /\ fds' = IF bus THEN Opened(fds, File(Bus, 0)) ELSE fds
  /\ UNCHANGED <<system, present, config, handle, transfer, lost, stale>>

at == Min(scan.left)
Scanning == scan.on /\ scan.left # {}
Found(set) == scan' = [scan EXCEPT !.left = @ \ {at}, !.found = @ \cup set]

\* The struct that is found by the session is listed as it is; another is made,
\* and the descriptor of the active configuration read.
List ==
  /\ Scanning /\ at \in present
  /\ CASE system = "OpenBSD" -> cdesc[at] = None => ~Full(fds)
       [] system = "NetBSD" -> at \in Ugen /\ ~Full(fds)
  /\ Found({at})
  /\ cdesc' = [cdesc EXCEPT ![at] = IF @ = None THEN config[at] ELSE @]
  /\ UNCHANGED <<fds, fd, held, lost>>

\* A device that is not there, that cannot be opened or cannot be asked.
Skip ==
  /\ Scanning
  /\ CASE system = "OpenBSD" -> at \notin present \/ cdesc[at] = None
       [] system = "NetBSD" -> at \notin present \cap Ugen \/ Full(fds)
  /\ Found({}) /\ UNCHANGED <<fds, device, held, lost>>
\* OpenBSD: _cache_active_config_descriptor without close; NetBSD: continue without close.
SkipAndLose ==
  /\ Scanning /\ at \in present /\ Found({})
  /\ CASE system = "OpenBSD" -> cdesc[at] = None /\ Lose(File(Bus, 0))
       [] system = "NetBSD" -> at \in Ugen /\ Lose(File(at, 0))
  /\ UNCHANGED <<device, held>>

\* No memory for the struct, or (NetBSD) a descriptor that cannot be read: nothing is
\* listed.
ScanFails ==
  /\ Scanning /\ at \in present /\ cdesc[at] = None
  /\ scan' = NoScan /\ Keep({})
  /\ CASE system = "OpenBSD" -> fds' = CloseAll(fds, {scan.fd}) /\ UNCHANGED lost
       [] system = "NetBSD" -> at \in Ugen /\ (Lose(File(at, 0)) \/ (~Full(fds) /\ UNCHANGED <<fds, lost>>))

EndScan ==
  /\ scan.on /\ scan.left = {}
  /\ scan' = NoScan /\ Keep(scan.found)
  /\ fds' = CloseAll(fds, {scan.fd}) /\ UNCHANGED lost

Scan ==
  /\ List \/ Skip \/ SkipAndLose \/ ScanFails \/ EndScan
  /\ UNCHANGED <<system, present, config, handle, transfer, stale>>

-----------------------------------------------------------------------------
(* Opening, claiming, releasing, closing. *)

Still == UNCHANGED <<system, present, config, scan, lost, stale>>
HasNode(p) == system = "NetBSD" \/ p \in Ugen

\* obsd_open, netbsd_open: the descriptor is put down with the device.
Open(h, p) ==
  /\ pc[h] = "closed" /\ p \in held /\ (Shared \/ p \notin InUse)
  /\ LET opens == HasNode(p) /\ p \in present /\ ~Full(fds) IN
     /\ IF opens THEN fds' = Opened(fds, File(p, 0)) ELSE UNCHANGED fds
     /\ fd' = [fd EXCEPT ![p] = IF opens THEN Min(FreeFds(fds)) ELSE None]
     /\ IF opens \/ ~HasNode(p)
        THEN /\ place' = [place EXCEPT ![h] = p]
             /\ pc' = [pc EXCEPT ![h] = "ready"]
        ELSE UNCHANGED <<place, pc>>
  /\ UNCHANGED <<cdesc, held, claimed, endpoints, node, ran>> /\ Still

\* Mutant: the descriptor stays open.
Close_Leaves(h) ==
  /\ pc[h] = "ready" /\ claimed[h] = {}
  /\ LET p == place[h]
         unheld == {p} \ (held \cup scan.found \cup {place[g] : g \in Handles \ {h}})
     IN
     /\ UNCHANGED fds
     /\ fd' = [fd EXCEPT ![p] = None]
     /\ cdesc' = [q \in Places |-> IF q \in unheld THEN None ELSE cdesc[q]]
  /\ place' = [place EXCEPT ![h] = None] /\ pc' = [pc EXCEPT ![h] = "closed"]
  /\ endpoints' = [endpoints EXCEPT ![h] = [e \in Endpoints |-> 0]]
  /\ UNCHANGED <<held, claimed, node, ran>> /\ Still

Close(h) ==
  /\ pc[h] = "ready" /\ claimed[h] = {}
  /\ LET p == place[h]
         unheld == {p} \ (held \cup scan.found \cup {place[g] : g \in Handles \ {h}})
     IN
     /\ fds' = CloseAll(fds, {fd[p]})
     /\ fd' = [fd EXCEPT ![p] = None]
     /\ cdesc' = [q \in Places |-> IF q \in unheld THEN None ELSE cdesc[q]]
  /\ place' = [place EXCEPT ![h] = None] /\ pc' = [pc EXCEPT ![h] = "closed"]
  /\ endpoints' = [endpoints EXCEPT ![h] = [e \in Endpoints |-> 0]]
  /\ UNCHANGED <<held, claimed, node, ran>> /\ Still

\* Mutant: the descriptors of the endpoints are kept from one claim to the next.
Claim_Keeps(h, i) ==
  /\ pc[h] = "ready" /\ i \notin claimed[h] /\ (Several \/ claimed[h] = {})
  /\ claimed' = [claimed EXCEPT ![h] = @ \cup {i}]
  /\ endpoints' = [endpoints EXCEPT ![h] = [e \in Endpoints |-> IF @[e] = 0 THEN None ELSE @[e]]]
  /\ UNCHANGED <<fds, device, held, place, transfer>> /\ Still

\* The kernel is not asked, the endpoints are forgotten.
Claim(h, i) ==
  /\ pc[h] = "ready" /\ i \notin claimed[h] /\ (Several \/ claimed[h] = {})
  /\ claimed' = [claimed EXCEPT ![h] = @ \cup {i}]
  /\ endpoints' = [endpoints EXCEPT ![h] = [e \in Endpoints |-> None]]
  /\ UNCHANGED <<fds, device, held, place, transfer>> /\ Still

\* All endpoints are closed, and not marked so.
Release(h, i) ==
  /\ pc[h] = "ready" /\ i \in claimed[h]
  /\ claimed' = [claimed EXCEPT ![h] = @ \ {i}]
  /\ fds' = CloseAll(fds, Range(endpoints[h]))
  /\ UNCHANGED <<device, held, place, endpoints, transfer>> /\ Still

\* Mutant: the descriptor that was read first is kept.
SetConfiguration_KeepsCache(h, c) ==
  /\ pc[h] = "ready" /\ HasNode(place[h]) /\ Reaches(fd[place[h]])
  /\ LET p == place[h] IN
     /\ config' = [config EXCEPT ![fds[fd[p]].place] = c]
     /\ stale' = stale \ {p}
     /\ UNCHANGED <<cdesc, fds, lost>>
  /\ UNCHANGED <<system, present, fd, held, scan, handle, transfer>>

\* The device is configured, and its descriptor read again; the first may have
\* happened when the second fails.
SetConfiguration(h, c) ==
  /\ pc[h] = "ready" /\ HasNode(place[h]) /\ Reaches(fd[place[h]])
  /\ LET p == place[h] IN
     /\ config' = [config EXCEPT ![fds[fd[p]].place] = c]
     /\ \/ /\ system = "OpenBSD" => ~Full(fds)
           /\ cdesc' = [cdesc EXCEPT ![p] = config'[p]] /\ stale' = stale \ {p}
           /\ UNCHANGED <<fds, lost>>
        \/ /\ stale' = stale \cup {p}
           /\ UNCHANGED cdesc
           /\ \/ UNCHANGED <<fds, lost>>
              \/ system = "OpenBSD" /\ Lose(File(Bus, 0))
  /\ UNCHANGED <<system, present, fd, held, scan, handle, transfer>>

-----------------------------------------------------------------------------
(* Requests and transfers. *)

Step(h, where) == pc' = [pc EXCEPT ![h] = where]
Back(h) == Step(h, "ready") /\ node' = [node EXCEPT ![h] = 0]
Kept == UNCHANGED <<device, held, place, claimed>> /\ Still

\* The descriptor the transfer of h goes through: read again at each call.
FdOf(h) == IF node[h] = 0 THEN fd[place[h]] ELSE endpoints[h][node[h]]

\* An alternate setting, a halt cleared, the configuration read: one request
\* over the descriptor for control.
Ask(h) ==
  /\ pc[h] = "ready" /\ HasNode(place[h]) /\ Reaches(fd[place[h]])
  /\ ran' = [ran EXCEPT ![h] = [fds[fd[place[h]]] EXCEPT !.timeout = h]]
  /\ node' = [node EXCEPT ![h] = 0] /\ Step(h, "done")
  /\ UNCHANGED <<fds, endpoints>> /\ Kept

\* submit_transfer; transfers that are not supported are refused at once.
SubmitControl(h) ==
  /\ pc[h] = "ready" /\ HasNode(place[h])
  /\ node' = [node EXCEPT ![h] = 0] /\ Step(h, "timeout")
  /\ UNCHANGED <<fds, endpoints, ran>> /\ Kept
Submit(h, e) ==
  /\ pc[h] = "ready" /\ HasNode(place[h]) /\ claimed[h] # {}
  /\ node' = [node EXCEPT ![h] = e] /\ Step(h, "access")
  /\ UNCHANGED <<fds, endpoints, ran>> /\ Kept

\* _access_endpoint: ugen(4) lets an endpoint be open once.
Access(h) ==
  /\ pc[h] = "access"
  /\ IF endpoints[h][node[h]] >= 0
     THEN Step(h, "timeout") /\ UNCHANGED <<fds, endpoints, node>>
     ELSE LET file == File(place[h], node[h]) IN
          IF Full(fds) \/ place[h] \notin present \/ \E f \in DOMAIN fds : [fds[f] EXCEPT !.timeout = "none"] = file
          THEN Back(h) /\ UNCHANGED <<fds, endpoints>>
          ELSE /\ fds' = Opened(fds, file)
               /\ endpoints' = [endpoints EXCEPT ![h][node[h]] = Min(FreeFds(fds))]
               /\ Step(h, "timeout") /\ UNCHANGED node
  /\ UNCHANGED ran /\ Kept

\* USB_SET_TIMEOUT, which lasts for the file.
SetTimeout(h) ==
  /\ pc[h] = "timeout"
  /\ IF Reaches(FdOf(h))
     THEN fds' = [fds EXCEPT ![FdOf(h)].timeout = h] /\ Step(h, "transfer") /\ UNCHANGED node
     ELSE Back(h) /\ UNCHANGED fds
  /\ UNCHANGED <<endpoints, ran>> /\ Kept

\* USB_DO_REQUEST, read or write: the transfer is over when the call returns.
Transfer(h) ==
  /\ pc[h] = "transfer"
  /\ \/ Reaches(FdOf(h)) /\ Step(h, "done") /\ ran' = [ran EXCEPT ![h] = fds[FdOf(h)]] /\ UNCHANGED node
     \/ Back(h) /\ UNCHANGED ran
  /\ UNCHANGED <<fds, endpoints>> /\ Kept

\* The completion is signalled; whatever the call did is told as completed.
Complete(h) ==
  /\ pc[h] = "done" /\ Back(h) /\ ran' = [ran EXCEPT ![h] = Free]
  /\ UNCHANGED <<fds, endpoints>> /\ Kept

Next ==
  \/ \E p \in Places : Unplug(p)
  \/ BeginScan \/ Scan
  \/ \E h \in Handles :
       \/ \E p \in Places : Open(h, p)
       \/ \E i \in Interfaces : Claim(h, i) \/ Release(h, i)
       \/ \E c \in Configs : SetConfiguration(h, c)
       \/ \E e \in Endpoints : Submit(h, e)
       \/ Close(h) \/ Ask(h) \/ SubmitControl(h)
       \/ Access(h) \/ SetTimeout(h) \/ Transfer(h) \/ Complete(h)

Spec == Init /\ [][Next]_vars

-----------------------------------------------------------------------------
TypeOK ==
  /\ present \subseteq Places /\ held \subseteq Places
  /\ cdesc \in [Places -> Configs \cup {None}] /\ fd \in [Places -> {None} \cup 0 .. MaxFd]
  /\ endpoints \in [Handles -> [Endpoints -> {None} \cup 0 .. MaxFd]]
  /\ place \in [Handles -> Places \cup {None}] /\ claimed \in [Handles -> SUBSET Interfaces]
  /\ lost \subseteq DOMAIN fds

\* Every request goes to the device of its handle and to the endpoint it is
\* for, within the time it asked for, although all that is kept are numbers,
\* two of which live longer than what they stand for: that of control is the
\* device's and not the handle's, those of endpoints outlive their release
\* (openbsd_usb.c:285, openbsd_usb.c:395).
RequestsReachTheirDevice ==
  \A h \in Handles : pc[h] = "done" => ran[h] = [File(place[h], node[h]) EXCEPT !.timeout = h]

\* The descriptors libusb knows of.
Known ==
  {scan.fd} \cup {fd[p] : p \in Places}
  \cup UNION {Range(endpoints[h]) : h \in {g \in Handles : claimed[g] # {}}}

\* No descriptor stays open that no struct names, but for those that failing
\* calls are known to forget (openbsd_usb.c:598-599, netbsd_usb.c:159).
OnlyFailuresLeak == \A f \in DOMAIN fds : fds[f] # Free => f \in Known \cup lost

\* The descriptor libusb has kept is that of the active configuration, unless
\* the last call to change it has reported a failure (openbsd_usb.c:377).
CachedIsActive ==
  \A p \in Places \ stale : cdesc[p] # None /\ p \in present => cdesc[p] = config[p]
=============================================================================
