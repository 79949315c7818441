--------------------------- MODULE UsbDarwinDevices ---------------------------
(***************************************************************************)
(* The devices of libusb on Darwin (darwin_usb.c): the cache that all      *)
(* contexts share, with its counts of references, the scan a new context   *)
(* makes, and the thread whose run loop tells every context of devices     *)
(* that are attached and detached.                                         *)
(*                                                                         *)
(* Each context is used by one thread.  What happens under                 *)
(* darwin_cached_devices_lock, usb_devs_lock or event_data_lock is a step; *)
(* default_context_lock is the variable creating, active_contexts_lock is  *)
(* held while loop.at is not "idle".  An iterator of the kernel is the set *)
(* of what it has still to return.  How a descriptor is read, with its     *)
(* retries, is abstracted to whether it is got.  Left out, by a guard that *)
(* the README names: a context that is made while another is given up.     *)
(* External: the registry of I/O Kit, its notifications, the run loop.     *)
(***************************************************************************)
EXTENDS Integers, SequencesExt, FiniteSetsExt

CONSTANTS Sessions,  \* sessionIDs of devices, in the order they are plugged in: 1 .. n
          Hub,       \* Hub[s]: the session of the hub s is plugged into, or 0
          First,     \* bound: sessions up to this one may be there from the start
          Poor,      \* devices whose descriptor may not be got
          Contexts,
          MaxInits,  \* bound: how often a context is made
          Racing     \* devices come and go while a context is being made

None == "none"

UsbDarwinDevicesAssumption ==
  /\ Sessions = 1 .. Cardinality(Sessions) /\ First \in Sessions \cup {0}
  /\ Hub \in [Sessions -> Sessions \cup {0}] /\ \A s \in Sessions : Hub[s] < s
  /\ Poor \subseteq Sessions /\ None \notin Contexts /\ MaxInits \in Nat /\ Racing \in BOOLEAN

VARIABLES
  registry, born,    \* the devices there are; how many there have been
  added, removed,    \* what the two iterators of the notifications hold
  loop,              \* the thread: its stage, the callback it is in, service, contexts to tell;
                     \* whether it is stopped, or was before it ran
  mem,               \* cached devices and struct libusb_device: see Empty
  usb_devs, msgs,    \* per context
  active, ready,     \* active_contexts_list; contexts with a list of messages
  initCount, inits,
  creating, scan,    \* who holds default_context_lock, and what it has still to process
  work,              \* process_new_device, for the scan and for the loop: see NoWork
  pc, held,          \* per context: where its thread is, the devices of its list
  twice, dangling    \* history: listed again; used after it was freed

vars == <<registry, born, added, removed, loop, mem, usb_devs, msgs, active, ready, initCount, inits,
          creating, scan, work, pc, held, twice, dangling>>
bus == <<registry, born>>
iterators == <<added, removed>>
session == <<active, ready, initCount, inits, creating>>
history == <<twice, dangling>>

\* Per session the refcount of its struct darwin_cached_device (0: not cached) and
\* can_enumerate; per context and session the refcnt and the parent_dev of its
\* struct libusb_device.
Empty == [refcount |-> [s \in Sessions |-> 0], can_enumerate |-> {},
          refcnt |-> [c \in Contexts |-> [s \in Sessions |-> 0]],
          parent |-> [c \in Contexts |-> [s \in Sessions |-> 0]]]
NoLoop == [stage |-> "off", at |-> "idle", service |-> 0, ctxs |-> {}, stop |-> FALSE, missed |-> FALSE]
NoWork == [at |-> "idle", ctx |-> None, service |-> 0]

Init ==
  /\ \E n \in 0 .. First : registry = 1 .. n /\ born = n
  /\ added = {} /\ removed = {} /\ loop = NoLoop /\ mem = Empty
  /\ usb_devs = [c \in Contexts |-> {}] /\ msgs = [c \in Contexts |-> << >>]
  /\ active = {} /\ ready = {} /\ initCount = 0 /\ inits = 0
  /\ creating = None /\ scan = {}
  /\ work = [t \in {"scan", "loop"} |-> NoWork]
  /\ pc = [c \in Contexts |-> "out"] /\ held = [c \in Contexts |-> {}]
  /\ twice = {} /\ dangling = FALSE

At(c, place) == pc[c] = place
Goto(c, place) == pc' = [pc EXCEPT ![c] = place]
Armed == loop.stage \in {"armed", "running"}
Finished == \E c \in Contexts : pc[c] = "finished"
Making == creating # None \/ loop.stage \in {"created"}
Told == loop.at = "idle" /\ (Armed => added = {} /\ removed = {})

-----------------------------------------------------------------------------
(* The registry.  The iterators hold what comes after they were armed. *)

Changes == ~Finished /\ (Racing \/ ~Making)

Plug ==
  LET s == born + 1 IN
  /\ Changes /\ s \in Sessions /\ (Hub[s] = 0 \/ Hub[s] \in registry)
  /\ registry' = registry \cup {s} /\ born' = s
  /\ added' = IF Armed THEN added \cup {s} ELSE added
  /\ UNCHANGED <<removed, loop, mem, usb_devs, msgs, session, scan, work, pc, held, history>>

Unplug(s) ==
  /\ Changes /\ s \in registry /\ \A b \in registry : Hub[b] # s
  /\ registry' = registry \ {s}
  /\ removed' = IF Armed THEN removed \cup {s} ELSE removed
  /\ UNCHANGED <<born, added, loop, mem, usb_devs, msgs, session, scan, work, pc, held, history>>

-----------------------------------------------------------------------------
(* References. *)

\* darwin_deref_cached_device: at 0 it is freed.
Deref(m, s) == [m EXCEPT !.refcount[s] = @ - 1, !.can_enumerate = IF m.refcount[s] = 1 THEN @ \ {s} ELSE @]

\* libusb_unref_device: with the last reference the parent's goes too, and
\* darwin_destroy_device drops that to the cached device.
RECURSIVE Unref(_, _, _)
Unref(m, c, s) ==
  IF s = 0 THEN m
  ELSE IF m.refcnt[c][s] > 1 THEN [m EXCEPT !.refcnt[c][s] = @ - 1]
  ELSE Deref(Unref([m EXCEPT !.refcnt[c][s] = 0, !.parent[c][s] = 0], c, m.parent[c][s]), s)
UnrefAll(m, c, set) == FoldSet(LAMBDA s, n : Unref(n, c, s), m, set)

Message(c, event, s) == IF c \in ready THEN [msgs EXCEPT ![c] = Append(@, [event |-> event, session |-> s])] ELSE msgs

-----------------------------------------------------------------------------
(* process_new_device, by the scan or by the loop (t). *)

Process(t, c, s) == work' = [work EXCEPT ![t] = [at |-> "cache", ctx |-> c, service |-> s]]
Processed(t) == work' = [work EXCEPT ![t] = NoWork]

\* darwin_get_cached_device: one that is cached is used; a new one is cached, with
\* a reference of its own, whether or not its descriptor is got.
GetCachedDevice(t) ==
  LET s == work[t].service IN
  /\ work[t].at = "cache"
  /\ IF mem.refcount[s] = 0 /\ s \in registry
     THEN \E got \in IF s \in Poor THEN BOOLEAN ELSE {TRUE} :
            mem' = [mem EXCEPT !.refcount[s] = 1, !.can_enumerate = IF got THEN @ \cup {s} ELSE @]
     ELSE UNCHANGED mem
  /\ IF mem'.refcount[s] > 0 /\ s \in mem'.can_enumerate
     THEN work' = [work EXCEPT ![t].at = "connect"]
     ELSE Processed(t)
  /\ UNCHANGED <<bus, iterators, loop, usb_devs, msgs, session, scan, pc, held, history>>

\* Mutant: the structure does not count as a reference to the cached device.
NewDevice_Uncounted(m, c, s) ==
  LET parent == IF Hub[s] \in usb_devs[c] THEN Hub[s] ELSE 0
      new == [m EXCEPT !.refcnt[c][s] = 1, !.parent[c][s] = parent]
  IN IF parent = 0 THEN new ELSE [new EXCEPT !.refcnt[c][parent] = @ + 1]

\* usbi_alloc_device: its reference is that of the list; it refers to the cached
\* device and, if the context knows it, to its parent.
NewDevice(m, c, s) ==
  LET parent == IF Hub[s] \in usb_devs[c] THEN Hub[s] ELSE 0
      new == [m EXCEPT !.refcount[s] = @ + 1, !.refcnt[c][s] = 1, !.parent[c][s] = parent]
  IN IF parent = 0 THEN new ELSE [new EXCEPT !.refcnt[c][parent] = @ + 1]

\* The rest, without a lock on the cache: usbi_connect_device puts it in the list.
\* darwin_check_configuration may fail if the device has gone.
ConnectDevice(t) ==
  LET s == work[t].service
      c == work[t].ctx
  IN
  /\ work[t].at = "connect"
  /\ \/ /\ s \notin registry
        /\ UNCHANGED <<mem, usb_devs, msgs, history>>
     \/ /\ mem.refcount[s] = 0 /\ dangling' = TRUE
        /\ UNCHANGED <<mem, usb_devs, msgs, twice>>
     \/ /\ mem.refcount[s] > 0 /\ mem.refcnt[c][s] > 0 /\ twice' = twice \cup {<<c, s>>}
        /\ UNCHANGED <<mem, usb_devs, msgs, dangling>>
     \/ /\ mem.refcount[s] > 0 /\ mem.refcnt[c][s] = 0
        /\ mem' = NewDevice(mem, c, s)
        /\ usb_devs' = [usb_devs EXCEPT ![c] = @ \cup {s}]
        /\ msgs' = Message(c, "arrived", s)
        /\ UNCHANGED history
  /\ Processed(t)
  /\ UNCHANGED <<bus, iterators, loop, session, scan, pc, held>>

-----------------------------------------------------------------------------
(* darwin_event_thread_main. *)

LoopIdle == loop.ctxs = {} /\ work["loop"].at = "idle"

\* The notifications are asked for, and what they hold already is thrown away.
Arm ==
  /\ loop.stage = "created"
  /\ loop' = [loop EXCEPT !.stage = "armed"] /\ added' = {} /\ removed' = {}
  /\ UNCHANGED <<bus, mem, usb_devs, msgs, session, scan, work, pc, held, history>>

Run ==
  /\ loop.stage = "armed" /\ loop' = [loop EXCEPT !.stage = "running"]
  /\ UNCHANGED <<bus, iterators, mem, usb_devs, msgs, session, scan, work, pc, held, history>>

\* darwin_devices_attached: the next service of the iterator ...
Attached ==
  /\ loop.stage = "running" /\ loop.at \in {"idle", "attached"} /\ LoopIdle
  /\ \E s \in added :
       /\ added' = added \ {s}
       /\ loop' = [loop EXCEPT !.at = "attached", !.service = s, !.ctxs = active]
  /\ UNCHANGED <<bus, removed, mem, usb_devs, msgs, session, scan, work, pc, held, history>>

\* Mutant: one context is told.
TellAttached_One ==
  /\ loop.at = "attached" /\ work["loop"].at = "idle"
  /\ \E c \in loop.ctxs :
       /\ loop' = [loop EXCEPT !.ctxs = {}]
       /\ Process("loop", c, loop.service)
  /\ UNCHANGED <<bus, iterators, mem, usb_devs, msgs, session, scan, pc, held, history>>

\* ... is processed for every active context.
TellAttached ==
  /\ loop.at = "attached" /\ work["loop"].at = "idle"
  /\ \E c \in loop.ctxs :
       /\ loop' = [loop EXCEPT !.ctxs = @ \ {c}]
       /\ Process("loop", c, loop.service)
  /\ UNCHANGED <<bus, iterators, mem, usb_devs, msgs, session, scan, pc, held, history>>


\* darwin_devices_detached: the reference of the cache is dropped ...
Detached ==
  /\ loop.stage = "running" /\ loop.at \in {"idle", "detached"} /\ LoopIdle
  /\ \E s \in removed :
       /\ removed' = removed \ {s}
       /\ loop' = [loop EXCEPT !.at = "detached", !.service = s, !.ctxs = active]
       /\ mem' = IF mem.refcount[s] > 0 THEN Deref(mem, s) ELSE mem
  /\ UNCHANGED <<bus, added, usb_devs, msgs, session, scan, work, pc, held, history>>

\* ... and every active context loses the device: usbi_disconnect_device.  The
\* reference of the list goes to the message.
TellDetached ==
  /\ loop.at = "detached"
  /\ \E c \in loop.ctxs :
       /\ loop' = [loop EXCEPT !.ctxs = @ \ {c}]
       /\ usb_devs' = [usb_devs EXCEPT ![c] = @ \ {loop.service}]
       /\ msgs' = IF loop.service \in usb_devs[c] THEN Message(c, "left", loop.service) ELSE msgs
  /\ UNCHANGED <<bus, iterators, mem, session, scan, work, pc, held, history>>

\* The iterator is empty.
CallbackReturns ==
  /\ LoopIdle
  /\ \/ loop.at = "attached" /\ added = {}
     \/ loop.at = "detached" /\ removed = {}
  /\ loop' = [loop EXCEPT !.at = "idle"]
  /\ UNCHANGED <<bus, iterators, mem, usb_devs, msgs, session, scan, work, pc, held, history>>

\* CFRunLoopRun returns; nothing is announced any longer.
LoopEnds ==
  /\ loop.stage = "running" /\ loop.stop /\ loop.at = "idle"
  /\ loop' = NoLoop /\ added' = {} /\ removed' = {}
  /\ UNCHANGED <<bus, mem, usb_devs, msgs, session, scan, work, pc, held, history>>

-----------------------------------------------------------------------------
(* libusb_init, with darwin_init. *)

CreateContext(c) ==
  /\ At(c, "out") /\ ~Finished /\ creating = None /\ loop.at = "idle"
  /\ \A b \in Contexts : pc[b] \notin {"drain", "stop", "join"}
  /\ Racing \/ Told
  /\ inits < MaxInits /\ inits' = inits + 1
  /\ creating' = c /\ active' = active \cup {c} /\ scan' = registry
  /\ Goto(c, "scan")
  /\ UNCHANGED <<bus, iterators, loop, mem, usb_devs, msgs, ready, initCount, work, held, history>>

\* darwin_scan_devices
ScanDevice(c) ==
  /\ At(c, "scan") /\ work["scan"].at = "idle"
  /\ \E s \in scan : scan' = scan \ {s} /\ Process("scan", c, s)
  /\ UNCHANGED <<bus, iterators, loop, mem, usb_devs, msgs, session, pc, held, history>>

\* The first context makes the thread.
Scanned(c) ==
  /\ At(c, "scan") /\ scan = {} /\ work["scan"].at = "idle"
  /\ initCount' = initCount + 1
  /\ loop' = IF initCount = 0 THEN [NoLoop EXCEPT !.stage = "created"] ELSE loop
  /\ Goto(c, "wait")
  /\ UNCHANGED <<bus, iterators, mem, usb_devs, msgs, active, ready, inits, creating, scan, work, held, history>>

\* It waits until there is a run loop.  usbi_io_init makes the messages ready.
Created(c) ==
  /\ At(c, "wait") /\ Armed
  /\ ready' = ready \cup {c} /\ creating' = None /\ Goto(c, "in")
  /\ UNCHANGED <<bus, iterators, loop, mem, usb_devs, msgs, active, initCount, inits, scan, work, held, history>>

-----------------------------------------------------------------------------
(* What an application does with its context. *)

Get(c) ==
  /\ At(c, "in") /\ held[c] = {} /\ usb_devs[c] # {}
  /\ held' = [held EXCEPT ![c] = usb_devs[c]]
  /\ mem' = [mem EXCEPT !.refcnt[c] = [s \in Sessions |-> IF s \in usb_devs[c] THEN @[s] + 1 ELSE @[s]]]
  /\ UNCHANGED <<bus, iterators, loop, usb_devs, msgs, session, scan, work, pc, history>>

FreeDeviceList(c) ==
  /\ At(c, "in") /\ held[c] # {}
  /\ held' = [held EXCEPT ![c] = {}] /\ mem' = UnrefAll(mem, c, held[c])
  /\ UNCHANGED <<bus, iterators, loop, usb_devs, msgs, session, scan, work, pc, history>>

\* Mutant: the reference of the message is kept.
Handled_Kept(m, c, msg) == m

\* handle_events: the message that a device has left has the list's reference.
Handled(m, c, msg) == IF msg.event = "left" THEN Unref(m, c, msg.session) ELSE m

HandleEvents(c) ==
  /\ At(c, "in") /\ msgs[c] # << >>
  /\ mem' = Handled(mem, c, Head(msgs[c])) /\ msgs' = [msgs EXCEPT ![c] = Tail(@)]
  /\ UNCHANGED <<bus, iterators, loop, usb_devs, session, scan, work, pc, held, history>>

\* libusb_exit
Exit(c) ==
  /\ At(c, "in") /\ held[c] = {} /\ loop.at = "idle" /\ creating = None
  /\ active' = active \ {c} /\ Goto(c, "drain")
  /\ UNCHANGED <<bus, iterators, loop, mem, usb_devs, msgs, ready, initCount, inits, creating, scan, work, held, history>>

\* The messages are handled, and the list is emptied.
Drain(c) ==
  /\ At(c, "drain")
  /\ mem' = UnrefAll(FoldLeft(LAMBDA m, msg : Handled(m, c, msg), mem, msgs[c]), c, usb_devs[c])
  /\ msgs' = [msgs EXCEPT ![c] = << >>] /\ usb_devs' = [usb_devs EXCEPT ![c] = {}]
  /\ ready' = ready \ {c} /\ Goto(c, "stop")
  /\ UNCHANGED <<bus, iterators, loop, active, initCount, inits, creating, scan, work, held, history>>


\* CFRunLoopStop, which is lost on a run loop that does not run yet.
Stopped == IF loop.stage = "running" THEN [loop EXCEPT !.stop = TRUE] ELSE [loop EXCEPT !.missed = TRUE]

\* darwin_exit: the last one stops the run loop, and waits for the thread.
StopLoop(c) ==
  /\ At(c, "stop") /\ initCount' = initCount - 1
  /\ IF initCount = 1 THEN loop' = Stopped /\ Goto(c, "join") ELSE UNCHANGED loop /\ Goto(c, "out")
  /\ UNCHANGED <<bus, iterators, mem, usb_devs, msgs, active, ready, inits, creating, scan, work, held, history>>

Joined(c) ==
  /\ At(c, "join") /\ loop.stage = "off" /\ Goto(c, "out")
  /\ UNCHANGED <<bus, iterators, loop, mem, usb_devs, msgs, session, scan, work, held, history>>

\* _darwin_finalize, at the end of the process.
Finalize ==
  /\ \A c \in Contexts : At(c, "out")
  /\ mem' = FoldSet(LAMBDA s, m : Deref(m, s), mem, {s \in Sessions : mem.refcount[s] > 0})
  /\ pc' = [c \in Contexts |-> "finished"]
  /\ UNCHANGED <<bus, iterators, loop, usb_devs, msgs, session, scan, work, held, history>>

-----------------------------------------------------------------------------
Loop == Arm \/ Run \/ Attached \/ TellAttached \/ Detached \/ TellDetached \/ CallbackReturns \/ LoopEnds
        \/ GetCachedDevice("loop") \/ ConnectDevice("loop")
\* What the thread of c does once it has begun to make or to give up its context.
Proceed(c) ==
  \/ ScanDevice(c) \/ Scanned(c) \/ Created(c) \/ Drain(c) \/ StopLoop(c) \/ Joined(c)
  \/ creating = c /\ (GetCachedDevice("scan") \/ ConnectDevice("scan"))
Uses(c) == Get(c) \/ FreeDeviceList(c) \/ HandleEvents(c)

Next ==
  \/ Plug \/ (\E s \in Sessions : Unplug(s))
  \/ Loop \/ Finalize
  \/ \E c \in Contexts : CreateContext(c) \/ Proceed(c) \/ Uses(c) \/ Exit(c)

Fairness == WF_vars(Loop) /\ \A c \in Contexts : WF_vars(Proceed(c))
Spec == Init /\ [][Next]_vars /\ Fairness

-----------------------------------------------------------------------------
TypeOK ==
  /\ registry \subseteq 1 .. born /\ born \in Sessions \cup {0}
  /\ mem.refcount \in [Sessions -> Nat] /\ mem.refcnt \in [Contexts -> [Sessions -> Nat]]
  /\ \A c \in Contexts : usb_devs[c] \subseteq Sessions /\ held[c] \subseteq Sessions
  /\ ready \subseteq Contexts /\ active \subseteq Contexts /\ initCount \in 0 .. Cardinality(Contexts)
  /\ pc \in [Contexts -> {"out", "scan", "wait", "in", "drain", "stop", "join", "finished"}]

\* Devices do not come and go while a context is made (without Racing).
\* A cached device is there as long as somebody refers to it: each structure of
\* each context, and process_new_device between the two times it looks at it; and
\* it is listed in a context once (darwin_usb.c:139-152, 763-850, 852-921).
CachedWhileUsed ==
  /\ \A c \in Contexts, s \in Sessions : mem.refcnt[c][s] > 0 => mem.refcount[s] > 0
  /\ ~dangling /\ twice = {}

\* When nothing is under way a context lists what is plugged in and can be
\* enumerated, and nothing else (darwin_usb.c:261-322, 444-470).
ListsAreTrue ==
  \A c \in Contexts :
    At(c, "in") /\ Armed /\ Told /\ ~Making => usb_devs[c] = {s \in registry : s \in Poor => s \in mem.can_enumerate}

\* At the end of the process nothing is left, and nothing has been dropped twice:
\* the reference the cache has of its own is dropped by the thread or at the end
\* (darwin_usb.c:297-306, 434-441).
AllIsFreed ==
  (\A c \in Contexts : At(c, "finished")) => \A s \in Sessions : mem.refcount[s] = 0

\* A context that is made or given up gets there, but for one whose stop came after the
\* thread had announced its run loop and before it ran it: that one waits for ever
\* (darwin_usb.c:407-412, 457-467, 472-481).
Waits(c) == pc[c] \in {"scan", "wait", "drain", "stop", "join"} /\ ~(At(c, "join") /\ loop.missed)
CallsEnd == \A c \in Contexts : Waits(c) ~> ~Waits(c)
=============================================================================
