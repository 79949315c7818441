------------------------------- MODULE UsbIo -------------------------------
(***************************************************************************)
(* Event handling of libusb as usb.c uses it (io.c, sync.c, the open and   *)
(* close of core.c, the submission and reaping of linux_usbfs.c): threads  *)
(* with a handle each make synchronous transfers; whoever gets the events  *)
(* lock polls and completes the transfers of all, the others wait to be    *)
(* woken or try again; a close interrupts them; timeouts cancel, and the   *)
(* device may be unplugged at any time.                                    *)
(*                                                                         *)
(* One context, one device, one URB per transfer (UsbUrbs has many).  The  *)
(* sections under event_data_lock, flags_lock and the lock of the device   *)
(* call nothing and are steps; the other locks are state.  No timerfd: the *)
(* Android configuration has none, and no backend handles timeouts itself. *)
(* The lists of the hotplug callbacks are empty: usb.c registers none.     *)
(* External: the kernel, and the sixty seconds of a wait, which never pass.*)
(***************************************************************************)
EXTENDS Integers, SequencesExt, FiniteSetsExt

CONSTANTS Threads,            \* callers: the Java threads in usbGetDevices
          Timed,              \* those whose transfers have a timeout
          Outcomes,           \* how the device may end a URB: "COMPLETED", "STALL"
          Closers,            \* bound: those that close their handle, and open it again
          Failing,            \* bound: those whose poll may fail
          ExpireDuringSubmit  \* a timeout may be over before the submission is

Nobody == "nobody"
None == "none"
Flags == {"SUBMITTING", "IN_FLIGHT", "COMPLETED", "CANCELLING", "TIMED_OUT", "DEVICE_DISAPPEARED"}
Reapable == Outcomes \cup {"killed", "shutdown"}

ASSUME UsbIoAssumption ==
  /\ IsFiniteSet(Threads) /\ Threads \cap {Nobody, "never", "now"} = {}
  /\ Timed \subseteq Threads /\ Closers \subseteq Threads /\ Failing \subseteq Threads
  /\ Outcomes \subseteq {"COMPLETED", "STALL"}
  /\ ExpireDuringSubmit \in BOOLEAN

VARIABLES
  \* the device: in its socket, not known to have left, references to it
  plugged, attached, refs,
  \* the context under event_data_lock: closes under way, the set of polled
  \* descriptors and whether it is new, hotplug messages, bytes in the event pipe
  data,
  \* who holds the events lock (and how often), event_waiters_lock,
  \* flying_transfers_lock and open_devs_lock; event_handler_active
  lock,
  sleeping,    \* threads that wait on event_waiters_cond
  flying,      \* the list of flying transfers; a transfer bears its thread's name
  openDevs,    \* the list of open handles; so does a handle, and its descriptor
  due,         \* timed transfers in the order of their timeouts
  expired,     \* those whose time is up
  xfer,        \* per transfer: lock, flags, the URB in the kernel, usbfs's record
  pc, loc      \* per thread: its place in the code, its local variables

vars == <<plugged, attached, refs, data, lock, sleeping, flying, openDevs, due, expired,
          xfer, pc, loc>>
device == <<plugged, attached, refs>>
time == <<due, expired>>

Transfer == [lock : Threads \cup {Nobody}, flags : SUBSET Flags, urb : {None, "queued"} \cup Reapable,
             urbs : BOOLEAN, cancelled : BOOLEAN, completed : BOOLEAN,
             status : {None, "COMPLETED", "STALL", "TIMED_OUT", "CANCELLED", "NO_DEVICE"}]
NoTransfer == [lock |-> Nobody, flags |-> {}, urb |-> None, urbs |-> FALSE, cancelled |-> FALSE,
               completed |-> FALSE, status |-> None]

\* until: when the poll or the wait is over; fds, ready, gone, special: those of
\* handle_events; cur, why: the transfer that ends, and how; at, seen: the place in
\* the list of flying transfers, the flags read there; failed: poll has failed.
Locals == [until : Threads \cup {"never", "now"}, fds : SUBSET Threads, ready : SUBSET Threads,
           gone : BOOLEAN, special : BOOLEAN, cur : Threads \cup {Nobody},
           why : {None, "COMPLETED", "STALL", "TIMED_OUT", "CANCELLED", "NO_DEVICE"},
           at : Nat, seen : SUBSET Flags, failed : BOOLEAN]
NoLocals == [until |-> "never", fds |-> {}, ready |-> {}, gone |-> FALSE, special |-> FALSE,
             cur |-> Nobody, why |-> None, at |-> 0, seen |-> {}, failed |-> FALSE]

Submitting == {"submit", "submitted", "unsubmit"}
Waiting == {"wait", "try", "trylock", "waiters", "check", "sleep", "asleep", "failed"}
Handling == {"rebuild", "poll", "pipe", "dispatch", "handles", "reap", "retire", "reason",
             "complete", "scan", "clear", "detach", "unlock", "broadcast"}
TimingOut == {"timeouts", "next", "mark", "cancel"}
Closing == {"lockevents", "sweep", "innercast", "closefd", "closed",
            "closeunlock", "closecast"}
Places == {"idle", "opened", "held", "return"} \cup Submitting \cup Waiting \cup Handling
          \cup TimingOut \cup Closing

TypeOK ==
  /\ plugged \in BOOLEAN /\ attached \in BOOLEAN /\ refs \in Nat
  /\ data \in [close : Nat, pollfds : SUBSET Threads, modified : BOOLEAN,
               msgs : Nat, pipe : Nat]
  /\ lock \in [events : Threads \cup {Nobody}, depth : 0 .. 2, active : BOOLEAN,
               waiters : Threads \cup {Nobody}, flying : Threads \cup {Nobody},
               open : Threads \cup {Nobody}]
  /\ sleeping \subseteq Threads
  /\ flying \in Seq(Threads) /\ due \in Seq(Timed)
  /\ openDevs \subseteq Threads /\ expired \subseteq Timed
  /\ xfer \in [Threads -> Transfer]
  /\ pc \in [Threads -> Places] /\ loc \in [Threads -> Locals]

\* usb.c holds a reference to every device of its list, and the context another.
Init ==
  /\ plugged = TRUE /\ attached = TRUE /\ refs = 2
  /\ data = [close |-> 0, pollfds |-> {}, modified |-> FALSE, msgs |-> 0, pipe |-> 0]
  /\ lock = [events |-> Nobody, depth |-> 0, active |-> FALSE, waiters |-> Nobody,
             flying |-> Nobody, open |-> Nobody]
  /\ sleeping = {} /\ flying = << >> /\ due = << >> /\ openDevs = {} /\ expired = {}
  /\ xfer = [t \in Threads |-> NoTransfer]
  /\ pc = [t \in Threads |-> "idle"] /\ loc = [t \in Threads |-> NoLocals]

-----------------------------------------------------------------------------
At(t, place) == pc[t] = place
Goto(t, place) == pc' = [pc EXCEPT ![t] = place]

\* usbi_pending_events: what a byte in the event pipe stands for.
Pending(d) == d.close > 0 \/ d.modified \/ d.msgs > 0

\* A new reason for events is signalled when there was none before ...
Signal(d) == data' = [d EXCEPT !.pipe = IF Pending(data) THEN @ ELSE @ + 1]

\* ... and the byte is read when none is left: a read of an empty pipe waits.
Clear(d) ==
  /\ Pending(d) \/ d.pipe > 0
  /\ data' = IF Pending(d) THEN d ELSE [d EXCEPT !.pipe = @ - 1]

\* list_del: the list without the one entry of a transfer.
Without(list, x) ==
  IF x \in Range(list) THEN RemoveAt(list, CHOOSE i \in DOMAIN list : list[i] = x) ELSE list

Flies(x) == x \in Range(flying)
Before(x, y) == \E i, j \in DOMAIN due : i < j /\ due[i] = x /\ due[j] = y

-----------------------------------------------------------------------------
(* Opening and unplugging. *)

AddPollfd(f) == Signal([data EXCEPT !.pollfds = @ \cup {f}, !.modified = TRUE])
RemovePollfd(f) ==
  IF f \in data.pollfds
  THEN Signal([data EXCEPT !.pollfds = @ \ {f}, !.modified = TRUE])
  ELSE UNCHANGED data

\* The device has left: it goes from the list of the context, and a message that
\* keeps the list's reference to it goes to whoever handles events.
DeviceLeaves ==
  /\ attached' = FALSE
  /\ IF attached THEN Signal([data EXCEPT !.msgs = @ + 1]) ELSE UNCHANGED data

\* libusb_open: the descriptor is polled before the handle is in the list.
Open(t) ==
  /\ At(t, "idle")
  /\ \/ attached /\ plugged /\ refs' = refs + 1 /\ AddPollfd(t) /\ Goto(t, "opened") /\ UNCHANGED attached
     \/ attached /\ ~plugged /\ DeviceLeaves /\ UNCHANGED <<refs, pc>>
     \/ ~attached /\ UNCHANGED <<attached, refs, data, pc>>
  /\ UNCHANGED <<plugged, lock, sleeping, flying, openDevs, time, xfer, loc>>

ListOpen(t) ==
  /\ At(t, "opened") /\ lock.open = Nobody
  /\ openDevs' = openDevs \cup {t}
  /\ Goto(t, "held")
  /\ UNCHANGED <<device, data, lock, sleeping, flying, time, xfer, loc>>

\* The kernel ends what is queued on the device.  (That the netlink thread may learn
\* of it first is in UsbDevices.)
Unplug ==
  /\ plugged
  /\ plugged' = FALSE
  /\ xfer' = [x \in Threads |-> IF xfer[x].urb = "queued" THEN [xfer[x] EXCEPT !.urb = "shutdown"] ELSE xfer[x]]
  /\ UNCHANGED <<attached, refs, data, lock, sleeping, flying, openDevs, time, pc, loc>>

-----------------------------------------------------------------------------
(* Submission: libusb_submit_transfer, under the lock of the transfer. *)


\* calculate_timeout: the timeout comes after those that are over.
Schedule(t) ==
  IF t \in Timed
  THEN \E i \in Cardinality(expired) + 1 .. Len(due) + 1 : due' = InsertAt(due, i, t)
  ELSE UNCHANGED due

\* Mutant: always at the end.
Place_Tail(x) == Len(flying) + 1

\* The list is in the order of the timeouts, transfers without one come last.
Place(x) ==
  LET later == {i \in DOMAIN flying : x \in Timed /\ (flying[i] \notin Timed \/ Before(x, flying[i]))}
  IN IF later = {} THEN Len(flying) + 1 ELSE Min(later)

\* It holds its own lock as it waits to be listed; nobody else asks for that yet.
Submit(t) ==
  /\ At(t, "held") /\ xfer[t].lock = Nobody /\ lock.flying = Nobody
  /\ xfer' = [xfer EXCEPT ![t] = [NoTransfer EXCEPT !.lock = t, !.flags = {"SUBMITTING"}]]
  /\ Schedule(t)
  /\ flying' = InsertAt(flying, Place(t), t)
  /\ Goto(t, "submit")
  /\ UNCHANGED <<device, data, lock, sleeping, openDevs, expired, loc>>

\* The backend hands the URB to the kernel.
BackendSubmit(t) ==
  /\ At(t, "submit")
  /\ refs' = refs + 1
  /\ xfer' = [xfer EXCEPT ![t] = IF plugged THEN [@ EXCEPT !.urb = "queued", !.urbs = TRUE]
                                 ELSE [@ EXCEPT !.status = "NO_DEVICE"]]
  /\ Goto(t, "submitted")
  /\ UNCHANGED <<plugged, attached, data, lock, sleeping, flying, openDevs, time, loc>>

\* Mutant: a submission that has failed keeps its reference.
Submitted_Kept(t) ==
  /\ At(t, "submitted")
  /\ LET flags == xfer[t].flags \ {"SUBMITTING"}
     IN IF xfer[t].status = "NO_DEVICE" \/ "DEVICE_DISAPPEARED" \in flags
        THEN /\ xfer' = [xfer EXCEPT ![t].flags = flags, ![t].urbs = FALSE, ![t].status = "NO_DEVICE"]
             /\ Goto(t, "unsubmit")
        ELSE /\ xfer' = [xfer EXCEPT ![t].lock = Nobody,
                           ![t].flags = IF "COMPLETED" \in flags THEN flags ELSE flags \cup {"IN_FLIGHT"}]
             /\ Goto(t, "wait")
  /\ UNCHANGED <<device, data, lock, sleeping, flying, openDevs, time, loc>>

\* It is in flight, unless the device has disappeared meanwhile.
Submitted(t) ==
  /\ At(t, "submitted")
  /\ LET x == xfer[t]
         flags == x.flags \ {"SUBMITTING"}
         lost == "DEVICE_DISAPPEARED" \in flags
     IN IF x.status = "NO_DEVICE" \/ lost
        THEN /\ xfer' = [xfer EXCEPT ![t].flags = flags, ![t].urbs = FALSE, ![t].status = "NO_DEVICE"]
             /\ refs' = refs - 1
             /\ Goto(t, "unsubmit")
        ELSE /\ xfer' = [xfer EXCEPT ![t].lock = Nobody,
                           ![t].flags = IF "COMPLETED" \in flags THEN flags ELSE flags \cup {"IN_FLIGHT"}]
             /\ Goto(t, "wait")
             /\ UNCHANGED refs
  /\ UNCHANGED <<plugged, attached, data, lock, sleeping, flying, openDevs, time, loc>>

\* A submission that has failed leaves the list while it holds its lock.
Unsubmit(t) ==
  /\ At(t, "unsubmit") /\ lock.flying = Nobody
  /\ flying' = Without(flying, t)
  /\ xfer' = [xfer EXCEPT ![t].lock = Nobody]
  /\ Goto(t, "return")
  /\ UNCHANGED <<device, data, lock, sleeping, openDevs, time, loc>>

\* libusb_control_transfer returns what the transfer has ended with and frees it.
Return(t) ==
  /\ At(t, "return") \/ (At(t, "wait") /\ xfer[t].completed)
  /\ due' = Without(due, t) /\ expired' = expired \ {t}
  /\ xfer' = [xfer EXCEPT ![t] = NoTransfer]
  /\ loc' = [loc EXCEPT ![t] = NoLocals]
  /\ Goto(t, "held")
  /\ UNCHANGED <<device, data, lock, sleeping, flying, openDevs>>

-----------------------------------------------------------------------------
(* The kernel and the clock. *)

EndUrb(x) ==
  /\ xfer[x].urb = "queued"
  /\ \E o \in Outcomes : xfer' = [xfer EXCEPT ![x].urb = o]
  /\ UNCHANGED <<device, data, lock, sleeping, flying, openDevs, time, pc, loc>>

Expire(x) ==
  /\ x \in Range(due) \ expired
  /\ \A y \in Range(due) : Before(y, x) => y \in expired
  /\ ~xfer[x].completed /\ ~At(x, "return")
  /\ ExpireDuringSubmit \/ pc[x] \notin Submitting
  /\ expired' = expired \cup {x}
  /\ UNCHANGED <<device, data, lock, sleeping, flying, openDevs, due, xfer, pc, loc>>

-----------------------------------------------------------------------------
(* sync_transfer_wait_for_completion: handle events until the callback has set *)
(* completed, which belongs to the caller and is read without a lock.          *)

\* libusb_get_next_timeout: the first transfer that has not timed out yet.
NextTimeout ==
  LET live == {i \in DOMAIN flying : "TIMED_OUT" \notin xfer[flying[i]].flags}
      first == flying[Min(live)]
  IN IF live = {} THEN "never" ELSE IF first \in Timed THEN first ELSE "never"

\* get_next_timeout: what is overdue is handled at once.
LookForTimeout(t) ==
  /\ At(t, "wait") /\ ~xfer[t].completed /\ lock.flying = Nobody
  /\ IF NextTimeout \in expired
     THEN Goto(t, "timeouts") /\ UNCHANGED loc
     ELSE Goto(t, "try") /\ loc' = [loc EXCEPT ![t].until = NextTimeout]
  /\ UNCHANGED <<device, data, lock, sleeping, flying, openDevs, time, xfer>>

\* Mutant: a close is not waited for.
TryLockEvents_Greedy(t) ==
  /\ At(t, "try")
  /\ Goto(t, "trylock")
  /\ UNCHANGED <<device, data, lock, sleeping, flying, openDevs, time, xfer, loc>>

\* libusb_try_lock_events: not while a device is being closed ...
TryLockEvents(t) ==
  /\ At(t, "try")
  /\ Goto(t, IF data.close > 0 THEN "waiters" ELSE "trylock")
  /\ UNCHANGED <<device, data, lock, sleeping, flying, openDevs, time, xfer, loc>>

\* ... and not when somebody has the lock.  (event_handler_active follows at once:
\* within a close the lock is held without it for longer.)
TryLock(t) ==
  /\ At(t, "trylock")
  /\ IF lock.events = Nobody
     THEN /\ lock' = [lock EXCEPT !.events = t, !.depth = 1, !.active = TRUE]
          /\ Goto(t, IF xfer[t].completed THEN "unlock" ELSE "rebuild")
     ELSE Goto(t, "waiters") /\ UNCHANGED lock
  /\ UNCHANGED <<device, data, sleeping, flying, openDevs, time, xfer, loc>>

\* libusb_lock_event_waiters; the transfer may be done by now.
LockWaiters(t) ==
  /\ At(t, "waiters") /\ lock.waiters = Nobody
  /\ IF xfer[t].completed
     THEN Goto(t, "wait") /\ loc' = [loc EXCEPT ![t] = NoLocals] /\ UNCHANGED lock
     ELSE Goto(t, "check") /\ lock' = [lock EXCEPT !.waiters = t] /\ UNCHANGED loc
  /\ UNCHANGED <<device, data, sleeping, flying, openDevs, time, xfer>>

\* libusb_event_handler_active: if somebody handles events, or closes a device,
\* wait, else try again.
CheckActive(t) ==
  /\ At(t, "check")
  /\ IF data.close > 0 \/ lock.active
     THEN Goto(t, "sleep") /\ UNCHANGED lock
     ELSE Goto(t, "try") /\ lock' = [lock EXCEPT !.waiters = Nobody]
  /\ UNCHANGED <<device, data, sleeping, flying, openDevs, time, xfer, loc>>

\* libusb_wait_for_event gives event_waiters_lock up as it begins to wait.
Sleep(t) ==
  /\ At(t, "sleep")
  /\ sleeping' = sleeping \cup {t}
  /\ lock' = [lock EXCEPT !.waiters = Nobody]
  /\ Goto(t, "asleep")
  /\ UNCHANGED <<device, data, flying, openDevs, time, xfer, loc>>

\* The wait ends by a broadcast, or at the next timeout.
TimeIsUp(t) ==
  \/ loc[t].until = "now"
  \/ loc[t].until \in Threads /\ (loc[t].until \in expired \/ ~Flies(loc[t].until))
Wake(t) ==
  /\ At(t, "asleep") /\ lock.waiters = Nobody
  /\ \/ t \notin sleeping /\ Goto(t, "wait")
     \/ t \in sleeping /\ TimeIsUp(t) /\ Goto(t, "timeouts")
  /\ sleeping' = sleeping \ {t} /\ loc' = [loc EXCEPT ![t] = NoLocals]
  /\ UNCHANGED <<device, data, lock, flying, openDevs, time, xfer>>

-----------------------------------------------------------------------------
(* handle_events, under the events lock. *)

\* Mutant: the byte of the change is left in the pipe.
Rebuild_ByteLeft(t) ==
  /\ At(t, "rebuild")
  /\ data' = [data EXCEPT !.modified = FALSE]
  /\ loc' = [loc EXCEPT ![t].fds = data.pollfds]
  /\ Goto(t, "poll")
  /\ UNCHANGED <<device, lock, sleeping, flying, openDevs, time, xfer>>

\* The descriptors to poll, anew if they have changed.
Rebuild(t) ==
  /\ At(t, "rebuild")
  /\ IF data.modified THEN Clear([data EXCEPT !.modified = FALSE]) ELSE UNCHANGED data
  /\ loc' = [loc EXCEPT ![t].fds = data.pollfds]
  /\ Goto(t, "poll")
  /\ UNCHANGED <<device, lock, sleeping, flying, openDevs, time, xfer>>

\* usbfs: a descriptor is writable when it has a URB to reap, in error when the
\* device is gone.
ReadyFds(fds) == IF plugged THEN {f \in fds : xfer[f].urb \in Reapable} ELSE fds

\* poll returns what is ready,
Poll(t) ==
  /\ At(t, "poll")
  /\ ReadyFds(loc[t].fds) # {} \/ data.pipe > 0
  /\ loc' = [loc EXCEPT ![t].ready = ReadyFds(loc[t].fds), ![t].gone = ~plugged, ![t].special = FALSE]
  /\ Goto(t, IF data.pipe > 0 THEN "pipe" ELSE "dispatch")
  /\ UNCHANGED <<device, data, lock, sleeping, flying, openDevs, time, xfer>>

\* or nothing when the time is up,
PollTimeout(t) ==
  /\ At(t, "poll")
  /\ ReadyFds(loc[t].fds) = {} /\ data.pipe = 0 /\ TimeIsUp(t)
  /\ Goto(t, "timeouts") /\ loc' = [loc EXCEPT ![t] = NoLocals]
  /\ UNCHANGED <<device, data, lock, sleeping, flying, openDevs, time, xfer>>

\* or fails: the caller cancels its transfer.  (Interrupted, it goes on as after the
\* time.)
PollFails(t) ==
  /\ At(t, "poll") /\ t \in Failing
  /\ loc' = [loc EXCEPT ![t] = [NoLocals EXCEPT !.failed = TRUE]]
  /\ Goto(t, "unlock")
  /\ UNCHANGED <<device, data, lock, sleeping, flying, openDevs, time, xfer>>

\* The event pipe: one hotplug message is taken, and its device let go.
Pipe(t) ==
  /\ At(t, "pipe")
  /\ Clear([data EXCEPT !.msgs = IF @ = 0 THEN 0 ELSE @ - 1])
  /\ refs' = IF data.msgs > 0 THEN refs - 1 ELSE refs
  /\ LET special == data.msgs > 0
         next == IF loc[t].ready # {} THEN "dispatch" ELSE IF special THEN "poll" ELSE "unlock"
         again == [loc[t] EXCEPT !.special = special, !.until = IF special THEN "now" ELSE @]
     IN /\ loc' = [loc EXCEPT ![t] = IF next = "unlock" THEN NoLocals ELSE again]
        /\ Goto(t, next)
  /\ UNCHANGED <<plugged, attached, lock, sleeping, flying, openDevs, time, xfer>>

\* op_handle_events: open_devs_lock is held while the descriptors are served.
Dispatch(t) ==
  /\ At(t, "dispatch") /\ lock.open = Nobody
  /\ lock' = [lock EXCEPT !.open = t]
  /\ Goto(t, "handles")
  /\ UNCHANGED <<device, data, sleeping, flying, openDevs, time, xfer, loc>>

\* One after the other: a handle that is not listed yet is passed over.
NextHandle(t) ==
  /\ At(t, "handles") /\ loc[t].ready # {}
  /\ \E f \in loc[t].ready :
       /\ loc' = [loc EXCEPT ![t].ready = @ \ {f}, ![t].cur = f]
       /\ IF f \notin openDevs THEN UNCHANGED <<data, pc>>
          ELSE IF loc[t].gone THEN RemovePollfd(f) /\ Goto(t, "scan")
          ELSE UNCHANGED data /\ Goto(t, "reap")
  /\ UNCHANGED <<device, lock, sleeping, flying, openDevs, time, xfer>>

\* After a hotplug message it polls once more, without waiting.
HandlesServed(t) ==
  /\ At(t, "handles") /\ loc[t].ready = {}
  /\ lock' = [lock EXCEPT !.open = Nobody]
  /\ IF loc[t].special
     THEN /\ Goto(t, "poll")
          /\ loc' = [loc EXCEPT ![t] = [NoLocals EXCEPT !.fds = loc[t].fds, !.until = "now"]]
     ELSE Goto(t, "unlock") /\ loc' = [loc EXCEPT ![t] = NoLocals]
  /\ UNCHANGED <<device, data, sleeping, flying, openDevs, time, xfer>>

-----------------------------------------------------------------------------
(* Completion: reap_for_handle, handle_control_completion and                  *)
(* usbi_handle_transfer_completion.                                            *)

\* A URB is taken from the kernel ...
Reap(t) ==
  /\ At(t, "reap") /\ xfer[loc[t].cur].urb \in Reapable
  /\ Goto(t, "retire")
  /\ UNCHANGED <<device, data, lock, sleeping, flying, openDevs, time, xfer, loc>>

\* ... until there is no more, or no device: then the next handle.
ReapedAll(t) ==
  /\ At(t, "reap") /\ (xfer[loc[t].cur].urb \notin Reapable \/ ~plugged)
  /\ Goto(t, "handles")
  /\ UNCHANGED <<device, data, lock, sleeping, flying, openDevs, time, xfer, loc>>

UrbStatus(urb) == CASE urb = "killed" -> "CANCELLED" [] urb = "shutdown" -> "NO_DEVICE" [] OTHER -> urb

Retire(t) ==
  /\ At(t, "retire")
  /\ LET x == loc[t].cur
     IN /\ xfer[x].lock = Nobody
        /\ xfer' = [xfer EXCEPT ![x].urb = None, ![x].urbs = FALSE]
        /\ loc' = [loc EXCEPT ![t].why = UrbStatus(xfer[x].urb)]
        /\ Goto(t, IF xfer[x].cancelled THEN "reason" ELSE "complete")
  /\ UNCHANGED <<device, data, lock, sleeping, flying, openDevs, time>>

\* Mutant: every cancellation is a timeout.
Reason_Timeout(t) ==
  /\ At(t, "reason")
  /\ loc' = [loc EXCEPT ![t].why = "TIMED_OUT"]
  /\ Goto(t, "complete")
  /\ UNCHANGED <<device, data, lock, sleeping, flying, openDevs, time, xfer>>

\* usbi_handle_transfer_cancellation
Reason(t) ==
  /\ At(t, "reason")
  /\ loc' = [loc EXCEPT ![t].why = IF "TIMED_OUT" \in xfer[loc[t].cur].flags THEN "TIMED_OUT" ELSE "CANCELLED"]
  /\ Goto(t, "complete")
  /\ UNCHANGED <<device, data, lock, sleeping, flying, openDevs, time, xfer>>

\* Off the list; the status is set and the callback made, and from here on the
\* caller may go on.
Complete(t) ==
  /\ At(t, "complete") /\ lock.flying = Nobody
  /\ LET x == loc[t].cur
     IN /\ flying' = Without(flying, x)
        /\ xfer' = [xfer EXCEPT ![x].flags = (@ \ {"IN_FLIGHT"}) \cup {"COMPLETED"},
                                ![x].status = loc[t].why, ![x].completed = TRUE]
  /\ refs' = refs - 1
  /\ loc' = [loc EXCEPT ![t].why = None]
  /\ Goto(t, IF loc[t].gone THEN "scan" ELSE "reap")
  /\ UNCHANGED <<plugged, attached, data, lock, sleeping, openDevs, time>>

\* usbi_handle_disconnect: what is in flight on the handle ends here, what is
\* being submitted is marked ...
Scan(t) ==
  /\ At(t, "scan") /\ lock.flying = Nobody
  /\ LET x == loc[t].cur
     IN IF ~Flies(x) THEN Goto(t, "detach") /\ UNCHANGED xfer
        ELSE IF "IN_FLIGHT" \in xfer[x].flags THEN Goto(t, "clear") /\ UNCHANGED xfer
        ELSE Goto(t, "detach") /\ xfer' = [xfer EXCEPT ![x].flags = @ \cup {"DEVICE_DISAPPEARED"}]
  /\ UNCHANGED <<device, data, lock, sleeping, flying, openDevs, time, loc>>

ClearPriv(t) ==
  /\ At(t, "clear")
  /\ LET x == loc[t].cur
     IN xfer[x].lock = Nobody /\ xfer' = [xfer EXCEPT ![x].urb = None, ![x].urbs = FALSE]
  /\ loc' = [loc EXCEPT ![t].why = "NO_DEVICE"]
  /\ Goto(t, "complete")
  /\ UNCHANGED <<device, data, lock, sleeping, flying, openDevs, time>>

\* ... and the device is reported to have left.
Detach(t) ==
  /\ At(t, "detach")
  /\ DeviceLeaves
  /\ Goto(t, "handles")
  /\ UNCHANGED <<plugged, refs, lock, sleeping, flying, openDevs, time, xfer, loc>>

-----------------------------------------------------------------------------
(* handle_timeouts, under flying_transfers_lock: what is overdue is cancelled. *)

LockFlying(t) ==
  /\ At(t, "timeouts") /\ lock.flying = Nobody
  /\ lock' = [lock EXCEPT !.flying = t]
  /\ loc' = [loc EXCEPT ![t].at = 1]
  /\ Goto(t, "next")
  /\ UNCHANGED <<device, data, sleeping, flying, openDevs, time, xfer>>

\* The list is read up to the first transfer that is not due; those that have
\* timed out before are passed over.
NextFlying(t) ==
  /\ At(t, "next")
  /\ LET i == loc[t].at
         x == flying[i]
     IN IF i > Len(flying) \/ x \notin Timed \/ ("TIMED_OUT" \notin xfer[x].flags /\ x \notin expired)
        THEN /\ lock' = [lock EXCEPT !.flying = Nobody]
             /\ loc' = [loc EXCEPT ![t].at = 0, ![t].seen = {}]
             /\ Goto(t, IF lock.events = t THEN "unlock" ELSE "wait")
        ELSE /\ UNCHANGED lock
             /\ IF "TIMED_OUT" \in xfer[x].flags
                THEN loc' = [loc EXCEPT ![t].at = @ + 1] /\ UNCHANGED pc
                ELSE loc' = [loc EXCEPT ![t].seen = xfer[x].flags] /\ Goto(t, "mark")
  /\ UNCHANGED <<device, data, sleeping, flying, openDevs, time, xfer>>

\* handle_timeout marks it without flags_lock: what others have made of the flags
\* since they were read is lost.
Mark(t) ==
  /\ At(t, "mark")
  /\ xfer' = [xfer EXCEPT ![flying[loc[t].at]].flags = loc[t].seen \cup {"TIMED_OUT"}]
  /\ Goto(t, "cancel")
  /\ UNCHANGED <<device, data, lock, sleeping, flying, openDevs, time, loc>>

\* op_cancel_transfer: its completion will say cancelled, even when the URB has
\* ended and is not there to be discarded; nothing can be discarded without the
\* device.
Discarded(x) ==
  [xfer[x] EXCEPT !.cancelled = TRUE,
                  !.urb = IF @ = "queued" THEN "killed" ELSE @,
                  !.flags = @ \cup {"CANCELLING"} \cup IF xfer[x].urbs /\ ~plugged THEN {"DEVICE_DISAPPEARED"} ELSE {}]

\* Mutant: the transfer is marked and not cancelled.
CancelTransfer_Nothing(x) == xfer[x].lock = Nobody /\ UNCHANGED xfer

\* libusb_cancel_transfer
CancelTransfer(x) ==
  /\ xfer[x].lock = Nobody
  /\ IF "IN_FLIGHT" \in xfer[x].flags /\ "CANCELLING" \notin xfer[x].flags
     THEN xfer' = [xfer EXCEPT ![x] = Discarded(x)]
     ELSE UNCHANGED xfer

CancelOverdue(t) ==
  /\ At(t, "cancel")
  /\ CancelTransfer(flying[loc[t].at])
  /\ loc' = [loc EXCEPT ![t].at = @ + 1]
  /\ Goto(t, "next")
  /\ UNCHANGED <<device, data, lock, sleeping, flying, openDevs, time>>

\* The caller whose poll has failed cancels its transfer and goes on waiting.
CancelAndRetry(t) ==
  /\ At(t, "failed")
  /\ CancelTransfer(t)
  /\ loc' = [loc EXCEPT ![t].failed = FALSE]
  /\ Goto(t, "wait")
  /\ UNCHANGED <<device, data, lock, sleeping, flying, openDevs, time>>

-----------------------------------------------------------------------------
(* libusb_unlock_events. *)

ReleaseEvents(t) ==
  /\ At(t, "unlock") \/ At(t, "closeunlock")
  /\ lock' = [lock EXCEPT !.active = FALSE, !.depth = 0, !.events = Nobody]
  /\ Goto(t, IF At(t, "unlock") THEN "broadcast" ELSE "closecast")
  /\ UNCHANGED <<device, data, sleeping, flying, openDevs, time, xfer, loc>>

\* The thread goes on with its wait, its close or its way.
AfterUnlock(t) ==
  /\ Goto(t, CASE At(t, "broadcast") -> IF loc[t].failed THEN "failed" ELSE "wait"
               [] At(t, "innercast") -> "closefd"
               [] OTHER -> "idle")
  /\ loc' = [loc EXCEPT ![t] = [NoLocals EXCEPT !.failed = loc[t].failed]]

\* Mutant: the waiters are not locked out.
Broadcast_Unlocked(t) ==
  /\ At(t, "broadcast") \/ At(t, "innercast") \/ At(t, "closecast")
  /\ sleeping' = {}
  /\ AfterUnlock(t)
  /\ UNCHANGED <<device, data, lock, flying, openDevs, time, xfer>>

\* All waiters are woken.
Broadcast(t) ==
  /\ At(t, "broadcast") \/ At(t, "innercast") \/ At(t, "closecast")
  /\ lock.waiters = Nobody
  /\ sleeping' = {}
  /\ AfterUnlock(t)
  /\ UNCHANGED <<device, data, lock, flying, openDevs, time, xfer>>

-----------------------------------------------------------------------------
(* libusb_close and do_close. *)

\* It interrupts the event handlers ...
Close(t) ==
  /\ At(t, "held") /\ t \in Closers
  /\ Signal([data EXCEPT !.close = @ + 1])
  /\ Goto(t, "lockevents")
  /\ UNCHANGED <<device, lock, sleeping, flying, openDevs, time, xfer, loc>>

\* Mutant: it does not wait for them.
LockEvents_NoWait(t) ==
  /\ At(t, "lockevents")
  /\ lock' = IF lock.events = Nobody THEN [lock EXCEPT !.events = t, !.depth = 2, !.active = TRUE] ELSE lock
  /\ Goto(t, "sweep")
  /\ UNCHANGED <<device, data, sleeping, flying, openDevs, time, xfer, loc>>

\* ... and takes their lock, do_close once more.
LockEvents(t) ==
  /\ At(t, "lockevents") /\ lock.events = Nobody
  /\ lock' = [lock EXCEPT !.events = t, !.depth = 2, !.active = TRUE]
  /\ Goto(t, "sweep")
  /\ UNCHANGED <<device, data, sleeping, flying, openDevs, time, xfer, loc>>

\* The transfers of the handle are taken from the list, and do_close's lock is
\* released: nobody is said to handle events although the lock is held.
Sweep(t) ==
  /\ At(t, "sweep") /\ lock.flying = Nobody /\ xfer[t].lock = Nobody
  /\ flying' = Without(flying, t)
  /\ lock' = [lock EXCEPT !.active = FALSE, !.depth = 1]
  /\ Goto(t, "innercast")
  /\ UNCHANGED <<device, data, sleeping, openDevs, time, xfer, loc>>

\* Off the list of open handles; op_close: the kernel forgets the URBs of the
\* descriptor.
DoClose(t) ==
  /\ At(t, "closefd") /\ lock.open = Nobody
  /\ openDevs' = openDevs \ {t}
  /\ RemovePollfd(t)
  /\ refs' = refs - 1
  /\ xfer' = [xfer EXCEPT ![t] = NoTransfer]
  /\ Goto(t, "closed")
  /\ UNCHANGED <<plugged, attached, lock, sleeping, flying, time, loc>>

Closed(t) ==
  /\ At(t, "closed")
  /\ Clear([data EXCEPT !.close = @ - 1])
  /\ Goto(t, "closeunlock")
  /\ UNCHANGED <<device, lock, sleeping, flying, openDevs, time, xfer, loc>>

-----------------------------------------------------------------------------
\* The steps of a thread inside a call, other than to get the events lock for a close.
Proceed(t) ==
  \/ ListOpen(t)
  \/ BackendSubmit(t) \/ Submitted(t) \/ Unsubmit(t) \/ Return(t)
  \/ LookForTimeout(t) \/ TryLockEvents(t) \/ TryLock(t)
  \/ LockWaiters(t) \/ CheckActive(t) \/ Sleep(t) \/ Wake(t)
  \/ Rebuild(t) \/ Poll(t) \/ PollTimeout(t) \/ Pipe(t)
  \/ Dispatch(t) \/ NextHandle(t) \/ HandlesServed(t)
  \/ Reap(t) \/ ReapedAll(t) \/ Retire(t) \/ Reason(t) \/ Complete(t)
  \/ Scan(t) \/ ClearPriv(t) \/ Detach(t)
  \/ LockFlying(t) \/ NextFlying(t) \/ Mark(t) \/ CancelOverdue(t) \/ CancelAndRetry(t)
  \/ ReleaseEvents(t) \/ Broadcast(t)
  \/ Sweep(t) \/ DoClose(t) \/ Closed(t)

Next ==
  \/ \E t \in Threads :
       \/ Open(t) \/ Submit(t) \/ Close(t) \/ Proceed(t) \/ LockEvents(t) \/ PollFails(t)
       \/ EndUrb(t) \/ Expire(t)
  \/ Unplug

Spec == Init /\ [][Next]_vars

\* The scheduler runs every thread; a lock that is held for moments comes to each that
\* waits for it, which is not assumed of the events lock; time passes, and the device
\* answers the transfers that have no timeout, though not always before the handler
\* of the last one has looked for more; poll does not fail for ever, and usbGetDevices
\* opens each device once.  Nothing is assumed of plugs, nor of the device where there
\* is a timeout.
FairSpec ==
  /\ Spec
  /\ \A t \in Threads : SF_vars(Proceed(t)) /\ SF_vars(ReapedAll(t)) /\ WF_vars(LockEvents(t)) /\ WF_vars(Expire(t))
  /\ \A t \in Threads \ Timed : WF_vars(EndUrb(t))
  /\ <>[][\A t \in Threads : ~Open(t) /\ ~PollFails(t)]_vars

-----------------------------------------------------------------------------
OpenPlaces == Places \ {"idle", "closed", "closeunlock", "closecast"}
Serving == Handling \ {"rebuild", "unlock", "broadcast"}

\* There is a byte in the event pipe exactly when there is a reason for events
\* (libusbi.h:317-320, at every place of io.c and core.c that signals or clears):
\* a handler is neither missed nor left waiting in the read of an empty pipe.
SignalledIffPending == data.pipe = IF Pending(data) THEN 1 ELSE 0

\* While a thread handles events, none of the descriptors it polls is closed, and
\* so none stands for a file that has been opened since (core.c:1393-1397).
HandlerPollsOpenFds ==
  \A t \in Threads : pc[t] \in Serving => \A f \in loc[t].fds : pc[f] \in OpenPlaces

\* A handler that has found the event pipe ready finds a byte in it: what is
\* pending is not taken care of by another in between (io.c:2109-2135).
ReadsNoEmptyPipe == \A t \in Threads : At(t, "pipe") => data.pipe > 0

\* What wakes the thread that handles events, and what it looks at, is as it should be.
PipeAndPollAreTrue == SignalledIffPending /\ ReadsNoEmptyPipe /\ HandlerPollsOpenFds

\* The references to the device are those of the list of usb.c, of the context or
\* of the message that takes it away, of the open handles and of the transfers
\* that have been submitted and whose end is not complete.
HeldByContext == IF attached \/ data.msgs > 0 THEN 1 ELSE 0
OpenHandles == {t \in Threads : pc[t] \in OpenPlaces}
InUse == {x \in Threads : Flies(x) /\ pc[x] \notin {"submit", "unsubmit"}}
RefsMatchHolders == refs = 1 + HeldByContext + Cardinality(OpenHandles) + Cardinality(InUse)

\* A transfer that the kernel has, and whose submission has returned, is marked as
\* in flight: "this lock should be held whenever viewing or modifying flags"
\* (libusbi.h:412-413).
MarkedInFlight ==
  \A x \in Threads : xfer[x].urb = "queued" /\ pc[x] \notin Submitting => "IN_FLIGHT" \in xfer[x].flags

Phase(t) ==
  IF xfer[t].completed \/ At(t, "return") THEN "ended"
  ELSE IF pc[t] \in Submitting \cup Waiting \cup Handling \cup TimingOut THEN "pending" ELSE "none"
Calls == INSTANCE UsbCalls WITH
  phase <- [t \in Threads |-> Phase(t)],
  status <- [t \in Threads |-> IF Phase(t) = "pending" THEN None ELSE xfer[t].status]

\* Each call hands its transfer over once, gets one end of it and that end's
\* status, whichever thread has handled the events (io.c:1617-1658, sync.c:91-157).
ImplementsCalls == Calls!Spec

\* Every transfer ends, and every close: nobody waits for a wake-up that has come
\* already, and a close is not kept out by those who handle events
\* (io.c:1713-1735, 1770-1782, 2266-2317, core.c:1384-1427).
EveryCallReturns ==
  \A t \in Threads : pc[t] \notin {"idle", "held"} ~> pc[t] \in {"idle", "held"}
=============================================================================
