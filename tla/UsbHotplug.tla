------------------------------ MODULE UsbHotplug ------------------------------
(***************************************************************************)
(* The hotplug callbacks of a context of libusb (hotplug.c), while devices *)
(* come and go (core.c) and one thread handles events (io.c).              *)
(*                                                                         *)
(* A callback is registered and deregistered by the thread that handles    *)
(* events, between two events or from within a callback, or by a thread of *)
(* its own.  What happens under hotplug_cbs_lock, usb_devs_lock or         *)
(* event_data_lock is a step.  A callback that is on the list is freed     *)
(* only by the walk over the list.                                         *)
(* External: the bus, the calls of the application, what callbacks return. *)
(***************************************************************************)
EXTENDS Integers, SequencesExt, FiniteSetsExt

CONSTANTS Devices,
          Callbacks,  \* calls of libusb_hotplug_register_callback
          Inside,     \* those made by the thread that handles events
          Wanted,     \* Wanted[k]: the devices whose ids match those of k
          Events,     \* Events[k]: the events of k
          Enumerate,  \* those with LIBUSB_HOTPLUG_ENUMERATE
          Finishing,  \* those that may return 1 to the handler of events
          NoMemory,   \* those whose calls may find no memory: for the devices, for the message
          Hasty       \* a callback may return 1 before its registration has returned

None == 0

ASSUME UsbHotplugAssumption ==
  /\ None \notin Callbacks
  /\ Inside \subseteq Callbacks /\ Enumerate \subseteq Callbacks
  /\ Wanted \in [Callbacks -> SUBSET Devices]
  /\ Events \in [Callbacks -> SUBSET {"arrived", "left"}]
  /\ Hasty \in BOOLEAN

VARIABLES
  life,         \* per device: out, listed (in usb_devs), in, unlisted, gone
  hotplug_msgs,
  hotplug_cbs,
  record,       \* per callback, the struct: none, live, needs_free, freed
  pc, devs,     \* per callback: where its calls are; devices still to be told of
  handler,      \* the walk of usbi_hotplug_match: where it is, message, hotplug_cb, next, ret
  told          \* history: what each callback was last told of each device

vars == <<life, hotplug_msgs, hotplug_cbs, record, pc, devs, handler, told>>

Idle == [at |-> "idle", message |-> None, cb |-> None, next |-> None, ret |-> 0]

Init ==
  /\ life \in [Devices -> {"out", "in"}]
  /\ hotplug_msgs = << >> /\ hotplug_cbs = << >>
  /\ record = [k \in Callbacks |-> "none"]
  /\ pc = [k \in Callbacks |-> "start"] /\ devs = [k \in Callbacks |-> {}]
  /\ handler = Idle
  /\ told = [k \in Callbacks |-> [d \in Devices |-> "nothing"]]

\* Where k is in the list, and the list without it.
Place(k) == CHOOSE i \in DOMAIN hotplug_cbs : hotplug_cbs[i] = k
Without(k) == RemoveAt(hotplug_cbs, Place(k))

Message(event, device) == [event |-> event, device |-> device]
usb_devs == {d \in Devices : life[d] \in {"listed", "in"}}
Ended == handler.at = "exited"

-----------------------------------------------------------------------------
(* usbi_connect_device and usbi_disconnect_device, in the backend's thread. *)

Moves(d, from, to) == ~Ended /\ life[d] = from /\ life' = [life EXCEPT ![d] = to]
Others == <<hotplug_cbs, record, pc, devs, handler, told>>

Connect(d) == Moves(d, "out", "listed") /\ UNCHANGED <<hotplug_msgs, Others>>
Arrived(d) ==
  /\ Moves(d, "listed", "in")
  /\ hotplug_msgs' = Append(hotplug_msgs, Message("arrived", d))
  /\ UNCHANGED Others

Disconnect(d) == Moves(d, "in", "unlisted") /\ UNCHANGED <<hotplug_msgs, Others>>

\* Mutant: the message goes to the front of the list.
Left_First(d) ==
  /\ Moves(d, "unlisted", "gone")
  /\ hotplug_msgs' = <<Message("left", d)>> \o hotplug_msgs
  /\ UNCHANGED Others

Left(d) ==
  /\ Moves(d, "unlisted", "gone")
  /\ hotplug_msgs' = Append(hotplug_msgs, Message("left", d))
  /\ UNCHANGED Others

-----------------------------------------------------------------------------
(* What the calls of an application need: usbi_hotplug_match_cb up to the    *)
(* call, and the thread.                                                     *)

Matches(k, event, d) == record[k] # "needs_free" /\ event \in Events[k] /\ d \in Wanted[k]

Tell(k, event, d) == [told EXCEPT ![k][d] = IF Matches(k, event, d) THEN event ELSE @]

\* The thread that handles events does one thing at a time.
Nested == {k \in Inside : pc[k] \in {"list", "enumerate", "marked"}}
MayCall(k) == k \in Inside => handler.at \in {"idle", "calling"} /\ Nested \subseteq {k}
MayHandle == Nested = {}
Goto(k, where) == pc' = [pc EXCEPT ![k] = where]

\* A record is put at the head of the list.
Register(k) ==
  /\ ~Ended /\ pc[k] = "start" /\ MayCall(k)
  /\ record' = [record EXCEPT ![k] = "live"]
  /\ hotplug_cbs' = Cons(k, hotplug_cbs)
  /\ Goto(k, IF k \in Enumerate THEN "list" ELSE "registered")
  /\ UNCHANGED <<life, hotplug_msgs, devs, handler, told>>

\* The devices of the moment, or no memory for them.
GetDeviceList(k) ==
  /\ pc[k] = "list"
  /\ devs' = [devs EXCEPT ![k] = usb_devs] /\ Goto(k, "enumerate")
  /\ UNCHANGED <<life, hotplug_msgs, hotplug_cbs, record, handler, told>>

\* Mutant: a record that is deregistered is freed there and then.
Deregister_AtOnce(k) ==
  /\ record' = [record EXCEPT ![k] = "freed"]
  /\ hotplug_cbs' = Without(k)
  /\ Goto(k, "marked")
  /\ UNCHANGED <<life, hotplug_msgs, devs, handler, told>>

\* The first half of libusb_hotplug_deregister_callback: the record is marked.
Deregister(k) ==
  /\ record' = [record EXCEPT ![k] = IF k \in ToSet(hotplug_cbs) THEN "needs_free" ELSE @]
  /\ Goto(k, "marked")
  /\ UNCHANGED <<life, hotplug_msgs, hotplug_cbs, devs, handler, told>>

ListFails(k) == pc[k] = "list" /\ k \in NoMemory /\ Deregister(k)

\* What the callback returns is not looked at.
TellOfPresent(k) ==
  /\ pc[k] = "enumerate"
  /\ \E d \in devs[k] :
       /\ devs' = [devs EXCEPT ![k] = @ \ {d}]
       /\ told' = Tell(k, "arrived", d)
  /\ UNCHANGED <<life, hotplug_msgs, hotplug_cbs, record, pc, handler>>

Registered(k) ==
  /\ pc[k] = "enumerate" /\ devs[k] = {}
  /\ Goto(k, "registered")
  /\ UNCHANGED <<life, hotplug_msgs, hotplug_cbs, record, devs, handler, told>>

\* A call of libusb_hotplug_deregister_callback, with the handle that was returned.
CallDeregister(k) == ~Ended /\ pc[k] = "registered" /\ MayCall(k) /\ Deregister(k)

\* Mutant: nobody is told.
Notify_Nobody(k) ==
  /\ pc[k] = "marked" /\ Goto(k, "done")
  /\ UNCHANGED <<life, hotplug_msgs, hotplug_cbs, record, devs, handler, told>>

\* The second half: a message about no device, so that the list is walked; without
\* memory for it nobody is told.
Notify(k) ==
  /\ pc[k] = "marked"
  /\ \/ Goto(k, "done") /\ hotplug_msgs' = Append(hotplug_msgs, Message("none", None))
     \/ k \in NoMemory /\ Goto(k, "mute") /\ UNCHANGED hotplug_msgs
  /\ UNCHANGED <<life, hotplug_cbs, record, devs, handler, told>>

-----------------------------------------------------------------------------
(* The thread that handles events: handle_events takes a message off,        *)
(* usbi_hotplug_match walks the list with it.                                *)

TakeMessage ==
  /\ MayHandle /\ handler.at = "idle" /\ hotplug_msgs # << >>
  /\ handler' = [Idle EXCEPT !.at = "taken", !.message = Head(hotplug_msgs)]
  /\ hotplug_msgs' = Tail(hotplug_msgs)
  /\ UNCHANGED <<life, hotplug_cbs, record, pc, devs, told>>

\* The successor of k, or the head of the list; that of the head is the first.
NextOf(k) ==
  LET i == IF k = None THEN 0 ELSE Place(k)
  IN IF i = Len(hotplug_cbs) THEN None ELSE hotplug_cbs[i + 1]

\* hotplug_cb is k now; the walk ends at the head.
Visit(k) ==
  IF k = None
  THEN handler' = Idle
  ELSE handler' = [handler EXCEPT !.at = "visiting", !.cb = k, !.next = NextOf(k)]

BeginWalk ==
  /\ handler.at = "taken" /\ Visit(NextOf(None))
  /\ UNCHANGED <<life, hotplug_msgs, hotplug_cbs, record, pc, devs, told>>

\* usbi_hotplug_match_cb, with no lock held: the callback is called, ...
Match ==
  LET k == handler.cb
      m == handler.message
  IN
  /\ handler.at = "visiting"
  /\ IF Matches(k, m.event, m.device)
     THEN handler' = [handler EXCEPT !.at = "calling"] /\ told' = Tell(k, m.event, m.device)
     ELSE /\ handler' = [handler EXCEPT !.at = "matched", !.ret = IF record[k] = "needs_free" THEN 1 ELSE 0]
          /\ UNCHANGED told
  /\ UNCHANGED <<life, hotplug_msgs, hotplug_cbs, record, pc, devs>>

\* ... and returns.
Return ==
  /\ handler.at = "calling" /\ MayHandle
  /\ \E ret \in {0, 1} :
       /\ ret = 1 => handler.cb \in Finishing /\ (pc[handler.cb] \in {"list", "enumerate"} => Hasty)
       /\ handler' = [handler EXCEPT !.at = "matched", !.ret = ret]
  /\ UNCHANGED <<life, hotplug_msgs, hotplug_cbs, record, pc, devs, told>>

\* Mutant: the record is freed and stays in the list.
Step_Dangling ==
  LET k == handler.cb IN
  /\ handler.at = "matched"
  /\ IF handler.ret = 1 THEN record' = [record EXCEPT ![k] = "freed"] ELSE UNCHANGED record
  /\ Visit(handler.next)
  /\ UNCHANGED <<life, hotplug_msgs, hotplug_cbs, pc, devs, told>>

\* Under the lock again: the record is freed, and the walk goes on to the one
\* that followed it when it was reached.
Step ==
  LET k == handler.cb IN
  /\ handler.at = "matched"
  /\ IF handler.ret = 1
     THEN /\ hotplug_cbs' = Without(k)
          /\ record' = [record EXCEPT ![k] = "freed"]
     ELSE UNCHANGED <<hotplug_cbs, record>>
  /\ Visit(handler.next)
  /\ UNCHANGED <<life, hotplug_msgs, pc, devs, told>>

\* libusb_exit, when no other call is running: usbi_hotplug_deregister_all, and
\* the messages that are left are taken with nobody to be told.
Exit ==
  /\ handler.at = "idle" /\ \A k \in Callbacks : pc[k] \in {"start", "registered", "done", "mute"}
  /\ record' = [k \in Callbacks |-> IF k \in ToSet(hotplug_cbs) THEN "freed" ELSE record[k]]
  /\ hotplug_cbs' = << >> /\ hotplug_msgs' = << >>
  /\ handler' = [Idle EXCEPT !.at = "exited"]
  /\ UNCHANGED <<life, pc, devs, told>>

-----------------------------------------------------------------------------
Bus == \E d \in Devices : Connect(d) \/ Arrived(d) \/ Disconnect(d) \/ Left(d)
Handle == TakeMessage \/ BeginWalk \/ Match \/ Return \/ Step
\* The rest of a call that has begun.
Proceed(k) == GetDeviceList(k) \/ ListFails(k) \/ TellOfPresent(k) \/ Registered(k) \/ Notify(k)

Next ==
  \/ Bus \/ Handle \/ Exit
  \/ \E k \in Callbacks : Register(k) \/ CallDeregister(k) \/ Proceed(k)

\* The threads go on with what they have begun, and events are handled.
Fairness == WF_vars(Handle \/ \E k \in Callbacks : Proceed(k))
Spec == Init /\ [][Next]_vars /\ Fairness

-----------------------------------------------------------------------------
Messages == [event : {"arrived", "left"}, device : Devices] \cup {Message("none", None)}
Walk ==
  [at : {"idle", "taken", "visiting", "calling", "matched", "exited"}, message : Messages \cup {None},
   cb : Callbacks \cup {None}, next : Callbacks \cup {None}, ret : {0, 1}]
TypeOK ==
  /\ life \in [Devices -> {"out", "listed", "in", "unlisted", "gone"}]
  /\ hotplug_cbs \in Seq(Callbacks) /\ IsInjective(hotplug_cbs)
  /\ record \in [Callbacks -> {"none", "live", "needs_free", "freed"}]
  /\ pc \in [Callbacks -> {"start", "list", "enumerate", "registered", "marked", "done", "mute"}]
  /\ devs \in [Callbacks -> SUBSET Devices]
  /\ hotplug_msgs \in Seq(Messages)
  /\ handler \in Walk
  /\ told \in [Callbacks -> [Devices -> {"nothing", "arrived", "left"}]]

\* The records the threads are about to look at.
Reached ==
  {k \in Callbacks : pc[k] \in {"list", "enumerate"}}
  \cup (IF handler.at \in {"idle", "taken", "exited"} THEN {} ELSE {handler.cb, handler.next} \ {None})
  \cup ToSet(hotplug_cbs)

\* No record is looked at after it has been freed: not by the walk, which has
\* no lock while a callback runs, not by a registration that still calls its
\* callback, not by the next walk (hotplug.c:172-202).
NoUseAfterFree == \A k \in Reached : record[k] # "freed"

\* Registrations by the thread that handles events, and only those: elsewhere
\* the device may leave, and the callback be told so, between the listing and
\* the call for it.
\* When nothing is under way, a callback that was registered with the flag has
\* last heard of each device what is so: it is not told of the arrival of a
\* device after it was told that it left (libusb.h:1918-1931).
ToldIsTrue ==
  handler.at = "idle" /\ hotplug_msgs = << >> =>
    \A k \in Inside \cap Enumerate, d \in Devices :
      pc[k] = "registered" /\ record[k] = "live" /\ Events[k] = {"arrived", "left"} /\ d \in Wanted[k] =>
        /\ life[d] = "in" => told[k][d] = "arrived"
        /\ life[d] \in {"out", "gone"} => told[k][d] # "arrived"

\* A callback is called while it is registered, and told what is so.
CallbacksAreToldTheTruth == NoUseAfterFree /\ ToldIsTrue

\* A record that was marked is freed in the end, whether or not anything is
\* ever plugged in again, unless there was no memory for the message: then it
\* waits for the next one (hotplug.c:206-229, 301-330).
Waits(k) == record[k] = "needs_free" /\ pc[k] # "mute"
MarkedAreFreed == \A k \in Callbacks : Waits(k) ~> ~Waits(k)
=============================================================================
