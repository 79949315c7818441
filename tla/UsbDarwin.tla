-------------------------------- MODULE UsbDarwin --------------------------------
(***************************************************************************)
(* The handles of a device and their transfers on Darwin (darwin_usb.c):   *)
(* the device is opened by the first handle and counted, each claimed      *)
(* interface is an object of I/O Kit with a table of its endpoints and a   *)
(* source of events in the run loop of the library's thread; a transfer is *)
(* answered by a callback in that thread, and reported by the thread that  *)
(* handles events.                                                         *)
(*                                                                         *)
(* Each handle is used by one thread, and a call is a step: the calls of   *)
(* two handles meet in the kernel only.  The application has its own       *)
(* transfers finished before it makes a call that releases interfaces.     *)
(* Data, isochronous frames and the zero packet are abstracted.  Left out, *)
(* by guards that the README names: the reclaiming that never ends         *)
(* (Endless).                                                              *)
(* External: I/O Kit, the run loop, which serves a source that is in it.   *)
(***************************************************************************)
EXTENDS Integers, FiniteSetsExt

CONSTANTS Handles,
          Configs,      \* values of configurations
          InterfacesOf, \* InterfacesOf[c]: interfaces of configuration c
          Endpoints,    \* Endpoints[i][a]: endpoints of interface i in setting a
          Transfers,    \* records: handle, endpoint (0: that of control), type
          Failures,     \* "open", "async", "set", "endpoints", "altsetting", "reset"
          MaxSources    \* bound: sources of the device in the run loop

None == "none"
Interfaces == UNION {InterfacesOf[c] : c \in Configs}
Settings == {0, 1}

UsbDarwinAssumption ==
  /\ Configs \subseteq Nat \ {0} /\ MaxSources \in Nat
  /\ Endpoints \in [Interfaces -> [Settings -> SUBSET (Nat \ {0})]]
  /\ Transfers \subseteq [id : Nat, handle : Handles, endpoint : Nat, type : {"control", "bulk", "interrupt"}]
  /\ None \notin Handles

VARIABLES
  plugged,
  config, alt,      \* in the kernel: the configuration (0: none), the setting of each interface
  owner,            \* in the kernel: the handle that has the interface open
  exclusive,        \* in the kernel: the device is open for this library, for none, or for another
  sources,          \* how many sources of the device are in the run loop
  open_count, active_config,      \* struct darwin_cached_device
  is_open, cfSource, open,         \* per handle; open: libusb_open has returned it
  claimed,          \* per handle: claimed_interfaces
  usb,              \* struct darwin_interface of each handle: see NoInterfaces
  state, result,    \* per transfer: where it is, and with what it was answered
  timed_out,        \* transfers with USBI_TRANSFER_TIMED_OUT
  crossed,          \* history: the handle that opened the device was closed before another
  adrift,           \* history, per handle: claims that a change of configuration or setting has lost
  cause             \* history: transfers on whose pipe something was aborted since they were submitted

device == <<plugged, config, alt, owner>>
handle == <<exclusive, sources, open_count, is_open, cfSource, open>>
transfer == <<state, result, timed_out>>
vars == <<device, active_config, handle, claimed, usb, transfer, crossed, adrift, cause>>

\* Per handle: the interface pointers that are set; the endpoints of each interface;
\* its cfSource.  History: the sources that were released again; those whose interface
\* was claimed again, and given back before their pointer was set to NULL.
NoInterfaces ==
  [interface |-> [h \in Handles |-> {}],
   endpoints |-> [h \in Handles |-> [i \in Interfaces |-> {}]],
   cfSource |-> [h \in Handles |-> [i \in Interfaces |-> "null"]],
   twice |-> {}, blind |-> {}]

first_config == Min(Configs)
Has(c, i) == c \in Configs /\ i \in InterfacesOf[c]

Init ==
  /\ plugged = TRUE /\ config \in {0, first_config} /\ alt = [i \in Interfaces |-> 0]
  /\ owner = [i \in Interfaces |-> None] /\ exclusive \in {"none", "other"} /\ sources = 0
  /\ open_count = 0 /\ active_config = config
  /\ is_open = [h \in Handles |-> FALSE] /\ cfSource = [h \in Handles |-> FALSE] /\ open = [h \in Handles |-> FALSE]
  /\ claimed = [h \in Handles |-> {}] /\ usb = NoInterfaces
  /\ state = [t \in Transfers |-> "idle"] /\ result = [t \in Transfers |-> "success"]
  /\ timed_out = {} /\ crossed = FALSE /\ adrift = [h \in Handles |-> {}] /\ cause = {}

Set(f, h, v) == [f EXCEPT ![h] = v]
Mine(h) == {t \in Transfers : t.handle = h}
Quiet(h) == \A t \in Mine(h) : state[t] = "idle"

-----------------------------------------------------------------------------
(* The kernel's side of transfers. *)

Answered(set, how) ==
  /\ state' = [t \in Transfers |-> IF t \in set THEN "answered" ELSE state[t]]
  /\ result' = [t \in Transfers |-> IF t \in set THEN how ELSE result[t]]
  /\ cause' = cause \cup set
Flying == {t \in Transfers : state[t] = "flying"}
InterfaceOf(t) == CHOOSE i \in Interfaces : \E a \in Settings : t.endpoint \in Endpoints[i][a]
OnInterfaces(set) == {t \in Flying : t.endpoint # 0 /\ InterfaceOf(t) \in set}

-----------------------------------------------------------------------------
(* darwin_open and darwin_close. *)

\* USBDeviceOpenSeize, where another program may have the device; of what it does to
\* one that is open here nothing is assumed.
Seized == CASE exclusive = "none" -> {TRUE} [] exclusive = "other" -> {FALSE} [] OTHER -> BOOLEAN

\* The first handle: the device, and the source.
FirstOpen(h) ==
  /\ open_count = 0 /\ sources < MaxSources
  /\ \E got \in Seized : is_open' = Set(is_open, h, got) /\ exclusive' = IF got THEN "ours" ELSE exclusive
  /\ cfSource' = Set(cfSource, h, TRUE) /\ sources' = sources + 1

\* The errors of darwin_open: the device is not got, or there is no source for it and
\* it is closed again; the handle is freed (core.c:1246-1254).
OpenFails(h) ==
  /\ ~open[h] /\ plugged /\ open_count = 0 /\ "open" \in Failures
  /\ \E got \in Seized \cup {FALSE} : exclusive' = IF got THEN "none" ELSE exclusive
  /\ UNCHANGED <<device, active_config, sources, open_count, is_open, cfSource, open, claimed, usb, transfer,
                 crossed, adrift, cause>>

Opened(h) == open' = Set(open, h, TRUE) /\ open_count' = open_count + 1
Open(h) ==
  /\ ~open[h] /\ plugged /\ Opened(h)
  /\ \/ FirstOpen(h)
     \/ open_count > 0 /\ UNCHANGED <<is_open, exclusive, cfSource, sources>>
  /\ UNCHANGED <<device, active_config, claimed, usb, transfer, crossed, adrift, cause>>

\* Mutant: with the last handle what this handle has opened stays open.
CloseDevice_Kept(h) ==
  /\ is_open' = Set(is_open, h, FALSE) /\ cfSource' = Set(cfSource, h, FALSE)
  /\ UNCHANGED <<exclusive, sources>>

\* Mutant: what this handle has opened is closed with it.
CloseDevice_Own(h) ==
  /\ is_open' = Set(is_open, h, FALSE) /\ cfSource' = Set(cfSource, h, FALSE)
  /\ sources' = IF cfSource[h] THEN sources - 1 ELSE sources
  /\ exclusive' = IF is_open[h] THEN "none" ELSE exclusive

\* With the last handle what this handle has opened is closed.
CloseDevice(h) ==
  /\ is_open' = Set(is_open, h, FALSE) /\ cfSource' = Set(cfSource, h, FALSE)
  /\ sources' = IF open_count = 1 /\ cfSource[h] THEN sources - 1 ELSE sources
  /\ exclusive' = IF open_count = 1 /\ is_open[h] THEN "none" ELSE exclusive

-----------------------------------------------------------------------------
(* Interfaces.  Each operator takes and returns what a call may change of them: *)
(* [usb, owner, alt, config].                                                   *)

\* darwin_release_interface: the pointer of the source is left behind.
ReleaseInterface(m, h, i) ==
  IF i \notin m.usb.interface[h] THEN m
  ELSE [m EXCEPT !.usb.interface[h] = @ \ {i}, !.usb.endpoints[h][i] = {},
                 !.usb.twice = IF m.usb.cfSource[h][i] = "stale" THEN @ \cup {<<h, i>>} ELSE @,
                 !.usb.cfSource[h][i] = IF @ = "null" THEN @ ELSE "stale",
                 !.owner[i] = IF @ = h THEN None ELSE @]
ReleaseAll(m, h, set) == FoldSet(LAMBDA i, n : ReleaseInterface(n, h, i), m, set)


\* The table is read, and the pointer of the source is set to NULL.
Known(m, h, i) == [m EXCEPT !.usb.endpoints[h][i] = Endpoints[i][m.alt[i]], !.usb.cfSource[h][i] = "null"]

\* What darwin_claim_interface may come to where the device has interface i: a pointer
\* is left when another has it open; no table, or no source, gives it back.
OpenInterface(m, h, i) ==
  LET has == [m EXCEPT !.usb.interface[h] = @ \cup {i}]
      opened == [has EXCEPT !.owner[i] = h]
      known == Known(opened, h, i)
      fails(n) == [m |-> ReleaseInterface(n, h, i), ret |-> "error"]
      untold == IF m.usb.cfSource[h][i] = "stale" THEN [opened EXCEPT !.usb.blind = @ \cup {<<h, i>>}] ELSE opened
  IN IF m.owner[i] \notin {None, h} THEN {[m |-> has, ret |-> "access"]}
     ELSE {[m |-> [known EXCEPT !.usb.cfSource[h][i] = "live"], ret |-> "ok"]}
          \cup {fails(n) : n \in (IF "endpoints" \in Failures THEN {untold} ELSE {})
                                 \cup (IF "async" \in Failures THEN {known} ELSE {})}

\* The kernel ends all interfaces of the old configuration.
Configured(m, c) ==
  [m EXCEPT !.config = c, !.owner = [i \in Interfaces |-> None], !.alt = [i \in Interfaces |-> 0]]

\* darwin_set_configuration: released, set, and claimed again, whatever that returns.
Reclaim(m, h, c) ==
  FoldSet(LAMBDA i, set : UNION {{o.m : o \in OpenInterface(n, h, i)} : n \in set},
          {Configured(ReleaseAll(m, h, claimed[h]), c)}, claimed[h])

Now == [usb |-> usb, owner |-> owner, alt |-> alt, config |-> config]
Becomes(m) == usb' = m.usb /\ owner' = m.owner /\ alt' = m.alt /\ config' = m.config
\* What the other handles had open, and this one should have.
Lost(m) == adrift' = [g \in Handles |-> adrift[g] \cup {i \in claimed[g] : m.owner[i] # g}]
Reconfigure == OnInterfaces(Interfaces)

\* An interface that is claimed and is not in the configuration that is set would be
\* looked for for ever (darwin_usb.c:1055-1058, 1162-1171).
Endless(h, c) == ~(claimed[h] \subseteq InterfacesOf[c])
MayRelease(h) == open[h] /\ Quiet(h)

\* What is left of the handle, its mask included, goes with it.
Close(h) ==
  /\ MayRelease(h)
  /\ LET m == ReleaseAll(Now, h, claimed[h])
     IN /\ usb' = [m.usb EXCEPT !.interface[h] = {}, !.endpoints[h] = NoInterfaces.endpoints[h],
                                !.cfSource[h] = NoInterfaces.cfSource[h]]
        /\ owner' = m.owner
  /\ CloseDevice(h)
  /\ open' = Set(open, h, FALSE) /\ open_count' = open_count - 1
  /\ crossed' = (crossed \/ (open_count > 1 /\ cfSource[h]))
  /\ claimed' = Set(claimed, h, {}) /\ adrift' = Set(adrift, h, {})
  /\ UNCHANGED <<plugged, config, alt, active_config, transfer, cause>>

SetConfiguration(h, c) ==
  /\ MayRelease(h) /\ plugged /\ ~Endless(h, c)
  /\ \/ \E m \in Reclaim(Now, h, c) :
          /\ Becomes(m) /\ Lost(m) /\ active_config' = c
          /\ Answered(Reconfigure, "aborted")
     \/ /\ "set" \in Failures
        /\ LET m == ReleaseAll(Now, h, claimed[h]) IN Becomes(m) /\ Lost(m)
        /\ UNCHANGED <<active_config, state, result, cause>>
  /\ UNCHANGED <<plugged, handle, claimed, timed_out, crossed>>

\* libusb_claim_interface: the interface is there ...
Claim(h, i) ==
  /\ open[h] /\ plugged /\ i \notin claimed[h] /\ Has(config, i)
  /\ \E o \in OpenInterface(Now, h, i) :
       /\ Becomes(o.m)
       /\ claimed' = IF o.ret = "ok" THEN Set(claimed, h, claimed[h] \cup {i}) ELSE claimed
       /\ adrift' = IF o.ret = "ok" THEN Set(adrift, h, adrift[h] \ {i}) ELSE adrift
  /\ UNCHANGED <<plugged, active_config, handle, transfer, crossed, cause>>

\* ... or it is not, and the first configuration is set to look for it again.
ClaimMissing(h, i) ==
  /\ MayRelease(h) /\ plugged /\ i \notin claimed[h] /\ ~Has(config, i)
  /\ ~Endless(h, first_config)
  /\ \E m \in Reclaim(Now, h, first_config) :
       \E o \in IF Has(first_config, i) THEN OpenInterface(m, h, i) ELSE {[m |-> m, ret |-> "not found"]} :
         /\ Becomes(o.m) /\ Lost(o.m)
         /\ claimed' = IF o.ret = "ok" THEN Set(claimed, h, claimed[h] \cup {i}) ELSE claimed
  /\ active_config' = first_config
  /\ Answered(Reconfigure, "aborted")
  /\ UNCHANGED <<plugged, handle, timed_out, crossed>>

Release(h, i) ==
  /\ MayRelease(h) /\ i \in claimed[h]
  /\ Becomes(ReleaseInterface(Now, h, i))
  /\ claimed' = Set(claimed, h, claimed[h] \ {i}) /\ adrift' = Set(adrift, h, adrift[h] \ {i})
  /\ UNCHANGED <<plugged, active_config, handle, transfer, crossed, cause>>

\* darwin_set_interface_altsetting: where the setting is refused the device is reset,
\* and either way the table is read anew; without one the interface is given back.
SetAltSetting(h, i, a) ==
  /\ MayRelease(h) /\ plugged /\ i \in claimed[h] /\ i \in usb.interface[h]
  /\ \E taken \in {owner[i] = h} \cup (IF "altsetting" \in Failures THEN {FALSE} ELSE {}) :
       LET set == IF taken THEN [Now EXCEPT !.alt[i] = a] ELSE Now
           known == [set EXCEPT !.usb.endpoints[h][i] = Endpoints[i][set.alt[i]]]
       IN /\ \/ owner[i] = h /\ Becomes(known) /\ UNCHANGED adrift
             \/ /\ owner[i] # h \/ "endpoints" \in Failures
                /\ LET m == ReleaseInterface(set, h, i) IN Becomes(m) /\ Lost(m)
          /\ IF taken THEN UNCHANGED <<state, result, cause>> ELSE Answered(Flying, "aborted")
  /\ UNCHANGED <<plugged, active_config, handle, claimed, timed_out, crossed>>

\* darwin_reset_device; a device that is another afterwards is enumerated again, and
\* is lost to this handle.
ResetDevice(h) ==
  /\ open[h] /\ plugged
  /\ plugged' \in {TRUE} \cup (IF "reset" \in Failures THEN {FALSE} ELSE {})
  /\ Answered(Flying, "aborted")
  /\ UNCHANGED <<config, alt, owner, active_config, handle, claimed, usb, timed_out, crossed, adrift>>

Unplug ==
  /\ plugged /\ plugged' = FALSE /\ Answered(Flying, "error")
  /\ UNCHANGED <<config, alt, owner, active_config, handle, claimed, usb, timed_out, crossed, adrift>>

-----------------------------------------------------------------------------
(* Transfers. *)

\* ep_to_pipeRef: an endpoint in the table of a claimed interface.
PipeOf(t) == {i \in claimed[t.handle] : t.endpoint \in usb.endpoints[t.handle][i]}
OnPipe(t) == {u \in Flying : u.handle = t.handle /\ u.endpoint = t.endpoint}
\* The object is asked, which may have ended in the kernel.
Works(t) == plugged /\ (t.endpoint = 0 \/ \E i \in PipeOf(t) : owner[i] = t.handle)

Submit(t) ==
  /\ open[t.handle] /\ state[t] = "idle" /\ Works(t)
  /\ state' = Set(state, t, "flying")
  /\ UNCHANGED <<device, active_config, handle, claimed, usb, result, timed_out, crossed, adrift, cause>>

\* The kernel answers; it knows the timeouts of bulk and control transfers.
Answer(t) ==
  /\ state[t] = "flying"
  /\ \E how \in {"success", "stalled"} \cup (IF t.type = "interrupt" THEN {} ELSE {"timeout"}) :
       state' = Set(state, t, "answered") /\ result' = Set(result, t, how)
  /\ UNCHANGED <<device, active_config, handle, claimed, usb, timed_out, crossed, adrift, cause>>


\* USBDeviceAbortPipeZero, AbortPipe: all that is on the pipe.
Aborted(t) == IF t.endpoint = 0 THEN {u \in Flying : u.endpoint = 0} ELSE OnPipe(t)

\* darwin_cancel_transfer, which need not find the pipe any more.
Abort(t) ==
  /\ plugged /\ (t.endpoint = 0 \/ PipeOf(t) # {})
  /\ Answered(Aborted(t), "aborted")

Cancel(t) ==
  /\ state[t] \in {"flying", "answered", "completed"} /\ Abort(t)
  /\ UNCHANGED <<device, active_config, handle, claimed, usb, timed_out, crossed, adrift>>

\* handle_timeout, for what the kernel has no timeout for.
Expire(t) ==
  /\ t.type = "interrupt" /\ state[t] \in {"flying", "answered", "completed"} /\ t \notin timed_out
  /\ timed_out' = timed_out \cup {t}
  /\ IF plugged /\ PipeOf(t) # {} THEN Abort(t) ELSE UNCHANGED <<state, result, cause>>
  /\ UNCHANGED <<device, active_config, handle, claimed, usb, crossed, adrift>>

\* The run loop serves the sources that are in it: one of the device, one of the interface.
Heard(t) ==
  IF t.endpoint = 0 THEN sources > 0
  ELSE usb.cfSource[t.handle][InterfaceOf(t)] = "live"

\* darwin_async_io_callback
Callback(t) ==
  /\ state[t] = "answered" /\ Heard(t)
  /\ state' = Set(state, t, "completed")
  /\ UNCHANGED <<device, active_config, handle, claimed, usb, result, timed_out, crossed, adrift, cause>>

\* Mutant: the flag is not looked at.
Status_Unflagged(t) ==
  CASE result[t] = "success" -> "COMPLETED" [] result[t] = "aborted" -> "CANCELLED"
    [] result[t] = "stalled" -> "STALL" [] result[t] = "timeout" -> "TIMED_OUT" [] OTHER -> "ERROR"

\* darwin_transfer_status
Status(t) ==
  IF t \in timed_out THEN "TIMED_OUT"
  ELSE CASE result[t] = "success" -> "COMPLETED" [] result[t] = "aborted" -> "CANCELLED"
         [] result[t] = "stalled" -> "STALL" [] result[t] = "timeout" -> "TIMED_OUT" [] OTHER -> "ERROR"

\* darwin_handle_transfer_completion, by the thread that handles events: it is
\* reported with its status.
HandleCompletion(t) ==
  /\ state[t] = "completed"
  /\ state' = Set(state, t, "idle") /\ result' = Set(result, t, "success")
  /\ timed_out' = timed_out \ {t} /\ cause' = cause \ {t}
  /\ UNCHANGED <<device, active_config, handle, claimed, usb, crossed, adrift>>

-----------------------------------------------------------------------------
Calls(h) ==
  \/ Open(h) \/ OpenFails(h) \/ Close(h) \/ ResetDevice(h)
  \/ \E c \in Configs : SetConfiguration(h, c)
  \/ \E i \in Interfaces : Claim(h, i) \/ ClaimMissing(h, i) \/ Release(h, i) \/ \E a \in Settings : SetAltSetting(h, i, a)
Serve(t) == Callback(t) \/ HandleCompletion(t)

Next ==
  \/ Unplug
  \/ \E h \in Handles : Calls(h)
  \/ \E t \in Transfers : Submit(t) \/ Answer(t) \/ Cancel(t) \/ Expire(t) \/ Serve(t)

\* The run loop and the thread that handles events go on.
Fairness == \A t \in Transfers : WF_vars(Serve(t))
Spec == Init /\ [][Next]_vars /\ Fairness

-----------------------------------------------------------------------------
TypeOK ==
  /\ plugged \in BOOLEAN /\ config \in Configs \cup {0} /\ owner \in [Interfaces -> Handles \cup {None}]
  /\ exclusive \in {"none", "ours", "other"} /\ sources \in Nat /\ open_count \in 0 .. Cardinality(Handles)
  /\ \A h \in Handles : claimed[h] \subseteq Interfaces /\ usb.interface[h] \subseteq Interfaces /\ adrift[h] \subseteq claimed[h]
  /\ state \in [Transfers -> {"idle", "flying", "answered", "completed"}]

\* No table has endpoints of an interface that is not open, so that no call is made
\* through a pointer that is not set; and unless a change of configuration or a setting
\* has lost it, what is claimed is open in the kernel (darwin_usb.c:154-189, 1250-1281).
TablesAreOfOpenInterfaces ==
  \A h \in Handles :
    /\ \A i \in Interfaces : usb.endpoints[h][i] # {} => i \in usb.interface[h]
    /\ \A i \in claimed[h] \ adrift[h] : owner[i] = h /\ i \in usb.interface[h]

\* When the last handle is closed the device is closed and has no source in the run
\* loop, unless the handle that opened it was closed before another.  And no source of
\* an interface is released again, but by a claim that fails to read the table of
\* endpoints before it has set the pointer to NULL, which the last release left
\* (darwin_usb.c:993-1031, 1220-1229, 1250-1281).
ClosedWithTheLast ==
  /\ open_count = 0 /\ ~crossed => exclusive # "ours" /\ sources = 0
  /\ usb.twice \subseteq usb.blind

\* The answer to a transfer is heard: its source is in the run loop until it is
\* reported, whatever the other handle does.
AnswersAreHeard == \A t \in Transfers : state[t] \in {"flying", "answered"} => Heard(t)

\* A transfer that is reported cancelled was aborted, perhaps with another on its
\* pipe; one that its own timeout has ended is not reported as cancelled.
CancelledForCause ==
  \A t \in Transfers :
    state[t] = "completed" /\ Status(t) = "CANCELLED" => t \in cause /\ t \notin timed_out

\* What is answered is reported.
AnswersAreReported == \A t \in Transfers : state[t] = "answered" ~> state[t] = "idle"
=============================================================================
