------------------------------- MODULE UsbWindows -------------------------------
(***************************************************************************)
(* The handles of a device and their transfers on Windows (windows_usb.c): *)
(* a device of one driver, or a composite one whose interfaces have their  *)
(* own, WinUSB or HID.  A control transfer needs some interface, and one   *)
(* is claimed for it, and released after it, where the application has     *)
(* claimed none (auto_claim, auto_release).                                *)
(*                                                                         *)
(* Each transfer is submitted by a thread of its own; control transfers in *)
(* steps, between which others end; everything else that an application    *)
(* calls, and what is done for a transfer that has ended, is a step.  A    *)
(* row is a descriptor of poll_windows.c (see UsbWinPoll).  Data, policies *)
(* of pipes, and composite devices with two drivers of WinUSB's kind are   *)
(* left out.                                                               *)
(* External: the drivers; that WinUSB admits one file per interface, and   *)
(* that an interface that is freed is in setting 0 again.                  *)
(***************************************************************************)
EXTENDS Integers, SequencesExt, FiniteSetsExt

CONSTANTS Handles,
          Interfaces,   \* 0 .. n
          Api,          \* Api[i]: "winusb" or "hid"
          Composite,    \* driven by usbccgp
          Restricted,   \* interfaces of keyboards and mice
          Endpoints,    \* Endpoints[i][a]: endpoints of interface i in setting a
          Transfers,    \* records: id, handle, endpoint (0: control), target, hid (a request HID knows)
          Failures,     \* "open", "initialize", "associated", "descriptor", "setting", "refused", "overflow"
          MaxRows,      \* bound: descriptors
          MaxCount,     \* bound: auto-claims of an interface that are not undone
          Careless,     \* calls overlap whatever interfaces control transfers were given
          ResetsFlying  \* a device is reset while transfers are in flight

None == -1
Nobody == "nobody"
NoTransfer == [id |-> 0]
Settings == {0, 1}
Rows == 1 .. MaxRows

UsbWindowsAssumption ==
  /\ 0 \in Interfaces /\ Interfaces \subseteq Nat
  /\ Api \in [Interfaces -> {"winusb", "hid"}] /\ Restricted \subseteq {i \in Interfaces : Api[i] = "hid"}
  /\ Composite \/ \A i \in Interfaces : Api[i] = Api[0]
  /\ Endpoints \in [Interfaces -> [Settings -> SUBSET (Nat \ {0})]]
  /\ Transfers \subseteq [id : Nat \ {0}, handle : Handles, endpoint : Nat, target : Interfaces \cup {None}, hid : BOOLEAN]
  /\ Nobody \notin Handles /\ MaxRows \in Nat /\ MaxCount \in Nat

VARIABLES
  files,      \* in the kernel: open files, with the handle that knows them
  objects,    \* in the kernel: interfaces of WinUSB, by handle
  alt,        \* in the kernel: the setting of each interface
  endpoint,   \* usb_interface[i].endpoint of the device
  open, hs,   \* per handle: is it open; its structs, see NoHandle
  rows,       \* per descriptor: the transfer it was made for
  pc, left,   \* per transfer: where its thread is; the interfaces it may still try
  iface, fd,  \* per transfer: interface_number, pollable_fd
  io,         \* per transfer: none, pending or done
  asked,      \* history, per handle: the interfaces the application has claimed
  uneven,     \* history: interfaces whose auto-claims have no release of their own: a submission
              \* that failed has left them claimed, or they were claimed already
  unset,      \* history: interfaces whose table a failing call has emptied
  lost,       \* history: what failing calls, and composite_close, have left open
  wrong       \* history: a transfer was reported for another

kernel == <<files, objects, alt>>
handle == <<open, hs>>
transfer == <<rows, pc, left, iface, fd, io>>
history == <<asked, uneven, unset, lost, wrong>>
vars == <<kernel, endpoint, handle, transfer, history>>

\* The interfaces whose dev_handle and api_handle are valid, the counts of auto_claim,
\* and claimed_interfaces of core.c.
NoHandle ==
  [dev_handle |-> {}, api_handle |-> {}, autoclaim_count |-> [i \in Interfaces |-> 0], claimed |-> {}]

Init ==
  /\ files = {} /\ objects = {} /\ alt = [i \in Interfaces |-> 0]
  /\ endpoint = [i \in Interfaces |-> {}]
  /\ open = [h \in Handles |-> FALSE] /\ hs = [h \in Handles |-> NoHandle]
  /\ rows = [r \in Rows |-> NoTransfer]
  /\ pc = [t \in Transfers |-> "idle"] /\ left = [t \in Transfers |-> << >>]
  /\ iface = [t \in Transfers |-> None] /\ fd = [t \in Transfers |-> None]
  /\ io = [t \in Transfers |-> "none"]
  /\ asked = [h \in Handles |-> {}] /\ uneven = {} /\ unset = {} /\ lost = {} /\ wrong = FALSE

Of(api) == {i \in Interfaces : Api[i] = api}
Ascending(set) == SetToSortSeq(set, <)
InOrder == [api \in {"winusb", "hid"} |-> Ascending(Of(api))]
Mine(h) == {t \in Transfers : t.handle = h}
Control(h) == {t \in Mine(h) : t.endpoint = 0 /\ pc[t] # "idle"}
Quiet(h) == \A t \in Mine(h) : pc[t] = "idle"
Flying == {t \in Transfers : pc[t] = "flying"}

-----------------------------------------------------------------------------
(* windows_open and windows_close. *)

\* Of a device of WinUSB, the first interface has the path of the device.
Paths == IF Composite \/ Api[0] = "hid" THEN Interfaces ELSE {0}
Held(i) == Api[i] = "winusb" /\ \E f \in files : f[2] = i
Before(i, j) == IF Api[i] = Api[j] THEN i < j ELSE Api[i] = "winusb"

\* Files are opened one by one; those that are open when one cannot be opened stay so.
Open(h) ==
  /\ ~open[h]
  /\ \E n \in Paths \cup {None} :
       LET got == {i \in Paths : n = None \/ Before(i, n)} IN
       /\ \A i \in got : ~Held(i)
       /\ n # None => Held(n) \/ "open" \in Failures
       /\ IF n = None
          THEN /\ files' = files \cup {<<h, i>> : i \in got}
               /\ open' = [open EXCEPT ![h] = TRUE]
               /\ hs' = [hs EXCEPT ![h].dev_handle = got \cap Of("winusb"), ![h].api_handle = got \cap Of("hid")]
               /\ UNCHANGED lost
          ELSE /\ files' = files \cup {<<Nobody, i>> : i \in got}
               /\ lost' = lost \cup {<<"file", i>> : i \in got}
               /\ UNCHANGED <<open, hs>>
  /\ UNCHANGED <<objects, alt, endpoint, transfer, asked, uneven, unset, wrong>>

\* composite_close knows of WinUSB only: the files of HID stay open.
LeftOpen == IF Composite THEN Of("hid") ELSE {}

\* Mutant: what was claimed is not freed.
Close_Unfreed(h) ==
  /\ open[h] /\ Quiet(h)
  /\ files' = {f \in files : f[1] # h} \cup {<<Nobody, i>> : i \in LeftOpen}
  /\ lost' = lost \cup {<<"file", i>> : i \in LeftOpen}
  /\ UNCHANGED <<objects, alt>>
  /\ open' = [open EXCEPT ![h] = FALSE] /\ hs' = [hs EXCEPT ![h] = NoHandle]
  /\ asked' = [asked EXCEPT ![h] = {}] /\ uneven' = {k \in uneven : k[1] # h}
  /\ UNCHANGED <<endpoint, transfer, unset, wrong>>

Close(h) ==
  /\ open[h] /\ Quiet(h)
  /\ files' = {f \in files : f[1] # h} \cup {<<Nobody, i>> : i \in LeftOpen}
  /\ lost' = lost \cup {<<"file", i>> : i \in LeftOpen}
  /\ objects' = objects \ {<<h, i>> : i \in hs[h].api_handle}
  /\ alt' = [i \in Interfaces |-> IF i \in hs[h].api_handle THEN 0 ELSE alt[i]]
  /\ open' = [open EXCEPT ![h] = FALSE] /\ hs' = [hs EXCEPT ![h] = NoHandle]
  /\ asked' = [asked EXCEPT ![h] = {}] /\ uneven' = {k \in uneven : k[1] # h}
  /\ UNCHANGED <<endpoint, transfer, unset, wrong>>

-----------------------------------------------------------------------------
(* Claiming and releasing.  An operator takes what a call may change, and    *)
(* returns what it may come to: m, and whether it is a success.              *)

Now(h) == [hs |-> hs[h], objects |-> objects, alt |-> alt, endpoint |-> endpoint, unset |-> unset, lost |-> lost]
Becomes(h, m) ==
  /\ hs' = [hs EXCEPT ![h] = m.hs] /\ objects' = m.objects /\ alt' = m.alt /\ endpoint' = m.endpoint
  /\ unset' = m.unset /\ lost' = m.lost

May(failure, m) == IF failure \in Failures THEN {[m |-> m, ok |-> FALSE]} ELSE {}
Done(m) == {[m |-> m, ok |-> TRUE]}
Forgotten(m, h, i) == IF <<h, i>> \in m.objects THEN m.lost \cup {<<"object", i>>} ELSE m.lost
Invalid(m, h, i) == [m EXCEPT !.hs.api_handle = @ \ {i}, !.lost = Forgotten(m, h, i)]
Valid(m, h, i) ==
  [m EXCEPT !.hs.api_handle = @ \cup {i}, !.objects = @ \cup {<<h, i>>}, !.lost = Forgotten(m, h, i)]

\* WinUSB's Initialize, again even where there is an object already.
Initialize(m, h, i) == Done(Valid(m, h, i)) \cup May("initialize", Invalid(m, h, i))

GetAssociatedInterface(m, h, i) ==
  IF <<h, i>> \in m.objects
  THEN {[m |-> Invalid(m, h, i), ok |-> FALSE]}
  ELSE Done(Valid(m, h, i)) \cup May("associated", Invalid(m, h, i))

\* winusbx_claim_interface, by way of composite_claim_interface or not; interface 0 of
\* a device that is not composite is initialized for the others.
WinusbxClaim(m, h, i) ==
  IF Composite \/ i = 0
  THEN IF i \in m.hs.dev_handle THEN Initialize(m, h, i) ELSE {[m |-> m, ok |-> FALSE]}
  ELSE UNION {IF o.ok THEN GetAssociatedInterface(o.m, h, i) ELSE {o} :
              o \in IF 0 \in m.hs.api_handle THEN Done(m) ELSE Initialize(m, h, 0)}

HidClaim(m, i) ==
  IF i \in m.hs.dev_handle THEN {[m |-> m, ok |-> FALSE]} ELSE Done([m EXCEPT !.hs.dev_handle = @ \cup {i}])

\* windows_assign_endpoints, which may get no descriptor.
AssignEndpoints(m, i, a) ==
  Done([m EXCEPT !.endpoint[i] = Endpoints[i][a], !.unset = @ \ {i}]) \cup May("descriptor", m)

\* windows_claim_interface: the table of endpoints is emptied first.
WindowsClaim(m, h, i) ==
  LET emptied == [m EXCEPT !.endpoint[i] = {}, !.unset = @ \cup {i}] IN
  UNION {IF o.ok THEN AssignEndpoints(o.m, i, 0) ELSE {o} :
         o \in IF Api[i] = "winusb" THEN WinusbxClaim(emptied, h, i) ELSE HidClaim(emptied, i)}

\* libusb_claim_interface
CoreClaim(m, h, i) ==
  IF i \in m.hs.claimed
  THEN Done(m)
  ELSE {IF o.ok THEN [o EXCEPT !.m.hs.claimed = @ \cup {i}] ELSE o : o \in WindowsClaim(m, h, i)}

\* libusb_release_interface, with winusbx_ and hid_release_interface.
CoreRelease(m, h, i) ==
  IF i \notin m.hs.claimed \/ i \notin (IF Api[i] = "winusb" THEN m.hs.api_handle ELSE m.hs.dev_handle)
  THEN m
  ELSE LET free == [m EXCEPT !.hs.claimed = @ \ {i}] IN
       IF Api[i] = "winusb"
       THEN [free EXCEPT !.hs.api_handle = @ \ {i}, !.objects = @ \ {<<h, i>>}, !.alt[i] = 0]
       ELSE [free EXCEPT !.hs.dev_handle = @ \ {i}]

\* auto_claim: the first interface of the driver that can be claimed.
AutoClaim(m, h, api) ==
  LET Try(o, i) ==
        {[m |-> IF c.ok THEN [c.m EXCEPT !.hs.autoclaim_count[i] = @ + 1] ELSE c.m,
          at |-> IF c.ok THEN i ELSE None] : c \in CoreClaim(o.m, h, i)}
  IN FoldLeft(LAMBDA set, i : UNION {IF o.at = None THEN Try(o, i) ELSE {o} : o \in set},
              {[m |-> m, at |-> None]}, InOrder[api])

\* Mutant: the count is left, and the interface claimed.
AutoRelease_Never(m, h, i) == m

\* Mutant: whether the interface was auto-claimed is not asked.
AutoRelease_Always(m, h, i) == CoreRelease(m, h, i)

\* auto_release: by whatever transfer ends on the interface.
AutoRelease(m, h, i) ==
  IF m.hs.autoclaim_count[i] = 0 THEN m
  ELSE LET less == [m EXCEPT !.hs.autoclaim_count[i] = @ - 1] IN
       IF m.hs.autoclaim_count[i] = 1 THEN CoreRelease(less, h, i) ELSE less

\* An application that is not careless claims and releases while no control transfer
\* is under way.
Claim(h, i) ==
  /\ open[h] /\ i \notin asked[h] /\ (Careless \/ Control(h) = {})
  /\ \E o \in CoreClaim(Now(h), h, i) :
       /\ Becomes(h, o.m)
       /\ asked' = IF o.ok THEN [asked EXCEPT ![h] = @ \cup {i}] ELSE asked
  /\ UNCHANGED <<files, open, transfer, uneven, wrong>>

Release(h, i) ==
  /\ open[h] /\ i \in asked[h] /\ (Careless \/ Quiet(h))
  /\ Becomes(h, CoreRelease(Now(h), h, i)) /\ asked' = [asked EXCEPT ![h] = @ \ {i}]
  /\ UNCHANGED <<files, open, transfer, uneven, wrong>>

\* winusbx_ and hid_set_interface_altsetting: HID has setting 0 only.
SetInterface(m, h, i, a) ==
  IF (Api[i] = "hid" /\ a # 0) \/ i \notin m.hs.api_handle
  THEN {[m |-> m, ok |-> FALSE]}
  ELSE May("setting", m) \cup Done([m EXCEPT !.alt[i] = a])

\* Mutant: the endpoints are those of setting 0.
WindowsSetAltSetting_First(m, h, i, a) ==
  LET emptied == [m EXCEPT !.endpoint[i] = {}, !.unset = @ \cup {i}] IN
  UNION {IF o.ok THEN AssignEndpoints(o.m, i, 0) ELSE {o} : o \in SetInterface(emptied, h, i, a)}

\* windows_set_interface_altsetting: the table is emptied first.
WindowsSetAltSetting(m, h, i, a) ==
  LET emptied == [m EXCEPT !.endpoint[i] = {}, !.unset = @ \cup {i}] IN
  UNION {IF o.ok THEN AssignEndpoints(o.m, i, a) ELSE {o} : o \in SetInterface(emptied, h, i, a)}

SetAltSetting(h, i, a) ==
  /\ open[h] /\ i \in hs[h].claimed /\ i \in asked[h] /\ (Careless \/ Quiet(h))
  /\ \E o \in WindowsSetAltSetting(Now(h), h, i, a) : Becomes(h, o.m)
  /\ UNCHANGED <<files, open, transfer, asked, uneven, wrong>>

-----------------------------------------------------------------------------
(* Submitting. *)

Goto(t, where) == pc' = [pc EXCEPT ![t] = where]
FreeRows == {r \in Rows : rows[r] = NoTransfer}
Row == Min(FreeRows)

\* The interface with the endpoint, and the first that is open for control transfers.
InterfaceByEndpoint(h, e) == {i \in hs[h].api_handle : e \in endpoint[i]}
GetValidInterface(h, api) == {i \in hs[h].dev_handle \cap hs[h].api_handle : Api[i] = api}

\* composite_submit_control_transfer: the interface the request is for, those that are
\* not restricted, all.
Candidates(t) ==
  LET Tries(set, aimed) == [n \in DOMAIN Ascending(set) |-> [at |-> Ascending(set)[n], aimed |-> aimed]] IN
  IF Composite
  THEN Tries({t.target} \cap Interfaces, TRUE) \o Tries(Interfaces \ Restricted, FALSE) \o Tries(Interfaces, FALSE)
  ELSE Tries({0}, FALSE)

\* Without care no other control transfer is under way, unless the application has
\* claimed all interfaces itself.
SubmitControl(t) ==
  LET h == t.handle IN
  /\ t.endpoint = 0 /\ pc[t] = "idle" /\ open[h] /\ \A i \in Interfaces : hs[h].autoclaim_count[i] < MaxCount
  /\ Careless \/ Control(h) = {} \/ Interfaces = asked[h]
  /\ left' = [left EXCEPT ![t] = Candidates(t)] /\ Goto(t, "look")
  /\ UNCHANGED <<kernel, endpoint, handle, rows, iface, fd, io, history>>

\* The driver of the candidate decides; the interface that is used may be another.
Look(t) ==
  LET valid == GetValidInterface(t.handle, Api[Head(left[t]).at]) IN
  /\ pc[t] = "look"
  /\ iface' = [iface EXCEPT ![t] = IF valid = {} THEN None ELSE Min(valid)]
  /\ Goto(t, IF valid = {} THEN "claim" ELSE "begin")
  /\ UNCHANGED <<kernel, endpoint, handle, rows, left, fd, io, history>>

\* The request that was aimed at an interface is tried elsewhere whatever has happened
\* to it, others only where the driver does not know them.
Fails(t, known) ==
  IF Len(left[t]) > 1 /\ (Head(left[t]).aimed \/ ~known)
  THEN left' = [left EXCEPT ![t] = Tail(@)] /\ Goto(t, "look")
  ELSE left' = [left EXCEPT ![t] = << >>] /\ Goto(t, "idle")

AutoClaims(t) ==
  /\ pc[t] = "claim"
  /\ \E o \in AutoClaim(Now(t.handle), t.handle, Api[Head(left[t]).at]) :
       /\ Becomes(t.handle, o.m)
       /\ IF o.at = None
          THEN Fails(t, TRUE) /\ UNCHANGED iface
          ELSE Goto(t, "begin") /\ iface' = [iface EXCEPT ![t] = o.at] /\ UNCHANGED left
       /\ uneven' = IF o.at \in asked[t.handle] THEN uneven \cup {<<t.handle, o.at>>} ELSE uneven
  /\ UNCHANGED <<files, open, rows, fd, io, asked, wrong>>

\* Mutant: the transfer does not get the descriptor.
Fly_Unstored(t, i) ==
  /\ FreeRows # {} /\ i \in hs[t.handle].api_handle
  /\ rows' = [rows EXCEPT ![Row] = t] /\ UNCHANGED fd
  /\ io' = [io EXCEPT ![t] = "pending"]
  /\ iface' = [iface EXCEPT ![t] = i] /\ Goto(t, "flying") /\ left' = [left EXCEPT ![t] = << >>]

\* A descriptor, and the transfer, which may be done at once.
Fly(t, i) ==
  /\ FreeRows # {} /\ i \in hs[t.handle].api_handle
  /\ rows' = [rows EXCEPT ![Row] = t] /\ fd' = [fd EXCEPT ![t] = Row]
  /\ io' = [io EXCEPT ![t] = "pending"]
  /\ iface' = [iface EXCEPT ![t] = i] /\ Goto(t, "flying") /\ left' = [left EXCEPT ![t] = << >>]

\* winusbx_ and hid_submit_control_transfer from usbi_create_fd on.  The claim that
\* was made for it stays when it fails.
Begin(t) ==
  LET h == t.handle
      known == Api[iface[t]] = "winusb" \/ t.hid
  IN
  /\ pc[t] = "begin"
  /\ \/ known /\ Fly(t, iface[t]) /\ UNCHANGED uneven
     \/ /\ ~known \/ FreeRows = {} \/ iface[t] \notin hs[h].api_handle \/ "refused" \in Failures
        /\ Fails(t, known \/ FreeRows = {})
        /\ uneven' = IF hs[h].autoclaim_count[iface[t]] > 0 THEN uneven \cup {<<h, iface[t]>>} ELSE uneven
        /\ UNCHANGED <<rows, iface, fd, io>>
  /\ UNCHANGED <<kernel, endpoint, handle, asked, unset, lost, wrong>>

\* winusbx_ and hid_submit_bulk_transfer; one that is refused leaves nothing, but for a
\* read of HID that got too much at once.
SubmitBulk(t) ==
  LET h == t.handle
      found == InterfaceByEndpoint(h, t.endpoint)
  IN
  /\ t.endpoint # 0 /\ pc[t] = "idle" /\ open[h] /\ found # {}
  /\ Careless \/ found \subseteq asked[h]
  /\ \/ Fly(t, Min(found)) /\ UNCHANGED lost
     \/ /\ "overflow" \in Failures /\ Api[Min(found)] = "hid" /\ FreeRows # {}
        /\ rows' = [rows EXCEPT ![Row] = t] /\ lost' = lost \cup {<<"row", Row>>}
        /\ UNCHANGED <<pc, left, iface, fd, io>>
  /\ UNCHANGED <<kernel, endpoint, handle, asked, uneven, unset, wrong>>

-----------------------------------------------------------------------------
(* Ending. *)

Ended(set) == io' = [t \in Transfers |-> IF t \in set /\ io[t] = "pending" THEN "done" ELSE io[t]]

Answer(t) ==
  /\ t \in Flying /\ io[t] = "pending"
  /\ Ended({t})
  /\ UNCHANGED <<kernel, endpoint, handle, rows, pc, left, iface, fd, history>>

\* winusbx_abort_control does nothing, AbortPipe ends all on the pipe; CancelIo ends
\* what the thread that calls it has begun on the file.
Abort(t) ==
  LET same == {u \in Flying : u.handle = t.handle /\ iface[u] = iface[t]} IN
  IF Api[iface[t]] = "winusb"
  THEN IF t.endpoint = 0 THEN UNCHANGED io ELSE Ended({u \in same : u.endpoint = t.endpoint})
  ELSE UNCHANGED io \/ Ended(same)

\* By the application, or as its timeout is over.
Cancel(t) ==
  /\ t \in Flying /\ Abort(t)
  /\ UNCHANGED <<kernel, endpoint, handle, rows, pc, left, iface, fd, history>>

\* winusbx_reset_device: descriptors are freed, whoever waits for them.
ResetDevice(h) ==
  /\ open[h] /\ Of("winusb") # {}
  /\ LET swept == {t \in Flying : t.handle = h} IN
     /\ swept # {} => ResetsFlying
     /\ rows' = [r \in Rows |-> IF rows[r] \in swept THEN NoTransfer ELSE rows[r]]
     /\ Ended(swept)
  /\ UNCHANGED <<kernel, endpoint, handle, pc, left, iface, fd, history>>

\* Mutant: the descriptor is not freed.
ClearTransferPriv_Row(t) == UNCHANGED rows

\* windows_clear_transfer_priv: the descriptor is freed.
ClearTransferPriv(t) == rows' = [rows EXCEPT ![fd[t]] = NoTransfer]

\* windows_handle_events, for descriptor r: the transfer in flight that has it is reported.
HandleEvents(r) ==
  /\ rows[r] \in Flying /\ io[rows[r]] # "pending"
  /\ \E t \in Flying :
       /\ fd[t] = r
       /\ wrong' = (wrong \/ t # rows[r])
       /\ ClearTransferPriv(t)
       /\ Becomes(t.handle, AutoRelease(Now(t.handle), t.handle, iface[t]))
       /\ Goto(t, "idle") /\ fd' = [fd EXCEPT ![t] = None] /\ io' = [io EXCEPT ![t] = "none"]
       /\ iface' = [iface EXCEPT ![t] = None]
  /\ UNCHANGED <<files, open, left, asked, uneven>>

-----------------------------------------------------------------------------
Calls(h) ==
  \/ Open(h) \/ Close(h) \/ ResetDevice(h)
  \/ \E i \in Interfaces : Claim(h, i) \/ Release(h, i) \/ \E a \in Settings : SetAltSetting(h, i, a)
Submit(t) == Look(t) \/ AutoClaims(t) \/ Begin(t)
Handle == \E r \in Rows : HandleEvents(r)

Next ==
  \/ Handle
  \/ \E h \in Handles : Calls(h)
  \/ \E t \in Transfers : SubmitControl(t) \/ Submit(t) \/ SubmitBulk(t) \/ Answer(t) \/ Cancel(t)

\* Each pass handles every descriptor that is ready, and submissions go on.
Fairness == (\A r \in Rows : WF_vars(HandleEvents(r))) /\ \A t \in Transfers : WF_vars(Submit(t))
Spec == Init /\ [][Next]_vars /\ Fairness

-----------------------------------------------------------------------------
TypeOK ==
  /\ files \subseteq (Handles \cup {Nobody}) \X Interfaces /\ objects \subseteq Handles \X Interfaces
  /\ alt \in [Interfaces -> Settings] /\ open \in [Handles -> BOOLEAN]
  /\ \A h \in Handles : /\ hs[h].dev_handle \subseteq Interfaces /\ hs[h].api_handle \subseteq Interfaces
                        /\ hs[h].autoclaim_count \in [Interfaces -> Nat] /\ hs[h].claimed \subseteq Interfaces
  /\ rows \in [Rows -> Transfers \cup {NoTransfer}]
  /\ pc \in [Transfers -> {"idle", "look", "claim", "begin", "flying"}]
  /\ iface \in [Transfers -> Interfaces \cup {None}] /\ fd \in [Transfers -> Rows \cup {None}]
  /\ io \in [Transfers -> {"none", "pending", "done"}]
  /\ asked \in [Handles -> SUBSET Interfaces] /\ uneven \subseteq Handles \X Interfaces /\ wrong \in BOOLEAN

\* The interface that a transfer in flight uses is claimed from the driver until it is
\* reported: nothing releases it early (windows_usb.c:789-794), unless it was auto-claimed
\* without a release of its own.
HeldWhileUsed ==
  \A t \in Flying :
    LET h == t.handle
        i == iface[t]
    IN \/ <<h, i>> \in uneven
       \/ IF Api[i] = "winusb" THEN i \in hs[h].api_handle /\ <<h, i>> \in objects ELSE i \in hs[h].dev_handle

\* What the application has claimed stays claimed, and what it has not is claimed while
\* a control transfer uses it and no longer (auto_claim, auto_release).
AskedIsKept == \A h \in Handles : asked[h] \subseteq hs[h].claimed \cup {i \in Interfaces : <<h, i>> \in uneven}
AutoClaimsEnd ==
  \A h \in Handles, i \in Interfaces :
    i \in hs[h].claimed \ asked[h] =>
      \/ <<h, i>> \in uneven \/ i \in unset
      \/ \E t \in Control(h) : iface[t] = i

\* Endpoints of a claimed interface are found as its current setting has them
\* (windows_assign_endpoints), except after a call on it has failed.
TablesAreTrue ==
  \A h \in Handles : \A i \in hs[h].claimed \ unset : endpoint[i] = Endpoints[i][alt[i]]

\* Files, interfaces of WinUSB and descriptors belong to an open handle or to a transfer
\* in flight, except those a failing call or composite_close has let go of.
OnlyFailuresLeak ==
  /\ \A f \in files : f[1] = Nobody \/ open[f[1]]
  /\ \A o \in objects : (open[o[1]] /\ o[2] \in hs[o[1]].api_handle) \/ <<"object", o[2]>> \in lost
  /\ \A r \in Rows : rows[r] = NoTransfer \/ fd[rows[r]] = r \/ <<"row", r>> \in lost

\* What is reported of a transfer is its own (windows_usb.c:2318-2320).
ReportedAsItself == ~wrong

Safe ==
  HeldWhileUsed /\ AskedIsKept /\ AutoClaimsEnd /\ TablesAreTrue /\ OnlyFailuresLeak /\ ReportedAsItself

\* A transfer that has ended is reported.
DoneIsReported == \A t \in Transfers : t \in Flying /\ io[t] # "pending" ~> pc[t] = "idle"
=============================================================================
