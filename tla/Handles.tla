------------------------------ MODULE Handles ------------------------------
(***************************************************************************)
(* The handles of i2c.c, spi.c, uart.c and can.c: an open returns a file   *)
(* descriptor to Java, after it has configured the device, every other     *)
(* call takes that int, and close closes it.  The HAL keeps no record of   *)
(* its handles: it uses and closes whatever int it is given.               *)
(*                                                                         *)
(* Abstracted: the settings of a device are one value per ioctl that sets  *)
(* them, the transfers over a handle are one kind of call, a use.          *)
(* External: the kernel.                                                   *)
(***************************************************************************)
EXTENDS FdTable

CONSTANTS Threads,          \* callers: the Java threads of the application
          Devices,          \* <<kind, number>> pairs the application names
          Existing,         \* those that exist
          Settings,         \* what an open may ask for; 0 is no baud rate
          MayOverlap(_, _), \* the pairs of calls the application lets overlap
          Failures          \* what may fail: "open", "setup"

Kinds == {"i2c", "spi", "uart", "can"}
NoDevice == <<"none", 0>>
NoCall == [op |-> "none", dev |-> NoDevice, settings |-> 0, fd |-> -1]
Opens == [op : {"open"}, dev : Devices, settings : Settings, fd : {-1}]
Handle == [dev : Devices, settings : Settings, fd : Fd]
OnHandle(op, h) == [op |-> op, dev |-> h.dev, settings |-> h.settings, fd |-> h.fd]
Call == Opens \cup {OnHandle(op, h) : op \in {"use", "close"}, h \in Handle}

HandlesAssumption ==
  /\ Owners = Threads /\ Devices \subseteq Kinds \X Nat /\ Existing \subseteq Devices
  /\ Settings \subseteq Nat

VARIABLES
  fds,        \* the descriptor table
  conf,       \* per device: what its three settings are
  handles,    \* what Java has been given and has not closed
  \* per thread: its place in the code, its call, its descriptor, the setting it
  \* is about to make, its result
  pc, call, fd, step, ret,
  current,    \* history: the handles of devices that no open has touched since
  abandoned   \* history: the descriptors of opens that have failed

locals == <<call, fd, step, ret>>
vars == <<fds, conf, handles, pc, locals, current, abandoned>>

TypeOK ==
  /\ fds \in [Fd -> [kind : {"free", "other"} \cup Kinds, id : Nat, owner : Owners \cup {NoOwner}]]
  /\ conf \in [Devices -> [1 .. 3 -> Settings \cup {0}]]
  /\ handles \subseteq Handle
  /\ pc \in [Threads -> {"idle", "open", "spi", "uart", "can", "bind", "use", "close", "return"}]
  /\ call \in [Threads -> Call \cup {NoCall}]
  /\ fd \in [Threads -> Fd \cup {-1}]
  /\ step \in [Threads -> 1 .. 3]
  /\ ret \in [Threads -> Fd \cup {-1}]
  /\ current \subseteq Handle
  /\ abandoned \subseteq Fd

Init ==
  /\ fds = [f \in Fd |-> IF f = 0 THEN File("other", 0, NoOwner) ELSE Free]
  /\ conf = [d \in Devices |-> [i \in 1 .. 3 |-> 0]]
  /\ handles = {}
  /\ pc = [t \in Threads |-> "idle"]
  /\ call = [t \in Threads |-> NoCall]
  /\ fd = [t \in Threads |-> -1]
  /\ step = [t \in Threads |-> 1]
  /\ ret = [t \in Threads |-> 0]
  /\ current = {}
  /\ abandoned = {}

-----------------------------------------------------------------------------
Goto(t, place) == pc' = [pc EXCEPT ![t] = place]
Answer(t, r) == Goto(t, "return") /\ ret' = [ret EXCEPT ![t] = r]

Dev(t) == call[t].dev
Kind(t) == Dev(t)[1]

\* The application passes handles that it has been given and has not closed.
Enter(t, c) ==
  /\ pc[t] = "idle"
  /\ \A u \in Threads : pc[u] # "idle" => MayOverlap(c, call[u]) /\ MayOverlap(call[u], c)
  /\ call' = [call EXCEPT ![t] = c]
  /\ Goto(t, c.op)
  /\ handles' = IF c.op = "close" THEN {h \in handles : h.fd # c.fd} ELSE handles
  /\ current' = CASE c.op = "open" -> {h \in current : h.dev # c.dev}
                  [] c.op = "use" -> current
                  [] c.op = "close" -> {h \in current : h.fd # c.fd}
  /\ UNCHANGED <<fds, conf, fd, step, ret, abandoned>>

\* open of the device file, which must exist; a socket is not tied to a device.
\* canOpenRaw goes on with -1, the others return it.
OpenDevice(t) ==
  /\ pc[t] = "open"
  /\ \/ /\ Kind(t) # "can" => Dev(t) \in Existing
        /\ \E f \in Fd :
             /\ IsLowestFree(fds, f)
             /\ fds' = [fds EXCEPT ![f] = File(Kind(t), Dev(t)[2], t)]
             /\ fd' = [fd EXCEPT ![t] = f]
             /\ IF Kind(t) = "i2c" THEN Answer(t, f) ELSE Goto(t, Kind(t)) /\ UNCHANGED ret
     \/ /\ Full(fds) \/ "open" \in Failures \/ (Kind(t) # "can" /\ Dev(t) \notin Existing)
        /\ IF Kind(t) = "can" THEN Goto(t, "can") /\ UNCHANGED ret ELSE Answer(t, -1)
        /\ UNCHANGED <<fds, fd>>
  /\ UNCHANGED <<conf, handles, call, step, current, abandoned>>


\* return -1, without a close.
Abandon(t) ==
  /\ Answer(t, -1)
  /\ abandoned' = abandoned \cup (Fd \cap {fd[t]})
  /\ UNCHANGED fds

\* Mutant: the bits per word are forgotten.
SpiSet_TwoSettings(t) ==
  /\ pc[t] = "spi"
  /\ conf' = [conf EXCEPT ![Dev(t)][step[t]] = call[t].settings]
  /\ IF step[t] = 2 THEN Answer(t, fd[t]) /\ UNCHANGED step
                    ELSE step' = [step EXCEPT ![t] = @ + 1] /\ UNCHANGED <<pc, ret>>
  /\ UNCHANGED <<fds, handles, call, fd, current, abandoned>>

\* spiSetMode, spiSetSpeed, spiSetBitsPerWord: one setting of the device each, an
\* ioctl that writes it and one that reads it back, which may fail too.
SpiSet(t) ==
  /\ pc[t] = "spi"
  /\ \/ /\ conf' = [conf EXCEPT ![Dev(t)][step[t]] = call[t].settings]
        /\ IF step[t] = 3 THEN Answer(t, fd[t]) /\ UNCHANGED step
                          ELSE step' = [step EXCEPT ![t] = @ + 1] /\ UNCHANGED <<pc, ret>>
        /\ UNCHANGED <<fds, abandoned>>
     \/ /\ "setup" \in Failures
        /\ \/ conf' = [conf EXCEPT ![Dev(t)][step[t]] = call[t].settings]
           \/ UNCHANGED conf
        /\ Abandon(t)
        /\ UNCHANGED step
  /\ UNCHANGED <<handles, call, fd, current>>

\* baudrate, tcgetattr and tcsetattr: all the settings of the line at once.
UartSet(t) ==
  /\ pc[t] = "uart"
  /\ \/ /\ call[t].settings # 0
        /\ conf' = [conf EXCEPT ![Dev(t)] = [i \in 1 .. 3 |-> call[t].settings]]
        /\ Answer(t, fd[t])
        /\ UNCHANGED <<fds, abandoned>>
     \/ /\ call[t].settings = 0 \/ "setup" \in Failures
        /\ Abandon(t)
        /\ UNCHANGED conf
  /\ UNCHANGED <<handles, call, fd, step, current>>

\* ioctl(SIOCGIFINDEX) looks the interface up, on whatever socket returned.
CanLocate(t) ==
  /\ pc[t] = "can"
  /\ \/ /\ fd[t] # -1 /\ Dev(t) \in Existing
        /\ Goto(t, "bind")
        /\ UNCHANGED <<fds, ret, abandoned>>
     \/ /\ fd[t] = -1 \/ Dev(t) \notin Existing
        /\ Abandon(t)
  /\ UNCHANGED <<conf, handles, call, fd, step, current>>

CanBind(t) ==
  /\ pc[t] = "bind"
  /\ \/ Answer(t, fd[t]) /\ UNCHANGED <<fds, abandoned>>
     \/ "setup" \in Failures /\ Abandon(t)
  /\ UNCHANGED <<conf, handles, call, fd, step, current>>

\* A transfer, an ioctl, a read or a write on the handle.
Use(t) ==
  /\ pc[t] = "use"
  /\ Goto(t, "return")
  /\ UNCHANGED <<fds, conf, handles, locals, current, abandoned>>

\* Mutants: the close is forgotten; the file is closed twice.
CloseHandle_Forgotten(t) ==
  pc[t] = "close" /\ Goto(t, "return") /\ UNCHANGED <<fds, conf, handles, locals, current, abandoned>>
CloseHandle_Twice(t) ==
  /\ pc[t] = "close"
  /\ fds' = Closed(fds, call[t].fd)
  /\ \/ Goto(t, "return")
     \/ UNCHANGED pc
  /\ UNCHANGED <<conf, handles, locals, current, abandoned>>

\* i2cClose, spiClose, uartClose, canClose.
CloseHandle(t) ==
  /\ pc[t] = "close"
  /\ fds' = Closed(fds, call[t].fd)
  /\ Goto(t, "return")
  /\ UNCHANGED <<conf, handles, locals, current, abandoned>>

\* Java gets the result of an open, a handle unless it is -1.
Leave(t) ==
  /\ pc[t] = "return"
  /\ LET new == IF call[t].op = "open" /\ ret[t] # -1
                THEN {[dev |-> Dev(t), settings |-> call[t].settings, fd |-> ret[t]]}
                ELSE {}
     IN handles' = handles \cup new /\ current' = current \cup new
  /\ Goto(t, "idle")
  /\ call' = [call EXCEPT ![t] = NoCall]
  /\ fd' = [fd EXCEPT ![t] = -1]
  /\ step' = [step EXCEPT ![t] = 1]
  /\ ret' = [ret EXCEPT ![t] = 0]
  /\ UNCHANGED <<fds, conf, abandoned>>

\* The rest of the process opens and closes descriptors of its own; stdin stays.
OtherOpen ==
  /\ \E f \in Fd : IsLowestFree(fds, f) /\ fds' = [fds EXCEPT ![f] = File("other", 0, NoOwner)]
  /\ UNCHANGED <<conf, handles, pc, locals, current, abandoned>>

OtherClose ==
  /\ \E f \in Fd \ {0} : fds[f].kind = "other" /\ fds' = Closed(fds, f)
  /\ UNCHANGED <<conf, handles, pc, locals, current, abandoned>>

Proceed(t) ==
  OpenDevice(t) \/ SpiSet(t) \/ UartSet(t) \/ CanLocate(t) \/ CanBind(t) \/ Use(t)
    \/ CloseHandle(t) \/ Leave(t)

EnterAny(t) ==
  \/ \E c \in Opens : Enter(t, c)
  \/ \E h \in handles, op \in {"use", "close"} : Enter(t, OnHandle(op, h))

Next ==
  \/ \E t \in Threads : EnterAny(t) \/ Proceed(t)
  \/ OtherOpen \/ OtherClose

Spec == Init /\ [][Next]_vars

-----------------------------------------------------------------------------
\* What the theorems ask of the application: a handle is not closed while it is in
\* use, and one thread at a time opens a device.
NotClosedInUse ==
  \A c \in Call, d \in Call :
    MayOverlap(c, d) /\ c.op = "close" /\ d.op = "use" => c.fd # d.fd
OpenedByOne ==
  \A c \in Call, d \in Call :
    MayOverlap(c, d) /\ c.op = "open" /\ d.op = "open" => c.dev # d.dev
-----------------------------------------------------------------------------
Names(f, dev) == fds[f].kind = dev[1] /\ fds[f].id = dev[2]

\* A handle in the hands of Java, and one in use, names the device it was opened
\* for, and no two handles are the same int: as long as the application closes
\* each handle once and not while it is in use, no call of the HAL closes it, or
\* gives it away, before (uart.c:92-115, spi.c:234-248, can.c:70-82, i2c.c:180).
HandlesNameTheirDevices ==
  /\ \A h \in handles : Names(h.fd, h.dev)
  /\ \A g \in handles, h \in handles : g.fd = h.fd => g = h
  /\ \A t \in Threads : pc[t] = "use" => Names(call[t].fd, Dev(t))

InProgress == {fd[t] : t \in Threads} \cup {call[t].fd : t \in {u \in Threads : pc[u] = "close"}}

\* A descriptor of a device that neither Java nor a call in progress knows is
\* what an open has left behind that failed after it had the file
\* (uart.c:93-113, spi.c:234-236, can.c:70-80); nothing else is lost.
OnlyFailedOpensLeak ==
  \A f \in Fd : fds[f].kind \in Kinds =>
    f \in abandoned \cup InProgress \cup {h.fd : h \in handles}

\* A device has all the settings its open has asked for, as long as Java holds
\* the handle and no other open of the device is tried: opens of other devices,
\* failed ones included, do not disturb it (spi.c:234-236, uart.c:104-110).
ConfiguredAsAsked ==
  \A h \in current : h.dev[1] \in {"spi", "uart"} =>
    \A i \in 1 .. 3 : conf[h.dev][i] = h.settings
=============================================================================
