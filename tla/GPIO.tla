-------------------------------- MODULE GPIO --------------------------------
(***************************************************************************)
(* gpio.c: openGPIO, readGPIO, writeGPIO and closeGPIO, called by the      *)
(* threads of an application that share the static variables of the file.  *)
(* No function takes a lock, so every access to a static variable, to a    *)
(* register and every system call is a step of its own, and the steps of   *)
(* different threads interleave.                                           *)
(*                                                                         *)
(* Abstracted: a register is the set of the masks of its bits that are 1;  *)
(* fsBuf is a PathBuffer, a file is what FdTable says.  External: the      *)
(* kernel and the registers.                                               *)
(***************************************************************************)
EXTENDS GpioPins, FdTable, PathBuffer

CONSTANTS Threads,          \* callers: the Java threads of the application
          Pins,             \* <<header, pin>> pairs they pass, valid or not
          Calls,            \* the calls they make
          MayOverlap(_, _), \* the pairs of calls the application lets overlap
          Inputs,           \* the lines whose direction is "in"
          Failures          \* the system calls that may fail

Banks == 0 .. 3
Ops == {"open", "read", "write", "close"}
\* arg is useMmap of openGPIO and value of writeGPIO.
Call == [op : Ops, pin : Pins, arg : BOOLEAN]
NoCall == [op |-> "none", pin |-> <<0, 0>>, arg |-> FALSE]

ASSUME CallsAssumption == Owners = Threads /\ Calls \subseteq Call

ASSUME FailuresAssumption == Failures \subseteq {"devmem", "mmap", "export", "read"}

PinCheck(c) == Checked(c.pin[1], c.pin[2])
Pin(c) == Info(c.pin[1], c.pin[2])

\* The entries of the pins that are GPIOs, the lines they name, the numbers
\* under which sysfs exports them.
Entries == {Info(p[1], p[2]) : p \in {q \in Pins : Checked(q[1], q[2]) = "gpio"}}
Masks == {e.mask : e \in Entries}
Ids == {e.id : e \in Entries}
LineOf(e) == <<e.bank, e.mask>>
Lines == {LineOf(e) : e \in Entries}

\* What the tables must satisfy for the pins in use (MCGpioPins checks it for
\* all of them): the sysfs number and the register bit of a pin agree.
ASSUME PinsAssumption ==
  /\ \A e \in Entries : e.bank \in Banks /\ e.id \in Nat \ {0} /\ e.mask \in Int \ {0}
  /\ \A e \in Entries : SysfsLine(e.id) = LineOf(e)
  /\ Inputs \subseteq Lines

VARIABLES
  \* the static variables of gpio.c
  initialized, usingMmap, fdGPIO,
  mapGPIO,    \* per bank: "null", "mapped" or "failed" ((uint32_t *) -1)
  fsBuf,      \* a PathBuffer; the path of a line is its sysfs number
  \* the outside: the descriptor table, the DATA_OUT registers, the driven inputs
  fds, dataOut, driven,
  \* per thread: its place in the code, its call and its local variables
  pc, call, fd, reg, i, ret,
  took        \* history: the call has read or written its line

statics == <<initialized, usingMmap, fdGPIO, mapGPIO, fsBuf>>
outside == <<fds, dataOut, driven>>
locals == <<call, fd, reg, i, ret, took>>
vars == <<statics, outside, pc, locals>>

FilePcs == {"fsread", "fswrite", "fsclose"}
OpenPcs == {"mode", "devmem", "map", "done"}
MmapPcs == {"dataIn", "load", "store"}
Pc == {"idle", "start", "select", "format", "formatting", "fsopen", "closefd", "clear",
       "return", "dead"} \cup OpenPcs \cup MmapPcs \cup FilePcs

StaticsOK ==
  /\ initialized \in BOOLEAN /\ usingMmap \in BOOLEAN
  /\ fdGPIO \in Fd \cup {-1}
  /\ mapGPIO \in [Banks -> {"null", "mapped", "failed"}]
  /\ fsBuf \in [paths : SUBSET Ids, mixed : BOOLEAN]

OutsideOK ==
  /\ fds \in [Fd -> [kind : {"free", "other", "devmem", "value"}, id : Ids \cup {0},
                     owner : Owners \cup {NoOwner}]]
  /\ dataOut \in [Banks -> SUBSET Masks]
  /\ driven \subseteq Inputs

LocalsOK ==
  /\ pc \in [Threads -> Pc]
  /\ call \in [Threads -> Call \cup {NoCall}]
  /\ fd \in [Threads -> Fd \cup {-1}]
  /\ reg \in [Threads -> SUBSET Masks]
  /\ i \in [Threads -> Banks]
  /\ ret \in [Threads -> Masks \cup {0, 1}]
  /\ took \in [Threads -> BOOLEAN]

TypeOK == StaticsOK /\ OutsideOK /\ LocalsOK

Init ==
  /\ initialized = FALSE /\ usingMmap = FALSE /\ fdGPIO = 0
  /\ mapGPIO = [b \in Banks |-> "null"]
  /\ fsBuf = Empty
  /\ fds = [f \in Fd |-> IF f = 0 THEN File("other", 0, NoOwner) ELSE Free]
  /\ dataOut = [b \in Banks |-> {}]
  /\ driven = {}
  /\ pc = [t \in Threads |-> "idle"]
  /\ call = [t \in Threads |-> NoCall]
  /\ fd = [t \in Threads |-> -1]
  /\ reg = [t \in Threads |-> {}]
  /\ i = [t \in Threads |-> 0]
  /\ ret = [t \in Threads |-> 0]
  /\ took = [t \in Threads |-> FALSE]

-----------------------------------------------------------------------------
Goto(t, place) == pc' = [pc EXCEPT ![t] = place]

Answer(t, r) == Goto(t, "return") /\ ret' = [ret EXCEPT ![t] = r]

\* Mutant: -1 for an error.
GivenUp_MinusOne(t) == -1

\* What a read (a write) returns when it gives up.
GivenUp(t) == IF call[t].op = "write" THEN 1 ELSE 0

\* A thread calls the HAL; the application sees to it that the call overlaps
\* only the calls it lets it overlap.
Enter(t, c) ==
  /\ pc[t] = "idle"
  /\ \A u \in Threads : pc[u] # "idle" => MayOverlap(c, call[u]) /\ MayOverlap(call[u], c)
  /\ call' = [call EXCEPT ![t] = c]
  /\ Goto(t, "start")
  /\ UNCHANGED <<statics, outside, fd, reg, i, ret, took>>

Leave(t) ==
  /\ pc[t] = "return"
  /\ Goto(t, "idle")
  /\ call' = [call EXCEPT ![t] = NoCall]
  /\ fd' = [fd EXCEPT ![t] = -1]
  /\ reg' = [reg EXCEPT ![t] = {}]
  /\ i' = [i EXCEPT ![t] = 0]
  /\ ret' = [ret EXCEPT ![t] = 0]
  /\ took' = [took EXCEPT ![t] = FALSE]
  /\ UNCHANGED <<statics, outside>>

-----------------------------------------------------------------------------
\* openGPIO.  Have we already picked a GPIO access method?
OpenStart(t) ==
  /\ pc[t] = "start" /\ call[t].op = "open"
  /\ IF initialized THEN Answer(t, 1) ELSE Goto(t, "mode") /\ UNCHANGED ret
  /\ UNCHANGED <<statics, outside, call, fd, reg, i, took>>

\* Mutant: initialized is set before the banks are mapped.
OpenMode_SetsInitialized(t) ==
  /\ pc[t] = "mode"
  /\ usingMmap' = call[t].arg /\ initialized' = TRUE
  /\ Goto(t, IF call[t].arg THEN "devmem" ELSE "done")
  /\ UNCHANGED <<fdGPIO, mapGPIO, fsBuf, outside, locals>>

\* usingMmap = useMmap, and the test of what has just been assigned.
OpenMode(t) ==
  /\ pc[t] = "mode"
  /\ usingMmap' = call[t].arg
  /\ Goto(t, IF call[t].arg THEN "devmem" ELSE "done")
  /\ UNCHANGED <<initialized, fdGPIO, mapGPIO, fsBuf, outside, locals>>

\* open("/dev/mem"): its result is not looked at.
OpenDevMem(t) ==
  /\ pc[t] = "devmem"
  /\ \/ \E f \in Fd : /\ IsLowestFree(fds, f)
                      /\ fds' = [fds EXCEPT ![f] = File("devmem", 0, t)]
                      /\ fdGPIO' = f
     \/ /\ "devmem" \in Failures \/ Full(fds)
        /\ fdGPIO' = -1
        /\ UNCHANGED fds
  /\ i' = [i EXCEPT ![t] = 0]
  /\ Goto(t, "map")
  /\ UNCHANGED <<initialized, usingMmap, mapGPIO, fsBuf, dataOut, driven, call, fd, reg, ret, took>>

Mappable == fdGPIO \in Fd /\ fds[fdGPIO].kind = "devmem"

\* One turn of the loop: mmap a bank, give up at the first failure.
OpenMapBank(t) ==
  /\ pc[t] = "map"
  /\ \/ /\ Mappable
        /\ mapGPIO' = [mapGPIO EXCEPT ![i[t]] = "mapped"]
        /\ \/ i[t] = 3 /\ Goto(t, "done") /\ UNCHANGED i
           \/ i[t] # 3 /\ i' = [i EXCEPT ![t] = @ + 1] /\ UNCHANGED pc
        /\ UNCHANGED ret
     \/ /\ ~Mappable \/ "mmap" \in Failures
        /\ mapGPIO' = [mapGPIO EXCEPT ![i[t]] = "failed"]
        /\ Answer(t, 1)
        /\ UNCHANGED i
  /\ UNCHANGED <<initialized, usingMmap, fdGPIO, fsBuf, outside, call, fd, reg, took>>

OpenDone(t) ==
  /\ pc[t] = "done"
  /\ initialized' = TRUE
  /\ Answer(t, 0)
  /\ UNCHANGED <<usingMmap, fdGPIO, mapGPIO, fsBuf, outside, call, fd, reg, i, took>>

-----------------------------------------------------------------------------
\* readGPIO, writeGPIO: the test of initialized and of the arguments.
AccessStart(t) ==
  /\ pc[t] = "start" /\ call[t].op \in {"read", "write"}
  /\ CASE ~initialized \/ PinCheck(call[t]) = "bad_pin" -> Answer(t, 0)
       [] initialized /\ PinCheck(call[t]) \in {"bad_header", "not_gpio"} -> Answer(t, GivenUp(t))
       [] initialized /\ PinCheck(call[t]) = "gpio" -> Goto(t, "select") /\ UNCHANGED ret
  /\ UNCHANGED <<statics, outside, call, fd, reg, i, took>>

AccessSelect(t) ==
  /\ pc[t] = "select" /\ call[t].op \in {"read", "write"}
  /\ Goto(t, CASE ~usingMmap -> "format"
               [] usingMmap /\ call[t].op = "read" -> "dataIn"
               [] usingMmap /\ call[t].op = "write" -> "load")
  /\ UNCHANGED <<statics, outside, locals>>

\* DATA_IN: the level of the wire, which an output line drives itself.
DataIn(b) == {m \in Masks : IF <<b, m>> \in Inputs THEN <<b, m>> \in driven ELSE m \in dataOut[b]}

Mapped(t) == mapGPIO[Pin(call[t]).bank] = "mapped"

\* Mutant: the offset of DATA_OUT.
ReadDataIn_DataOut(t) ==
  /\ pc[t] = "dataIn" /\ Mapped(t)
  /\ LET e == Pin(call[t]) IN Answer(t, IF e.mask \in dataOut[e.bank] THEN e.mask ELSE 0)
  /\ took' = [took EXCEPT ![t] = TRUE]
  /\ UNCHANGED <<statics, outside, call, fd, reg, i>>

\* readGPIOMmap returns the masked register.
ReadDataIn(t) ==
  /\ pc[t] = "dataIn" /\ Mapped(t)
  /\ LET e == Pin(call[t]) IN Answer(t, IF e.mask \in DataIn(e.bank) THEN e.mask ELSE 0)
  /\ took' = [took EXCEPT ![t] = TRUE]
  /\ UNCHANGED <<statics, outside, call, fd, reg, i>>

\* writeGPIOMmap: the register is loaded into a local ...
LoadDataOut(t) ==
  /\ pc[t] = "load" /\ Mapped(t)
  /\ reg' = [reg EXCEPT ![t] = dataOut[Pin(call[t]).bank]]
  /\ Goto(t, "store")
  /\ UNCHANGED <<statics, outside, call, fd, i, ret, took>>

\* Mutants: the other bits are lost; no bit is cleared.
Modified_OneBit(bits, mask, value) == IF value THEN {mask} ELSE {}
Modified_OnlySets(bits, mask, value) == bits \cup {mask}

\* The bits of a register once one of them is set or cleared.
Modified(bits, mask, value) == IF value THEN bits \cup {mask} ELSE bits \ {mask}

\* ... and stored back whole, with one bit changed.
StoreDataOut(t) ==
  /\ pc[t] = "store" /\ Mapped(t)
  /\ LET e == Pin(call[t])
     IN dataOut' = [dataOut EXCEPT ![e.bank] = Modified(reg[t], e.mask, call[t].arg)]
  /\ took' = [took EXCEPT ![t] = TRUE]
  /\ Answer(t, 0)
  /\ UNCHANGED <<statics, fds, driven, call, fd, reg, i>>

\* An access through a bank that is not mapped kills the process.
Fault(t) ==
  /\ pc[t] \in MmapPcs /\ ~Mapped(t)
  /\ pc' = [u \in Threads |-> "dead"]
  /\ UNCHANGED <<statics, outside, locals>>

-----------------------------------------------------------------------------
\* readGPIOFS, writeGPIOFS: snprintf prints the path of the pin into fsBuf ...
FormatStart(t) ==
  /\ pc[t] = "format"
  /\ LET writers == {u \in Threads : pc[u] = "formatting"}
     IN fsBuf' = Begun(fsBuf, Pin(call[t]).id, {Pin(call[u]).id : u \in writers})
  /\ Goto(t, "formatting")
  /\ UNCHANGED <<initialized, usingMmap, fdGPIO, mapGPIO, outside, locals>>

\* ... and has printed it.
FormatEnd(t) ==
  /\ pc[t] = "formatting"
  /\ fsBuf' = Ended(fsBuf, Pin(call[t]).id)
  /\ Goto(t, "fsopen")
  /\ UNCHANGED <<initialized, usingMmap, fdGPIO, mapGPIO, outside, locals>>

\* open(fsBuf): whatever path the buffer spells at this moment.
FsOpen(t) ==
  /\ pc[t] = "fsopen"
  /\ \/ \E id \in Spelled(fsBuf, Ids), f \in Fd :
          /\ IsLowestFree(fds, f)
          /\ fds' = [fds EXCEPT ![f] = File("value", id, t)]
          /\ fd' = [fd EXCEPT ![t] = f]
          /\ Goto(t, IF call[t].op = "read" THEN "fsread" ELSE "fswrite")
          /\ UNCHANGED ret
     \/ /\ Torn(fsBuf) \/ "export" \in Failures \/ Full(fds)
        /\ Answer(t, GivenUp(t))
        /\ UNCHANGED <<fds, fd>>
  /\ UNCHANGED <<statics, dataOut, driven, call, reg, i, took>>

\* The line whose file a descriptor names at this moment.
LineAt(f) == SysfsLine(fds[f].id)

\* read(fd, &ch, 1), 0 when it fails; a descriptor that has come to name
\* somebody else's file reads whatever is there.
FsRead(t) ==
  /\ pc[t] = "fsread"
  /\ \/ /\ fds[fd[t]].kind = "value"
        /\ ret' = [ret EXCEPT ![t] = IF LineAt(fd[t])[2] \in DataIn(LineAt(fd[t])[1]) THEN 1 ELSE 0]
        /\ took' = [took EXCEPT ![t] = TRUE]
     \/ /\ fds[fd[t]].kind # "value" \/ "read" \in Failures
        /\ \E r \in IF fds[fd[t]].kind \in {"other", "devmem"} THEN {0, 1} ELSE {0} :
             ret' = [ret EXCEPT ![t] = r]
        /\ UNCHANGED took
  /\ Goto(t, "fsclose")
  /\ UNCHANGED <<statics, outside, call, fd, reg, i>>

\* write(fd, "1", 2): the kernel refuses it for an input line, and then the
\* function returns without closing the file.
FsWrite(t) ==
  /\ pc[t] = "fswrite"
  /\ \/ /\ fds[fd[t]].kind = "value" /\ LineAt(fd[t]) \notin Inputs
        /\ dataOut' = [dataOut EXCEPT ![LineAt(fd[t])[1]] =
                         Modified(@, LineAt(fd[t])[2], call[t].arg)]
        /\ took' = [took EXCEPT ![t] = TRUE]
        /\ Goto(t, "fsclose")
        /\ UNCHANGED ret
     \/ /\ fds[fd[t]].kind \in {"other", "devmem"}
        /\ Goto(t, "fsclose")
        /\ UNCHANGED <<dataOut, ret, took>>
     \/ /\ fds[fd[t]].kind = "value" => LineAt(fd[t]) \in Inputs
        /\ Answer(t, 1)
        /\ UNCHANGED <<dataOut, took>>
  /\ UNCHANGED <<statics, fds, driven, call, fd, reg, i>>

\* Mutant: the close is forgotten.
FsClose_Forgotten(t) == pc[t] = "fsclose" /\ Goto(t, "return") /\ UNCHANGED <<statics, outside, locals>>

FsClose(t) ==
  /\ pc[t] = "fsclose"
  /\ fds' = Closed(fds, fd[t])
  /\ Goto(t, "return")
  /\ UNCHANGED <<statics, dataOut, driven, locals>>

-----------------------------------------------------------------------------
\* closeGPIO.
CloseStart(t) ==
  /\ pc[t] = "start" /\ call[t].op = "close"
  /\ Goto(t, IF initialized THEN "select" ELSE "clear")
  /\ UNCHANGED <<statics, outside, locals>>

\* Mutants: fdGPIO is closed in both modes; in file system mode only.
CloseSelect_Always(t) ==
  /\ pc[t] = "select" /\ call[t].op = "close"
  /\ Goto(t, "closefd")
  /\ UNCHANGED <<statics, outside, locals>>
CloseSelect_FileSystem(t) ==
  /\ pc[t] = "select" /\ call[t].op = "close"
  /\ Goto(t, IF usingMmap THEN "clear" ELSE "closefd")
  /\ UNCHANGED <<statics, outside, locals>>

CloseSelect(t) ==
  /\ pc[t] = "select" /\ call[t].op = "close"
  /\ Goto(t, IF usingMmap THEN "closefd" ELSE "clear")
  /\ UNCHANGED <<statics, outside, locals>>

CloseFd(t) ==
  /\ pc[t] = "closefd"
  /\ fds' = Closed(fds, fdGPIO)
  /\ Goto(t, "clear")
  /\ UNCHANGED <<statics, dataOut, driven, locals>>

CloseClear(t) ==
  /\ pc[t] = "clear"
  /\ initialized' = FALSE
  /\ Goto(t, "return")
  /\ UNCHANGED <<usingMmap, fdGPIO, mapGPIO, fsBuf, outside, locals>>

-----------------------------------------------------------------------------
\* The rest of the process opens and closes descriptors too; stdin stays.
Alive == \A t \in Threads : pc[t] # "dead"

OtherOpen ==
  /\ Alive
  /\ \E f \in Fd : IsLowestFree(fds, f) /\ fds' = [fds EXCEPT ![f] = File("other", 0, NoOwner)]
  /\ UNCHANGED <<statics, dataOut, driven, pc, locals>>

OtherClose ==
  /\ Alive
  /\ \E f \in Fd \ {0} : fds[f].kind = "other" /\ fds' = Closed(fds, f)
  /\ UNCHANGED <<statics, dataOut, driven, pc, locals>>

\* The world drives an input line.
Drive(line) ==
  /\ driven' = IF line \in driven THEN driven \ {line} ELSE driven \cup {line}
  /\ UNCHANGED <<statics, fds, dataOut, pc, locals>>

Open(t) == OpenStart(t) \/ OpenMode(t) \/ OpenDevMem(t) \/ OpenMapBank(t) \/ OpenDone(t)
Access(t) == AccessStart(t) \/ AccessSelect(t)
Mmap(t) == ReadDataIn(t) \/ LoadDataOut(t) \/ StoreDataOut(t) \/ Fault(t)
FileSystem(t) == FormatStart(t) \/ FormatEnd(t) \/ FsOpen(t) \/ FsRead(t) \/ FsWrite(t) \/ FsClose(t)
Close(t) == CloseStart(t) \/ CloseSelect(t) \/ CloseFd(t) \/ CloseClear(t)

Proceed(t) == Open(t) \/ Access(t) \/ Mmap(t) \/ FileSystem(t) \/ Close(t) \/ Leave(t)

Next ==
  \/ \E t \in Threads : (\E c \in Calls : Enter(t, c)) \/ Proceed(t)
  \/ OtherOpen \/ OtherClose
  \/ \E line \in Inputs : Drive(line)

Spec == Init /\ [][Next]_vars

-----------------------------------------------------------------------------
\* Nobody touches a register through a bank that is not mapped (gpio.c:212, 231):
\* initialized and usingMmap, tested at different moments, never let a call
\* through to a mapping that openGPIO has not made.
NoWildAccess == \A t \in Threads : pc[t] # "dead"

\* The value file a read or write works on is the one it opened itself: no other
\* call has closed it under its feet and had the number reused (gpio.c:267, 298,
\* 305 against the close of fdGPIO at gpio.c:399).
PrivateFd ==
  \A t \in Threads : pc[t] \in FilePcs =>
    fd[t] \in Fd /\ fds[fd[t]].kind = "value" /\ fds[fd[t]].owner = t

Leaked == {f \in Fd : fds[f].kind = "value" /\ ~\E t \in Threads : pc[t] \in FilePcs /\ fd[t] = f}

\* A value file that no call will close any more is one the kernel has refused
\* to write, a line that is an input (gpio.c:302); no other way through
\* readGPIOFS and writeGPIOFS, and no interleaving, loses a descriptor.  (A
\* process that ends, at an access that overtakes the mapping, loses all.)
OnlyRefusedWritesLeak == NoWildAccess => \A f \in Leaked : LineAt(f) \in Inputs

Quiet == \A t \in Threads : pc[t] = "idle"

\* When nobody is in a call, /dev/mem is open exactly when the memory map is in
\* use, once, and fdGPIO names it (gpio.c:181, 398-400), however often the
\* application has opened and closed the GPIOs in either mode.
DevMemHeldWhileOpen ==
  Quiet => {f \in Fd : fds[f].kind = "devmem"} =
             (IF initialized /\ usingMmap THEN {fdGPIO} ELSE {})

\* The descriptors of the other components are never closed by a step of the
\* GPIO code: a step that closes one leaves every thread where it is (gpio.c:399).
ForeignFdsKept ==
  [][\A f \in Fd : fds[f].kind = "other" /\ fds'[f] # fds[f] => UNCHANGED pc]_vars

\* A write in progress asks for this bit to become high or low.
Asked(b, m, high) ==
  \E t \in Threads : /\ call[t].op = "write" /\ LineOf(Pin(call[t])) = <<b, m>>
                     /\ call[t].arg = high

ChangesAreAsked ==
  \A b \in Banks, m \in Masks :
    (m \in dataOut[b]) # (m \in dataOut'[b]) => Asked(b, m, m \in dataOut'[b])

\* A DATA_OUT bit changes only to the value that a writeGPIO in progress has
\* asked for on that very line (gpio.c:231-243, 289-300): no lost update between
\* two pins of a bank, no write through a path that another thread has formatted.
OnlyAskedLinesChange == [][ChangesAreAsked]_vars

-----------------------------------------------------------------------------
\* The abstract lines: the level of every wire, and how far each call has come.
NoLine == <<0, 0>>
High == {l \in Lines : l[2] \in DataIn(l[1])}

AbstractOp(t) ==
  IF call[t].op \notin {"read", "write"} \/ PinCheck(call[t]) # "gpio"
  THEN [phase |-> "idle", kind |-> "none", line |-> NoLine, val |-> FALSE]
  ELSE [phase |-> CASE took[t] -> "taken"
                    [] ~took[t] /\ pc[t] = "return" -> "refused"
                    [] OTHER -> "pending",
        kind |-> call[t].op,
        line |-> LineOf(Pin(call[t])),
        val |-> IF call[t].op = "write" THEN call[t].arg ELSE took[t] /\ ret[t] # 0]

Abstract == INSTANCE AtomicLines WITH level <- High, op <- [t \in Threads |-> AbstractOp(t)]

\* Every call of a valid pin is atomic: a read returns the level its line had,
\* and a write sets its line, at one instant inside the call (gpio.c:207-307).
ImplementsAtomicLines == Abstract!Spec

-----------------------------------------------------------------------------
\* The disciplines under which an application gets what it expects: what the
\* theorems of GPIO_proofs ask of the calls that may overlap.
Together(c, d) == MayOverlap(c, d) /\ MayOverlap(d, c)

\* A call to openGPIO overlaps nothing but calls to closeGPIO.
OpensExclude == \A c, d \in Calls : Together(c, d) /\ c.op = "open" => d.op = "close"

\* One openGPIO or closeGPIO at a time.
OpensAndClosesExclude ==
  \A c, d \in Calls : Together(c, d) => ~(c.op \in {"open", "close"} /\ d.op \in {"open", "close"})

\* The file system only, as through the Java bindings (jni_wrapper.c:31); the
\* memory map only.
FileSystemOnly == \A c \in Calls : c.op = "open" => ~c.arg
MmapOnly == \A c \in Calls : c.op = "open" => c.arg

\* Writes that overlap are for lines of different banks.
IsWrite(c) == c.op = "write" /\ PinCheck(c) = "gpio"
WritersExclude ==
  \A c, d \in Calls : Together(c, d) /\ IsWrite(c) /\ IsWrite(d) => Pin(c).bank # Pin(d).bank

-----------------------------------------------------------------------------
\* What the comments of gpio.c say, and the code does not do.

\* gpio.c:351: "value that is required to be set on GPIO after opening
\* corresponding GPIO file".
OpensCorrespondingFile ==
  \A t \in Threads : pc[t] = "fswrite" => fds[fd[t]].id = Pin(call[t]).id
=============================================================================
