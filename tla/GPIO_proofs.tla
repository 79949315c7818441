----------------------------- MODULE GPIO_proofs -----------------------------
(***************************************************************************)
(* Theorems about GPIO, for every set of threads, pins and calls, every    *)
(* descriptor limit and every choice of failing system calls.  The         *)
(* discipline an application must keep is a premise of each theorem.       *)
(***************************************************************************)
EXTENDS GPIO, TLAPS

-----------------------------------------------------------------------------
(* The pins in use.                                                        *)

\* A pin that passes the checks has an entry with a bank, an id and a mask.
LEMMA EntryFacts ==
  ASSUME NEW c \in Calls, PinCheck(c) = "gpio"
  PROVE  /\ Pin(c) \in Entries /\ Pin(c).bank \in Banks
         /\ Pin(c).id \in Ids /\ Pin(c).mask \in Masks /\ LineOf(Pin(c)) \in Lines
<1>1. c.pin \in Pins
  BY CallsAssumption DEF Call
<1>2. Pin(c) \in Entries
  BY <1>1 DEF Pin, PinCheck, Entries
<1> QED
  BY <1>2, PinsAssumption DEF Ids, Masks, Lines

\* The file of an exported line is a line in use.
LEMMA SysfsFacts ==
  ASSUME NEW id \in Ids
  PROVE  /\ SysfsLine(id) \in Lines
         /\ SysfsLine(id)[1] \in Banks /\ SysfsLine(id)[2] \in Masks
<1>1. PICK e \in Entries : id = e.id
  BY DEF Ids
<1>2. SysfsLine(id) = <<e.bank, e.mask>>
  BY <1>1, PinsAssumption DEF LineOf
<1> QED
  BY <1>1, <1>2, PinsAssumption DEF Masks, Lines, LineOf

\* The checks have four outcomes.
LEMMA CheckFacts ==
  ASSUME NEW c
  PROVE  PinCheck(c) \in {"bad_pin", "bad_header", "not_gpio", "gpio"}
  BY DEF PinCheck, Checked

\* A call gives up at the checks, or it goes on with a GPIO pin while the GPIOs
\* are open.
LEMMA AccessStartEffect ==
  ASSUME NEW t \in Threads, AccessStart(t)
  PROVE  \/ Answer(t, 0) \/ Answer(t, 1)
         \/ initialized /\ PinCheck(call[t]) = "gpio" /\ Goto(t, "select") /\ UNCHANGED ret
  BY CheckFacts DEF AccessStart, GivenUp

-----------------------------------------------------------------------------
(* Type correctness.  A thread past the checks works on a pin that is a    *)
(* GPIO, with a descriptor it has got, and a value file has a line.        *)

AccessPcs == MmapPcs \cup FilePcs \cup {"format", "formatting", "fsopen"}

PlaceOK ==
  \A t \in Threads :
    /\ pc[t] \notin {"idle", "dead"} => call[t] \in Calls
    /\ pc[t] \in AccessPcs \/ (pc[t] = "select" /\ call[t].op # "close")
         => call[t].op \in {"read", "write"} /\ PinCheck(call[t]) = "gpio"
    /\ pc[t] \in {"load", "store", "fswrite"} => call[t].op = "write"
    /\ pc[t] \in FilePcs => fd[t] \in Fd
    /\ pc[t] \in OpenPcs => call[t].op = "open"

FilesOK == \A f \in Fd : fds[f].kind = "value" => fds[f].id \in Ids

TypeInv == TypeOK /\ PlaceOK /\ FilesOK

\* The types hold at the start.
LEMMA TypeInit == Init => TypeInv
<1> SUFFICES ASSUME Init PROVE TypeInv
  OBVIOUS
<1> USE DEF Init
<1>1. StaticsOK
  <2>1. fdGPIO \in Fd
    BY FdAssumption DEF Fd
  <2>2. mapGPIO \in [Banks -> {"null", "mapped", "failed"}]
    OBVIOUS
  <2>3. fsBuf \in [paths : SUBSET Ids, mixed : BOOLEAN]
    BY DEF Empty
  <2> QED
    BY <2>1, <2>2, <2>3 DEF StaticsOK
<1>2. OutsideOK
  <2>1. fds \in [Fd -> [kind : {"free", "other", "devmem", "value"}, id : Ids \cup {0},
                       owner : Owners \cup {NoOwner}]]
    BY DEF File, Free
  <2> QED
    BY <2>1 DEF OutsideOK
<1>3. LocalsOK
  BY DEF LocalsOK, Pc, Banks
<1>4. PlaceOK
  BY DEF PlaceOK, AccessPcs, FilePcs, OpenPcs, MmapPcs
<1>5. FilesOK
  BY DEF FilesOK, File, Free
<1> QED
  BY <1>1, <1>2, <1>3, <1>4, <1>5 DEF TypeInv, TypeOK

USE DEF TypeInv, TypeOK, StaticsOK, OutsideOK, LocalsOK, Goto, Answer, statics, outside, locals

\* A step of openGPIO keeps the types.
LEMMA TypeOpen ==
  ASSUME TypeInv, NEW t \in Threads, Open(t)
  PROVE  TypeInv'
<1> USE DEF PlaceOK, FilesOK, Pc, AccessPcs, FilePcs, OpenPcs, MmapPcs
<1>1. CASE OpenStart(t)
  <2>1. CASE initialized
    BY <1>1, <2>1 DEF OpenStart
  <2>2. CASE ~initialized
    BY <1>1, <2>2 DEF OpenStart
  <2> QED
    BY <2>1, <2>2
<1>2. CASE OpenMode(t)
  BY <1>2, CallsAssumption DEF OpenMode, Call
<1>3. CASE OpenDevMem(t)
  <2>1. UNCHANGED fds \/ \E f \in Fd : fds' = [fds EXCEPT ![f] = File("devmem", 0, t)]
    BY <1>3 DEF OpenDevMem
  <2>2. FilesOK' /\ OutsideOK'
    <3>1. CASE UNCHANGED fds
      BY <1>3, <3>1 DEF OpenDevMem
    <3>2. CASE \E f \in Fd : fds' = [fds EXCEPT ![f] = File("devmem", 0, t)]
      <4>1. File("devmem", 0, t) \in [kind : {"free", "other", "devmem", "value"}, id : Ids \cup {0},
                                      owner : Owners \cup {NoOwner}]
        BY CallsAssumption DEF File
      <4>2. File("devmem", 0, t).kind # "value"
        BY DEF File
      <4> HIDE DEF File
      <4>3. FilesOK'
        BY <3>2, <4>2
      <4>4. OutsideOK'
        BY <1>3, <3>2, <4>1 DEF OpenDevMem
      <4> QED
        BY <4>3, <4>4
    <3> QED
      BY <2>1, <3>1, <3>2
  <2>3. fdGPIO' \in Fd \cup {-1}
    BY <1>3 DEF OpenDevMem
  <2> QED
    BY <1>3, <2>2, <2>3 DEF OpenDevMem, Banks
<1>4. CASE OpenMapBank(t)
  <2>1. CASE UNCHANGED i /\ (Answer(t, 1) \/ (Goto(t, "done") /\ UNCHANGED ret))
    BY <1>4, <2>1 DEF OpenMapBank
  <2>2. CASE i' = [i EXCEPT ![t] = @ + 1] /\ i[t] # 3 /\ UNCHANGED <<pc, ret>>
    <3>1. i' \in [Threads -> Banks]
      BY <2>2 DEF Banks
    <3> QED
      BY <1>4, <2>2, <3>1 DEF OpenMapBank
  <2>3. \/ i[t] # 3 /\ i' = [i EXCEPT ![t] = @ + 1] /\ UNCHANGED <<pc, ret>>
        \/ UNCHANGED i /\ (Answer(t, 1) \/ (Goto(t, "done") /\ UNCHANGED ret))
    BY <1>4 DEF OpenMapBank
  <2> QED
    BY <2>1, <2>2, <2>3
<1>5. CASE OpenDone(t)
  BY <1>5 DEF OpenDone
<1> QED
  BY <1>1, <1>2, <1>3, <1>4, <1>5 DEF Open

\* A step on the registers, of closeGPIO, or a return keeps the types.
LEMMA TypeAccess ==
  ASSUME TypeInv, NEW t \in Threads, Access(t) \/ Mmap(t) \/ Close(t) \/ Leave(t)
  PROVE  TypeInv'
<1> USE DEF PlaceOK, FilesOK, Pc, AccessPcs, FilePcs, OpenPcs, MmapPcs
<1>1. CASE AccessStart(t)
  <2>1. CASE Answer(t, 0) \/ Answer(t, 1)
    BY <1>1, <2>1 DEF AccessStart
  <2>2. CASE PinCheck(call[t]) = "gpio" /\ Goto(t, "select") /\ UNCHANGED ret
    BY <1>1, <2>2 DEF AccessStart
  <2> QED
    BY <1>1, <2>1, <2>2, AccessStartEffect
<1>2. CASE AccessSelect(t)
  BY <1>2 DEF AccessSelect
<1>3. CASE ReadDataIn(t)
  BY <1>3, EntryFacts DEF ReadDataIn
<1>4. CASE LoadDataOut(t)
  BY <1>4, EntryFacts DEF LoadDataOut
<1>5. CASE StoreDataOut(t)
  BY <1>5, EntryFacts DEF StoreDataOut, Modified
<1>6. CASE Fault(t)
  BY <1>6 DEF Fault
<1>7. CASE CloseStart(t)
  BY <1>7 DEF CloseStart
<1>8. CASE CloseSelect(t)
  BY <1>8 DEF CloseSelect
<1>9. CASE CloseFd(t)
  BY <1>9 DEF CloseFd, Closed, Free, File
<1>10. CASE CloseClear(t)
  BY ZenonT(60), <1>10 DEF CloseClear
<1>11. CASE Leave(t)
  BY <1>11 DEF Leave, Banks
<1> QED
  BY <1>1, <1>2, <1>3, <1>4, <1>5, <1>6, <1>7, <1>8, <1>9, <1>10, <1>11
  DEF Access, Mmap, Close

\* A step of readGPIO or writeGPIO in the file system keeps the types.
LEMMA TypeFileSystem ==
  ASSUME TypeInv, NEW t \in Threads, FileSystem(t)
  PROVE  TypeInv'
<1> USE DEF PlaceOK, FilesOK, Pc, AccessPcs, FilePcs, OpenPcs, MmapPcs
<1>1. CASE FormatStart(t)
  BY <1>1, EntryFacts DEF FormatStart, Begun
<1>2. CASE FormatEnd(t)
  BY <1>2, EntryFacts DEF FormatEnd, Ended
<1>3. CASE FsOpen(t)
  <2>1. CASE \E id \in Ids, f \in Fd :
                /\ fds' = [fds EXCEPT ![f] = File("value", id, t)]
                /\ fd' = [fd EXCEPT ![t] = f]
                /\ Goto(t, IF call[t].op = "read" THEN "fsread" ELSE "fswrite")
                /\ UNCHANGED ret
    BY <1>3, <2>1, CallsAssumption DEF FsOpen, File
  <2>2. CASE Answer(t, GivenUp(t)) /\ UNCHANGED <<fds, fd>>
    BY <1>3, <2>2 DEF FsOpen, GivenUp
  <2> QED
    <3>1. Spelled(fsBuf, Ids) \subseteq Ids
      BY DEF Spelled
    <3> QED
      BY <1>3, <2>1, <2>2, <3>1 DEF FsOpen
<1>4. CASE FsRead(t)
  <2>1. /\ pc[t] = "fsread" /\ Goto(t, "fsclose")
        /\ UNCHANGED <<statics, outside, call, fd, reg, i>>
    BY <1>4 DEF FsRead
  <2>2. ret' \in [Threads -> Masks \cup {0, 1}] /\ took' \in [Threads -> BOOLEAN]
    <3>1. CASE /\ ret' = [ret EXCEPT ![t] = IF LineAt(fd[t])[2] \in DataIn(LineAt(fd[t])[1])
                                          THEN 1 ELSE 0]
               /\ took' = [took EXCEPT ![t] = TRUE]
      BY <3>1
    <3>2. CASE (\E r \in {0, 1} : ret' = [ret EXCEPT ![t] = r]) /\ UNCHANGED took
      BY <3>2
    <3> QED
      BY <1>4, <3>1, <3>2 DEF FsRead
  <2>3. pc' \in [Threads -> Pc]
    BY <2>1
  <2>4. TypeOK'
    BY <2>1, <2>2, <2>3
  <2>5. PlaceOK' /\ FilesOK'
    BY <2>1
  <2> QED
    BY <2>4, <2>5
<1>5. CASE FsWrite(t)
  <2>1. CASE fds[fd[t]].kind = "value" /\ UNCHANGED ret
    <3>1. LineAt(fd[t])[1] \in Banks /\ LineAt(fd[t])[2] \in Masks
      BY <1>5, <2>1, SysfsFacts DEF FsWrite, LineAt
    <3>2. dataOut' \in [Banks -> SUBSET Masks]
      BY <1>5, <3>1 DEF FsWrite, Modified
    <3>3. pc[t] = "fswrite" /\ took' \in [Threads -> BOOLEAN] /\ (Goto(t, "fsclose") \/ Goto(t, "return"))
      BY <1>5 DEF FsWrite
    <3>4. OutsideOK' /\ UNCHANGED <<statics, fds, driven, call, fd, reg, i, ret>>
      BY <1>5, <2>1, <3>2 DEF FsWrite
    <3>5. pc' \in [Threads -> Pc]
      BY <3>3
    <3>6. TypeOK'
      BY <3>3, <3>4, <3>5
    <3>7. PlaceOK' /\ FilesOK'
      BY <3>3, <3>4
    <3> QED
      BY <3>6, <3>7
  <2>2. CASE UNCHANGED <<dataOut, took>>
    <3>1. pc[t] = "fswrite" /\ UNCHANGED <<statics, outside, call, fd, reg, i, took>>
      BY <1>5, <2>2 DEF FsWrite
    <3>2. (Goto(t, "fsclose") /\ UNCHANGED ret) \/ Answer(t, 1)
      BY <1>5, <2>2 DEF FsWrite
    <3> QED
      BY <3>1, <3>2
  <2> QED
    BY <1>5, <2>1, <2>2 DEF FsWrite
<1>6. CASE FsClose(t)
  BY <1>6 DEF FsClose, Closed, Free, File
<1> QED
  BY <1>1, <1>2, <1>3, <1>4, <1>5, <1>6 DEF FileSystem

\* Every step keeps the types.
LEMMA TypeNext == TypeInv /\ [Next]_vars => TypeInv'
<1> SUFFICES ASSUME TypeInv, [Next]_vars PROVE TypeInv'
  OBVIOUS
<1> USE DEF PlaceOK, FilesOK
<1>1. ASSUME NEW t \in Threads, NEW c \in Calls, Enter(t, c) PROVE TypeInv'
  BY <1>1, CallsAssumption
  DEF Enter, Pc, AccessPcs, FilePcs, OpenPcs, MmapPcs
<1>2. ASSUME NEW t \in Threads, Proceed(t) PROVE TypeInv'
  BY <1>2, TypeOpen, TypeAccess, TypeFileSystem DEF Proceed
<1>3. CASE OtherOpen
  <2>1. PICK f \in Fd : fds' = [fds EXCEPT ![f] = File("other", 0, NoOwner)]
    BY <1>3 DEF OtherOpen
  <2> QED
    BY <1>3, <2>1 DEF OtherOpen, File
<1>4. CASE OtherClose
  BY <1>4 DEF OtherClose, Closed, Free, File
<1>5. ASSUME NEW line \in Inputs, Drive(line) PROVE TypeInv'
  BY <1>5 DEF Drive
<1>6. CASE UNCHANGED vars
  BY <1>6 DEF vars
<1> QED
  BY <1>1, <1>2, <1>3, <1>4, <1>5, <1>6 DEF Next

\* Every reachable state is well typed: in particular fdGPIO and the locals that
\* hold descriptors never hold anything but a descriptor or -1, a thread past the
\* checks of readGPIO or writeGPIO works on a pin of the tables (gpio.c:324-339,
\* 366-381), and every open value file is that of an exported line.
THEOREM TypeCorrect == Spec => []TypeOK
<1>1. Spec => []TypeInv
  BY TypeInit, TypeNext, PTL DEF Spec
<1>2. TypeInv => TypeOK
  BY DEF TypeInv
<1> QED
  BY <1>1, <1>2, PTL
-----------------------------------------------------------------------------
(* No access through an unmapped bank.  The discipline: a call to openGPIO *)
(* overlaps nothing but calls to closeGPIO.  Accesses may overlap each     *)
(* other and closes, and closes each other.                                *)

AllMapped == \A b \in Banks : mapGPIO[b] = "mapped"

\* initialized and usingMmap imply the mapping at every moment at which some
\* thread can test them, and a thread that has tested them relies on it.
MapInv ==
  /\ initialized /\ usingMmap => AllMapped
  /\ \A t \in Threads :
       /\ pc[t] # "dead"
       /\ pc[t] \in OpenPcs => ~initialized
       /\ pc[t] \in {"devmem", "map", "done"} => usingMmap = call[t].arg
       /\ pc[t] = "map" => \A b \in Banks : b < i[t] => mapGPIO[b] = "mapped"
       /\ pc[t] = "done" /\ usingMmap => AllMapped
       /\ pc[t] = "select" /\ call[t].op # "close" /\ usingMmap => AllMapped
       /\ pc[t] \in MmapPcs => AllMapped

\* The discipline, as a relation between the calls in progress.
OpensAlone ==
  \A t, u \in Threads :
    t # u /\ pc[t] # "idle" /\ pc[u] # "idle" /\ call[t].op = "open" => call[u].op = "close"

WildInv == TypeInv /\ OpensAlone /\ MapInv

\* Nothing is mapped, and nobody opens, at the start.
LEMMA WildInit == Init => WildInv
  BY TypeInit DEF Init, WildInv, OpensAlone, MapInv, OpenPcs, MmapPcs

\* Under the invariant no access faults.
LEMMA NoFault ==
  ASSUME TypeInv, MapInv, NEW t \in Threads
  PROVE  ~Fault(t)
<1> SUFFICES ASSUME pc[t] \in MmapPcs PROVE Mapped(t)
  BY DEF Fault
<1>1. call[t] \in Calls /\ PinCheck(call[t]) = "gpio"
  BY DEF PlaceOK, AccessPcs, MmapPcs
<1> QED
  BY <1>1, EntryFacts DEF MapInv, AllMapped, Mapped

\* With calls of openGPIO that exclude one another, one thread at most is in openGPIO.
LEMMA AloneNext ==
  ASSUME OpensExclude, TypeInv, OpensAlone, MapInv, Next
  PROVE  OpensAlone'
<1> USE DEF OpensAlone, PlaceOK
<1>1. ASSUME NEW t \in Threads, NEW c \in Calls, Enter(t, c) PROVE OpensAlone'
  <2>1. pc'[t] # "idle" /\ call'[t] = c
    BY <1>1 DEF Enter
  <2>2. \A u \in Threads : u # t => pc'[u] = pc[u] /\ call'[u] = call[u]
    BY <1>1 DEF Enter
  <2>3. \A u \in Threads : pc[u] # "idle" =>
          call[u] \in Calls /\ Together(c, call[u]) /\ Together(call[u], c)
    BY <1>1 DEF Enter, MapInv, Together
  <2> QED
    BY <2>1, <2>2, <2>3 DEF OpensExclude
<1>2. ASSUME NEW t \in Threads, Proceed(t)
      PROVE  /\ pc[t] # "idle"
             /\ \A u \in Threads : pc'[u] # "idle" => pc[u] # "idle" /\ call'[u] = call[u]
  <2>1. CASE Open(t)
    BY <2>1 DEF Open, OpenStart, OpenMode, OpenDevMem, OpenMapBank, OpenDone
  <2>2. CASE Access(t)
    <3>1. CASE AccessStart(t)
      BY ZenonT(60), <3>1, AccessStartEffect DEF AccessStart
    <3> QED
      BY <2>2, <3>1 DEF Access, AccessSelect
  <2>5. CASE Mmap(t)
    BY <2>5, NoFault DEF Mmap, ReadDataIn, LoadDataOut, StoreDataOut
  <2>3. CASE FileSystem(t)
    BY <2>3 DEF FileSystem, FormatStart, FormatEnd, FsOpen, FsRead, FsWrite, FsClose
  <2>4. CASE Close(t) \/ Leave(t)
    BY <2>4 DEF Close, CloseStart, CloseSelect, CloseFd, CloseClear, Leave
  <2> QED
    BY <1>2, <2>1, <2>2, <2>3, <2>4, <2>5 DEF Proceed
<1>3. CASE OtherOpen \/ OtherClose \/ \E line \in Inputs : Drive(line)
  BY <1>3 DEF OtherOpen, OtherClose, Drive
<1> QED
  BY <1>1, <1>2, <1>3 DEF Next
\* While an openGPIO is in progress the others are idle or closing.
LEMMA OthersIdle ==
  ASSUME TypeInv, OpensAlone, NEW t \in Threads, pc[t] \in OpenPcs, NEW u \in Threads, u # t
  PROVE  /\ pc[u] \notin OpenPcs /\ pc[u] \notin MmapPcs
         /\ ~(pc[u] = "select" /\ call[u].op # "close")
<1>1. pc[u] = "idle" \/ call[u].op = "close"
  BY DEF OpensAlone, PlaceOK, OpenPcs
<1> QED
  BY <1>1 DEF PlaceOK, OpenPcs, AccessPcs, MmapPcs

\* A step of openGPIO maps the registers before it says so.
LEMMA MapOpen ==
  ASSUME WildInv, NEW t \in Threads, Open(t)
  PROVE  MapInv'
<1> USE DEF WildInv, MapInv, AllMapped, OpenPcs, MmapPcs
<1>1. CASE OpenStart(t)
  BY <1>1 DEF OpenStart
<1>2. CASE OpenMode(t)
  BY <1>2, OthersIdle DEF OpenMode
<1>3. CASE OpenDevMem(t)
  BY <1>3, OthersIdle DEF OpenDevMem, Banks
<1>4. CASE OpenMapBank(t)
  BY <1>4, OthersIdle DEF OpenMapBank, Banks
<1>5. CASE OpenDone(t)
  BY <1>5, OthersIdle DEF OpenDone
<1> QED
  BY <1>1, <1>2, <1>3, <1>4, <1>5 DEF Open

\* Every step keeps what is known of the mapping.
LEMMA MapNext ==
  ASSUME WildInv, Next
  PROVE  MapInv'
<1> USE DEF WildInv, MapInv, AllMapped, OpenPcs, MmapPcs
<1>1. ASSUME NEW t \in Threads, NEW c \in Calls, Enter(t, c) PROVE MapInv'
  BY <1>1 DEF Enter
<1>2. ASSUME NEW t \in Threads, Open(t) PROVE MapInv'
  BY <1>2, MapOpen
<1>3. ASSUME NEW t \in Threads, AccessStart(t) PROVE MapInv'
  <2>1. CASE Goto(t, "return")
    BY <1>3, <2>1 DEF AccessStart
  <2>2. CASE initialized /\ Goto(t, "select")
    BY <1>3, <2>2 DEF AccessStart
  <2> QED
    BY <1>3, <2>1, <2>2, AccessStartEffect
<1>4. ASSUME NEW t \in Threads, AccessSelect(t) PROVE MapInv'
  BY <1>4 DEF AccessSelect
<1>5. ASSUME NEW t \in Threads, Mmap(t) PROVE MapInv'
  BY <1>5, NoFault DEF Mmap, ReadDataIn, LoadDataOut, StoreDataOut
<1>6. ASSUME NEW t \in Threads, FileSystem(t) PROVE MapInv'
  BY <1>6 DEF FileSystem, FormatStart, FormatEnd, FsOpen, FsRead, FsWrite, FsClose
<1>7. ASSUME NEW t \in Threads, Close(t) \/ Leave(t) PROVE MapInv'
  BY <1>7 DEF Close, CloseStart, CloseSelect, CloseFd, CloseClear, Leave
<1>8. CASE OtherOpen \/ OtherClose \/ \E line \in Inputs : Drive(line)
  BY <1>8 DEF OtherOpen, OtherClose, Drive
<1> QED
  BY <1>1, <1>2, <1>3, <1>4, <1>5, <1>6, <1>7, <1>8 DEF Next, Proceed, Access

\* WildInv is inductive: no step makes an access through a pointer that is not mapped.
LEMMA WildNext ==
  ASSUME OpensExclude
  PROVE  WildInv /\ [Next]_vars => WildInv'
<1> SUFFICES ASSUME WildInv, [Next]_vars PROVE WildInv'
  OBVIOUS
<1>1. TypeInv'
  BY TypeNext DEF WildInv
<1>2. CASE Next
  BY <1>1, <1>2, AloneNext, MapNext DEF WildInv
<1>3. CASE UNCHANGED vars
  BY <1>1, <1>3 DEF WildInv, OpensAlone, MapInv, AllMapped, vars
<1> QED
  BY <1>2, <1>3

\* If the application lets openGPIO overlap nothing but closeGPIO, no access ever
\* goes through a bank that is not mapped, although accesses test initialized
\* and usingMmap at different moments and may be overtaken by closes
\* (gpio.c:174-198, 324-344, 396-401), and although mmap may fail in any reopening.
THEOREM NoWildAccessHolds ==
  ASSUME OpensExclude
  PROVE  Spec => []NoWildAccess
<1>1. Spec => []WildInv
  BY WildInit, WildNext, PTL DEF Spec
<1>2. WildInv => NoWildAccess
  BY DEF WildInv, MapInv, NoWildAccess
<1> QED
  BY <1>1, <1>2, PTL

-----------------------------------------------------------------------------
(* Private value files.  The discipline: the application never asks for    *)
(* the memory map, as the Java bindings never do (jni_wrapper.c:31); its   *)
(* calls overlap in any way.                                               *)

FsInv ==
  /\ TypeInv /\ ~usingMmap /\ PrivateFd
  /\ \A t \in Threads : pc[t] \notin MmapPcs \cup {"devmem", "map", "closefd", "dead"}

\* No descriptor is in use at the start.
LEMMA FsInit == Init => FsInv
  BY TypeInit DEF Init, FsInv, PrivateFd, FilePcs, MmapPcs

\* A file that another thread works on is another file.
LEMMA LowestIsFree ==
  ASSUME NEW f \in Fd, IsLowestFree(fds, f)
  PROVE  fds[f].kind = "free"
<1>1. fds[f] = Free
  BY DEF IsLowestFree
<1> QED
  BY <1>1 DEF Free, File

\* As long as closeGPIO closes no value file, files stay private.
LEMMA PrivateNext ==
  ASSUME TypeInv, PrivateFd, Next,
         \A t \in Threads : pc[t] = "closefd" /\ fdGPIO \in Fd => fds[fdGPIO].kind # "value"
  PROVE  PrivateFd'
<1> USE DEF PrivateFd, FilePcs
<1>1. ASSUME NEW t \in Threads, NEW c \in Calls, Enter(t, c) PROVE PrivateFd'
  BY <1>1 DEF Enter
<1>2. ASSUME NEW t \in Threads, Open(t) \/ Access(t) \/ Close(t) \/ Leave(t), ~OpenDevMem(t), ~CloseFd(t)
      PROVE  PrivateFd'
  <2>1. UNCHANGED fds /\ \A u \in Threads : pc'[u] \in FilePcs => pc[u] \in FilePcs /\ fd'[u] = fd[u]
    <3>1. CASE AccessStart(t)
      <4>1. Goto(t, "return") \/ Goto(t, "select")
        BY <3>1, AccessStartEffect
      <4> QED
        BY <3>1, <4>1 DEF AccessStart
    <3>2. CASE AccessSelect(t)
      BY <3>2 DEF AccessSelect
    <3> QED
      BY <1>2, <3>1, <3>2 DEF Open, OpenStart, OpenMode, OpenMapBank, OpenDone, Access,
         Close, CloseStart, CloseSelect, CloseClear, Leave
  <2> QED
    BY <2>1
<1>10. ASSUME NEW t \in Threads, OpenDevMem(t) \/ CloseFd(t) PROVE PrivateFd'
  <2>1. \A f \in Fd : fds[f].kind = "value" => fds'[f] = fds[f]
    <3>1. CASE OpenDevMem(t)
      BY <3>1, LowestIsFree DEF OpenDevMem
    <3>2. CASE CloseFd(t)
      BY <3>2 DEF CloseFd, Closed
    <3> QED
      BY <1>10, <3>1, <3>2
  <2>2. \A u \in Threads : pc'[u] \in FilePcs => pc[u] \in FilePcs /\ fd'[u] = fd[u]
    BY <1>10 DEF OpenDevMem, CloseFd
  <2> QED
    BY <2>1, <2>2
<1>3. ASSUME NEW t \in Threads, FsOpen(t) PROVE PrivateFd'
  <2>1. CASE UNCHANGED fds /\ Answer(t, GivenUp(t))
    BY <1>3, <2>1 DEF FsOpen
  <2>2. CASE \E id \in Ids, f \in Fd :
               /\ IsLowestFree(fds, f)
               /\ fds' = [fds EXCEPT ![f] = File("value", id, t)]
               /\ fd' = [fd EXCEPT ![t] = f]
    <3>1. PICK id \in Ids, f \in Fd :
               /\ IsLowestFree(fds, f)
               /\ fds' = [fds EXCEPT ![f] = File("value", id, t)]
               /\ fd' = [fd EXCEPT ![t] = f]
      BY <2>2
    <3>2. \A u \in Threads : u # t /\ pc'[u] \in FilePcs =>
            pc[u] \in FilePcs /\ fd'[u] = fd[u] /\ fd[u] # f
      <4>1. \A u \in Threads : u # t => pc'[u] = pc[u]
        BY <1>3 DEF FsOpen
      <4>2. fds[f].kind = "free"
        BY <3>1, LowestIsFree
      <4> QED
        BY <3>1, <4>1, <4>2
    <3>3. fd'[t] = f /\ fds'[f].kind = "value" /\ fds'[f].owner = t
      BY <3>1 DEF File
    <3>4. \A g \in Fd : g # f => fds'[g] = fds[g]
      BY <3>1
    <3> QED
      BY <3>2, <3>3, <3>4
  <2> QED
    <3>1. Spelled(fsBuf, Ids) \subseteq Ids
      BY DEF Spelled
    <3> QED
      BY <1>3, <2>1, <2>2, <3>1 DEF FsOpen
<1>4. ASSUME NEW t \in Threads, FsClose(t) PROVE PrivateFd'
  BY <1>4 DEF FsClose, Closed
<1>5. ASSUME NEW t \in Threads, FormatStart(t) \/ FormatEnd(t) \/ FsRead(t) \/ FsWrite(t)
      PROVE  PrivateFd'
  BY <1>5 DEF FormatStart, FormatEnd, FsRead, FsWrite
<1>6. CASE OtherOpen
  <2>1. PICK f \in Fd : fds[f].kind = "free" /\ fds' = [fds EXCEPT ![f] = File("other", 0, NoOwner)]
    BY <1>6, LowestIsFree DEF OtherOpen
  <2> QED
    BY <1>6, <2>1 DEF OtherOpen
<1>7. CASE OtherClose
  BY <1>7 DEF OtherClose, Closed
<1>8. CASE \E line \in Inputs : Drive(line)
  BY <1>8 DEF Drive
<1>9. ASSUME NEW t \in Threads, Mmap(t) PROVE PrivateFd'
  BY <1>9 DEF Mmap, ReadDataIn, LoadDataOut, StoreDataOut, Fault, MmapPcs
<1> QED
  BY <1>1, <1>2, <1>3, <1>4, <1>5, <1>6, <1>7, <1>8, <1>9, <1>10 DEF Next, Proceed, FileSystem

\* FsInv is inductive in the file system mode.
LEMMA FsNext ==
  ASSUME FileSystemOnly
  PROVE  FsInv /\ [Next]_vars => FsInv'
<1> SUFFICES ASSUME FsInv, [Next]_vars PROVE FsInv'
  OBVIOUS
<1> DEFINE Places == \A t \in Threads : pc[t] \notin MmapPcs \cup {"devmem", "map", "closefd", "dead"}
<1>1. TypeInv'
  BY TypeNext DEF FsInv
<1>2. CASE Next
  <2> SUFFICES ~usingMmap' /\ Places'
    BY <1>1, <1>2, PrivateNext DEF FsInv
  <2> USE DEF FsInv, MmapPcs
  <2>1. ASSUME NEW t \in Threads, NEW c \in Calls, Enter(t, c) PROVE ~usingMmap' /\ Places'
    BY <2>1 DEF Enter
  <2>2. ASSUME NEW t \in Threads, Open(t) PROVE ~usingMmap' /\ Places'
    <3>1. pc[t] \in OpenPcs => ~call[t].arg
      BY DEF FileSystemOnly, PlaceOK, OpenPcs
    <3> QED
      BY <2>2, <3>1 DEF Open, OpenStart, OpenMode, OpenDevMem, OpenMapBank, OpenDone, OpenPcs
  <2>3. ASSUME NEW t \in Threads, AccessStart(t) PROVE ~usingMmap' /\ Places'
    <3>1. Goto(t, "return") \/ Goto(t, "select")
      BY <2>3, AccessStartEffect
    <3> QED
      BY <2>3, <3>1 DEF AccessStart
  <2>4. ASSUME NEW t \in Threads, AccessSelect(t) \/ Close(t) \/ Leave(t) PROVE ~usingMmap' /\ Places'
    BY <2>4 DEF AccessSelect, Close, CloseStart, CloseSelect, CloseFd, CloseClear, Leave
  <2>5. ASSUME NEW t \in Threads, FileSystem(t) PROVE ~usingMmap' /\ Places'
    BY <2>5 DEF FileSystem, FormatStart, FormatEnd, FsOpen, FsRead, FsWrite, FsClose
  <2>6. ASSUME NEW t \in Threads, Mmap(t) PROVE FALSE
    BY <2>6 DEF Mmap, ReadDataIn, LoadDataOut, StoreDataOut, Fault
  <2>7. CASE OtherOpen \/ OtherClose \/ \E line \in Inputs : Drive(line)
    BY <2>7 DEF OtherOpen, OtherClose, Drive
  <2> QED
    BY <1>2, <2>1, <2>2, <2>3, <2>4, <2>5, <2>6, <2>7 DEF Next, Proceed, Access
<1>3. CASE UNCHANGED vars
  BY <1>1, <1>3 DEF FsInv, PrivateFd, vars
<1> QED
  BY <1>2, <1>3

\* Through the Java bindings, whatever the threads do: the file a readGPIO or
\* writeGPIO works on stays the one it opened until it closes it itself
\* (gpio.c:263-268, 292-305); no close of the GPIO code hits another call's file.
THEOREM PrivateFdHolds ==
  ASSUME FileSystemOnly
  PROVE  Spec => []PrivateFd
<1>1. Spec => []FsInv
  BY FsInit, FsNext, PTL DEF Spec
<1>2. FsInv => PrivateFd
  BY DEF FsInv
<1> QED
  BY <1>1, <1>2, PTL
-----------------------------------------------------------------------------
(* No lost update.  The discipline: the memory map only, and two writes    *)
(* overlap only when they are for different banks.  Everything else may    *)
(* overlap, openGPIO included.                                             *)

InCall(t) == pc[t] \notin {"idle", "dead"}

WritersApart ==
  \A t, u \in Threads :
    t # u /\ InCall(t) /\ InCall(u) /\ IsWrite(call[t]) /\ IsWrite(call[u])
      => Pin(call[t]).bank # Pin(call[u]).bank

FsPcs == FilePcs \cup {"format", "formatting", "fsopen"}

MmapChosen ==
  /\ initialized => usingMmap
  /\ \A t \in Threads :
       /\ pc[t] \in {"devmem", "map", "done"} => usingMmap
       /\ pc[t] = "select" /\ call[t].op # "close" => usingMmap
       /\ pc[t] \notin FsPcs

\* The register a write has loaded is still what the hardware holds.
RegFresh == \A t \in Threads : pc[t] = "store" => reg[t] = dataOut[Pin(call[t]).bank]

StoreInv == TypeInv /\ WritersApart /\ MmapChosen /\ RegFresh

\* No store is under way at the start.
LEMMA StoreInit == Init => StoreInv
  BY TypeInit DEF Init, StoreInv, WritersApart, InCall, MmapChosen, FsPcs, FilePcs, RegFresh

\* Where all pins are in mmap mode, no call is at a place of the file system.
LEMMA ChosenNext ==
  ASSUME MmapOnly, TypeInv, MmapChosen, Next
  PROVE  MmapChosen'
<1> USE DEF MmapChosen, FsPcs, FilePcs
<1>1. ASSUME NEW t \in Threads, NEW c \in Calls, Enter(t, c) PROVE MmapChosen'
  BY <1>1 DEF Enter
<1>2. ASSUME NEW t \in Threads, Open(t) PROVE MmapChosen'
  <2>1. pc[t] = "mode" => call[t].arg
    BY DEF MmapOnly, PlaceOK, OpenPcs
  <2> QED
    BY <1>2, <2>1 DEF Open, OpenStart, OpenMode, OpenDevMem, OpenMapBank, OpenDone
<1>3. ASSUME NEW t \in Threads, AccessStart(t) PROVE MmapChosen'
  <2>1. CASE Goto(t, "return")
    BY <1>3, <2>1 DEF AccessStart
  <2>2. CASE initialized /\ Goto(t, "select")
    BY <1>3, <2>2 DEF AccessStart
  <2> QED
    BY <1>3, <2>1, <2>2, AccessStartEffect
<1>4. ASSUME NEW t \in Threads, AccessSelect(t) PROVE MmapChosen'
  <2>1. usingMmap /\ call[t].op \in {"read", "write"}
    BY <1>4 DEF AccessSelect
  <2>2. Goto(t, "dataIn") \/ Goto(t, "load")
    BY <1>4, <2>1 DEF AccessSelect
  <2> QED
    BY <1>4, <2>2 DEF AccessSelect
<1>5. ASSUME NEW t \in Threads, Mmap(t) PROVE MmapChosen'
  BY <1>5 DEF Mmap, ReadDataIn, LoadDataOut, StoreDataOut, Fault
<1>6. ASSUME NEW t \in Threads, FileSystem(t) PROVE FALSE
  BY <1>6 DEF FileSystem, FormatStart, FormatEnd, FsOpen, FsRead, FsWrite, FsClose
<1>7. ASSUME NEW t \in Threads, Close(t) \/ Leave(t) PROVE MmapChosen'
  BY <1>7 DEF Close, CloseStart, CloseSelect, CloseFd, CloseClear, Leave
<1>8. CASE OtherOpen \/ OtherClose \/ \E line \in Inputs : Drive(line)
  BY <1>8 DEF OtherOpen, OtherClose, Drive
<1> QED
  BY <1>1, <1>2, <1>3, <1>4, <1>5, <1>6, <1>7, <1>8 DEF Next, Proceed, Access
\* What a step of a call does to the calls: none begins, none changes.
LEMMA ProceedKeepsCalls ==
  ASSUME TypeInv, NEW t \in Threads, Proceed(t)
  PROVE  \A u \in Threads : pc'[u] \notin {"idle", "dead"} =>
           pc[u] \notin {"idle", "dead"} /\ call'[u] = call[u]
<1>1. CASE Open(t)
  BY <1>1 DEF Open, OpenStart, OpenMode, OpenDevMem, OpenMapBank, OpenDone
<1>2. CASE AccessStart(t)
  <2>1. Goto(t, "return") \/ Goto(t, "select")
    BY <1>2, AccessStartEffect
  <2> QED
    BY <1>2, <2>1 DEF AccessStart
<1>3. CASE AccessSelect(t)
  BY <1>3 DEF AccessSelect
<1>4. CASE Mmap(t)
  BY <1>4 DEF Mmap, ReadDataIn, LoadDataOut, StoreDataOut, Fault, MmapPcs
<1>5. CASE FileSystem(t)
  BY <1>5 DEF FileSystem, FormatStart, FormatEnd, FsOpen, FsRead, FsWrite, FsClose
<1>6. CASE Close(t) \/ Leave(t)
  BY <1>6 DEF Close, CloseStart, CloseSelect, CloseFd, CloseClear, Leave
<1> QED
  BY <1>1, <1>2, <1>3, <1>4, <1>5, <1>6 DEF Proceed, Access

\* With writers of a register that exclude one another, they stay apart.
LEMMA ApartNext ==
  ASSUME WritersExclude, TypeInv, WritersApart, Next
  PROVE  WritersApart'
<1> USE DEF WritersApart, InCall
<1>1. ASSUME NEW t \in Threads, NEW c \in Calls, Enter(t, c) PROVE WritersApart'
  <2>1. call'[t] = c
    BY <1>1 DEF Enter
  <2>2. \A u \in Threads : u # t => pc'[u] = pc[u] /\ call'[u] = call[u]
    BY <1>1 DEF Enter
  <2>3. \A u \in Threads : InCall(u) =>
          call[u] \in Calls /\ Together(c, call[u]) /\ Together(call[u], c)
    BY <1>1 DEF Enter, PlaceOK, Together
  <2> QED
    BY <2>1, <2>2, <2>3 DEF WritersExclude
<1>2. ASSUME NEW t \in Threads, Proceed(t) PROVE WritersApart'
  BY <1>2, ProceedKeepsCalls
<1>3. CASE OtherOpen \/ OtherClose \/ \E line \in Inputs : Drive(line)
  BY <1>3 DEF OtherOpen, OtherClose, Drive
<1> QED
  BY <1>1, <1>2, <1>3 DEF Next

\* Only a store changes a register.
LEMMA OnlyStoresChange ==
  ASSUME StoreInv, [Next]_vars, dataOut' # dataOut
  PROVE  \E t \in Threads : StoreDataOut(t)
<1> USE DEF StoreInv
<1>1. ASSUME NEW t \in Threads, FileSystem(t) PROVE FALSE
  BY <1>1 DEF FileSystem, FormatStart, FormatEnd, FsOpen, FsRead, FsWrite, FsClose,
              MmapChosen, FsPcs, FilePcs
<1>2. ASSUME NEW t \in Threads, Open(t) \/ Access(t) \/ Close(t) \/ Leave(t) PROVE UNCHANGED dataOut
  BY <1>2 DEF Open, OpenStart, OpenMode, OpenDevMem, OpenMapBank, OpenDone, Access, AccessStart,
     AccessSelect, Close, CloseStart, CloseSelect, CloseFd, CloseClear, Leave
<1>3. ASSUME NEW t \in Threads, ReadDataIn(t) \/ LoadDataOut(t) \/ Fault(t) PROVE UNCHANGED dataOut
  BY <1>3 DEF ReadDataIn, LoadDataOut, Fault
<1>4. ASSUME NEW t \in Threads, NEW c \in Calls, Enter(t, c) PROVE UNCHANGED dataOut
  BY <1>4 DEF Enter
<1>5. ASSUME OtherOpen \/ OtherClose \/ \E line \in Inputs : Drive(line) PROVE UNCHANGED dataOut
  BY <1>5 DEF OtherOpen, OtherClose, Drive
<1>6. ASSUME UNCHANGED vars PROVE UNCHANGED dataOut
  BY <1>6 DEF vars
<1> QED
  BY <1>1, <1>2, <1>3, <1>4, <1>5, <1>6 DEF Next, Proceed, Mmap

\* What a writer has read of a register is what the register holds, until it stores.
LEMMA FreshNext ==
  ASSUME StoreInv, Next
  PROVE  RegFresh'
<1> USE DEF StoreInv, RegFresh
<1>1. ASSUME NEW t \in Threads, StoreDataOut(t) PROVE RegFresh'
  <2>1. pc[t] = "store" /\ pc'[t] = "return" /\ UNCHANGED <<call, reg>>
    BY <1>1 DEF StoreDataOut
  <2>2. \A b \in Banks : b # Pin(call[t]).bank => dataOut'[b] = dataOut[b]
    BY <1>1 DEF StoreDataOut
  <2>3. \A u \in Threads : u # t /\ pc'[u] = "store" =>
          pc[u] = "store" /\ Pin(call[u]).bank \in Banks /\ Pin(call[u]).bank # Pin(call[t]).bank
    <3> SUFFICES ASSUME NEW u \in Threads, u # t, pc'[u] = "store"
                 PROVE  /\ pc[u] = "store" /\ Pin(call[u]).bank \in Banks
                        /\ Pin(call[u]).bank # Pin(call[t]).bank
      OBVIOUS
    <3>1. pc[u] = "store"
      BY <1>1 DEF StoreDataOut
    <3>2. /\ call[t] \in Calls /\ PinCheck(call[t]) = "gpio"
          /\ call[u] \in Calls /\ PinCheck(call[u]) = "gpio"
      BY <2>1, <3>1 DEF PlaceOK, AccessPcs, MmapPcs
    <3>3. call[t].op = "write" /\ call[u].op = "write"
      BY <2>1, <3>1 DEF PlaceOK
    <3> QED
      BY <2>1, <3>1, <3>2, <3>3, EntryFacts DEF WritersApart, InCall, IsWrite
  <2> QED
    BY <2>1, <2>2, <2>3
<1>2. ASSUME NEW t \in Threads, LoadDataOut(t) PROVE RegFresh'
  <2>1. reg'[t] = dataOut[Pin(call[t]).bank] /\ UNCHANGED <<call, dataOut>>
    BY <1>2 DEF LoadDataOut
  <2>2. \A u \in Threads : u # t => pc'[u] = pc[u] /\ reg'[u] = reg[u]
    BY <1>2 DEF LoadDataOut
  <2> QED
    BY <2>1, <2>2
<1>3. ASSUME UNCHANGED dataOut, NEW t \in Threads, Proceed(t), ~LoadDataOut(t) PROVE RegFresh'
  <2>1. \A u \in Threads : pc'[u] = "store" =>
          pc[u] = "store" /\ reg'[u] = reg[u] /\ call'[u] = call[u]
    <3>1. CASE AccessStart(t)
      <4>1. Goto(t, "return") \/ Goto(t, "select")
        BY <3>1, AccessStartEffect
      <4> QED
        BY <3>1, <4>1 DEF AccessStart
    <3>2. CASE AccessSelect(t)
      BY <3>2 DEF AccessSelect
    <3>3. CASE Open(t) \/ Close(t)
      BY <3>3 DEF Open, OpenStart, OpenMode, OpenDevMem, OpenMapBank, OpenDone,
                  Close, CloseStart, CloseSelect, CloseFd, CloseClear
    <3>4. CASE ReadDataIn(t) \/ StoreDataOut(t) \/ Fault(t)
      BY <3>4 DEF ReadDataIn, StoreDataOut, Fault
    <3>5. CASE FileSystem(t)
      BY <3>5 DEF FileSystem, FormatStart, FormatEnd, FsOpen, FsRead, FsWrite, FsClose
    <3>6. CASE Leave(t)
      <4>1. pc[t] = "return" /\ pc' = [pc EXCEPT ![t] = "idle"]
        BY <3>6 DEF Leave
      <4>2. call' = [call EXCEPT ![t] = NoCall] /\ reg' = [reg EXCEPT ![t] = {}]
        BY <3>6 DEF Leave
      <4>3. \A u \in Threads : pc'[u] = "store" => u # t
        BY <4>1
      <4> QED
        BY <4>1, <4>2, <4>3
    <3> QED
      BY <1>3, <3>1, <3>2, <3>3, <3>4, <3>5, <3>6 DEF Proceed, Access, Mmap
  <2> QED
    BY <1>3, <2>1
<1>4. ASSUME NEW t \in Threads, NEW c \in Calls, Enter(t, c) PROVE RegFresh'
  BY <1>4 DEF Enter
<1>5. CASE OtherOpen \/ OtherClose \/ \E line \in Inputs : Drive(line)
  BY <1>5 DEF OtherOpen, OtherClose, Drive
<1> QED
  BY <1>1, <1>2, <1>3, <1>4, <1>5, OnlyStoresChange DEF Next

\* StoreInv is inductive.
LEMMA StoreNext ==
  ASSUME MmapOnly, WritersExclude
  PROVE  StoreInv /\ [Next]_vars => StoreInv'
<1> SUFFICES ASSUME StoreInv, [Next]_vars PROVE StoreInv'
  OBVIOUS
<1>1. TypeInv'
  BY TypeNext DEF StoreInv
<1>2. CASE Next
  BY <1>1, <1>2, ApartNext, ChosenNext, FreshNext DEF StoreInv
<1>3. CASE UNCHANGED vars
  BY <1>1, <1>3 DEF StoreInv, WritersApart, InCall, MmapChosen, RegFresh, vars
<1> QED
  BY <1>2, <1>3

\* Under the invariant a store changes the bit it is for, and no other.
LEMMA StoreChangesOneBit ==
  ASSUME StoreInv, [Next]_vars
  PROVE  ChangesAreAsked
<1> USE DEF StoreInv
<1>1. SUFFICES ASSUME NEW b \in Banks, NEW m \in Masks, (m \in dataOut[b]) # (m \in dataOut'[b])
               PROVE  Asked(b, m, m \in dataOut'[b])
  BY DEF ChangesAreAsked
<1>2. PICK t \in Threads : StoreDataOut(t)
  BY <1>1, OnlyStoresChange
<1>3. call[t].op = "write" /\ call[t] \in Calls /\ PinCheck(call[t]) = "gpio"
  BY <1>2 DEF StoreDataOut, PlaceOK, AccessPcs, MmapPcs
<1>4. /\ Pin(call[t]).bank \in Banks
      /\ dataOut' = [dataOut EXCEPT ![Pin(call[t]).bank] =
                       Modified(dataOut[Pin(call[t]).bank], Pin(call[t]).mask, call[t].arg)]
  BY <1>2, <1>3, EntryFacts DEF StoreDataOut, RegFresh
<1>5. b = Pin(call[t]).bank
  BY <1>1, <1>4
<1>6. dataOut'[b] = Modified(dataOut[b], Pin(call[t]).mask, call[t].arg)
  BY <1>4, <1>5
<1>7. m = Pin(call[t]).mask /\ (m \in dataOut'[b] <=> call[t].arg)
  BY <1>1, <1>6 DEF Modified
<1>8. call[t].arg \in BOOLEAN
  BY <1>3, CallsAssumption DEF Call
<1> QED
  BY <1>3, <1>5, <1>7, <1>8 DEF Asked, LineOf

\* Through the memory map, two writes that never overlap within a bank are enough
\* to keep every update: a register bit changes only to what a writeGPIO in
\* progress asks of that bit (gpio.c:231-243), whatever else overlaps.
THEOREM NoLostUpdate ==
  ASSUME MmapOnly, WritersExclude
  PROVE  Spec => OnlyAskedLinesChange
<1>1. Spec => []StoreInv
  BY StoreInit, StoreNext, PTL DEF Spec
<1>2. StoreInv /\ [Next]_vars => [ChangesAreAsked]_vars
  BY StoreChangesOneBit
<1> QED
  BY <1>1, <1>2, PTL DEF Spec, OnlyAskedLinesChange

-----------------------------------------------------------------------------
(* Descriptors that are lost.  No discipline: any calls may overlap.       *)

\* A process that an access has ended stays ended.
LEMMA DeadStays ==
  ASSUME TypeInv, Next, NoWildAccess'
  PROVE  NoWildAccess
<1> USE DEF NoWildAccess
<1>1. ASSUME NEW t \in Threads, NEW c \in Calls, Enter(t, c) PROVE NoWildAccess
  BY <1>1 DEF Enter
<1>2. ASSUME NEW t \in Threads, Open(t) \/ Access(t) \/ FileSystem(t) \/ Close(t) \/ Leave(t) PROVE NoWildAccess
  <2>1. pc[t] # "dead" /\ \A u \in Threads \ {t} : pc'[u] = pc[u]
    <3>1. CASE AccessStart(t)
      BY ZenonT(60), <3>1, AccessStartEffect DEF AccessStart
    <3> QED
      BY <1>2, <3>1 DEF Open, OpenStart, OpenMode, OpenDevMem, OpenMapBank, OpenDone, Access, AccessSelect,
         FileSystem, FormatStart, FormatEnd, FsOpen, FsRead, FsWrite, FsClose,
         Close, CloseStart, CloseSelect, CloseFd, CloseClear, Leave
  <2> QED
    BY <2>1
<1>3. ASSUME NEW t \in Threads, Mmap(t) PROVE NoWildAccess
  BY <1>3 DEF Mmap, ReadDataIn, LoadDataOut, StoreDataOut, Fault, MmapPcs
<1>4. CASE OtherOpen \/ OtherClose \/ \E line \in Inputs : Drive(line)
  BY <1>4 DEF OtherOpen, OtherClose, Drive
<1> QED
  BY <1>1, <1>2, <1>3, <1>4 DEF Next, Proceed

\* A step that leaves a file alone, and whoever works on it, loses nothing.
Untouched(f) ==
  /\ fds'[f] = fds[f]
  /\ \A t \in Threads : pc[t] \in FilePcs /\ fd[t] = f => pc'[t] \in FilePcs /\ fd'[t] = f

\* What a step leaves open and unknown is the value file of an input.
LEMMA LeakNext ==
  ASSUME TypeInv, OnlyRefusedWritesLeak, Next, NoWildAccess', NEW f \in Leaked'
  PROVE  LineAt(f)' \in Inputs
<1>0. /\ NoWildAccess /\ f \in Fd /\ fds'[f].kind = "value"
      /\ \A t \in Threads : pc'[t] \in FilePcs => fd'[t] # f
  BY DeadStays DEF Leaked
<1>1. ASSUME Untouched(f) PROVE LineAt(f)' \in Inputs
  <2>1. f \in Leaked
    BY <1>0, <1>1 DEF Leaked, Untouched
  <2> QED
    BY <1>0, <1>1, <2>1 DEF OnlyRefusedWritesLeak, LineAt, Untouched
<1>2. ASSUME NEW t \in Threads, NEW c \in Calls, Enter(t, c) PROVE Untouched(f)
  BY <1>2 DEF Enter, Untouched, FilePcs
<1>3. ASSUME NEW t \in Threads, OpenDevMem(t) \/ CloseFd(t) PROVE Untouched(f)
  <2>1. fds'[f] = fds[f]
    BY <1>0, <1>3 DEF OpenDevMem, CloseFd, Closed, File, Free
  <2> QED
    BY <1>3, <2>1 DEF OpenDevMem, CloseFd, Untouched, FilePcs
<1>13. CASE OtherOpen \/ OtherClose
  <2>1. fds'[f] = fds[f]
    BY <1>0, <1>13 DEF OtherOpen, OtherClose, Closed, File, Free
  <2> QED
    BY <1>1, <1>13, <2>1 DEF OtherOpen, OtherClose, Untouched
<1>4. ASSUME NEW t \in Threads, Open(t), ~OpenDevMem(t) PROVE Untouched(f)
  BY <1>4 DEF Open, OpenStart, OpenMode, OpenMapBank, OpenDone, Untouched, FilePcs, OpenPcs
<1>5. ASSUME NEW t \in Threads, AccessStart(t) \/ AccessSelect(t) PROVE Untouched(f)
  <2>1. pc[t] \notin FilePcs /\ UNCHANGED <<fds, fd>> /\ \A u \in Threads : u # t => pc'[u] = pc[u]
    BY <1>5, AccessStartEffect DEF AccessStart, AccessSelect, FilePcs
  <2> QED
    BY <2>1 DEF Untouched
<1>6. ASSUME NEW t \in Threads, Mmap(t) PROVE Untouched(f)
  <2>1. \A u \in Threads : pc[u] \in FilePcs => pc'[u] = pc[u]
    BY <1>0, <1>6 DEF Mmap, ReadDataIn, LoadDataOut, StoreDataOut, Fault, FilePcs, NoWildAccess
  <2> QED
    BY <1>6, <2>1 DEF Mmap, ReadDataIn, LoadDataOut, StoreDataOut, Fault, Untouched
<1>7. ASSUME NEW t \in Threads, FormatStart(t) \/ FormatEnd(t) \/ FsRead(t) PROVE Untouched(f)
  BY <1>7 DEF FormatStart, FormatEnd, FsRead, Untouched, FilePcs
<1>8. ASSUME NEW t \in Threads, FsOpen(t) PROVE Untouched(f)
  <2>1. CASE UNCHANGED <<fds, fd>>
    BY <1>8, <2>1 DEF FsOpen, Untouched, FilePcs
  <2>2. CASE \E id \in Ids, g \in Fd : /\ fds' = [fds EXCEPT ![g] = File("value", id, t)]
                                       /\ fd' = [fd EXCEPT ![t] = g]
                                       /\ Goto(t, IF call[t].op = "read" THEN "fsread" ELSE "fswrite")
    <3>1. PICK g \in Fd : /\ \A h \in Fd : h # g => fds'[h] = fds[h]
                          /\ fd' = [fd EXCEPT ![t] = g] /\ pc'[t] \in FilePcs
      BY <2>2 DEF FilePcs
    <3>2. g # f
      BY <1>0, <3>1
    <3>3. pc[t] = "fsopen" /\ \A u \in Threads : u # t => pc'[u] = pc[u] /\ fd'[u] = fd[u]
      BY <1>8, <3>1 DEF FsOpen
    <3> QED
      BY <1>0, <3>1, <3>2, <3>3 DEF Untouched, FilePcs
  <2>3. Spelled(fsBuf, Ids) \subseteq Ids
    BY DEF Spelled
  <2> QED
    BY <1>8, <2>1, <2>2, <2>3 DEF FsOpen
<1>9. ASSUME NEW t \in Threads, FsWrite(t) PROVE LineAt(f)' \in Inputs
  <2>1. UNCHANGED <<fds, fd>> /\ \A u \in Threads : u # t => pc'[u] = pc[u]
    BY <1>9 DEF FsWrite
  <2>2. CASE Goto(t, "fsclose")
    BY <1>1, <2>1, <2>2 DEF Untouched, FilePcs
  <2>3. CASE fds[fd[t]].kind = "value" => LineAt(fd[t]) \in Inputs
    <3>1. CASE fd[t] = f
      BY <1>0, <2>1, <2>3, <3>1 DEF LineAt
    <3>2. CASE fd[t] # f
      BY <1>1, <2>1, <3>2 DEF Untouched
    <3> QED
      BY <3>1, <3>2
  <2> QED
    BY <1>9, <2>2, <2>3 DEF FsWrite
<1>10. ASSUME NEW t \in Threads, FsClose(t) PROVE Untouched(f)
  <2>1. fd[t] # f /\ fds'[f] = fds[f]
    BY <1>0, <1>10 DEF FsClose, Closed, Free, File, PlaceOK, FilePcs
  <2> QED
    BY <1>10, <2>1 DEF FsClose, Untouched
<1>11. ASSUME NEW t \in Threads, CloseStart(t) \/ CloseSelect(t) \/ CloseClear(t) \/ Leave(t) PROVE Untouched(f)
  BY <1>11 DEF CloseStart, CloseSelect, CloseClear, Leave, Untouched, FilePcs
<1>12. CASE \E line \in Inputs : Drive(line)
  BY <1>1, <1>12 DEF Drive, Untouched
<1> QED
  BY <1>1, <1>2, <1>3, <1>4, <1>5, <1>6, <1>7, <1>8, <1>9, <1>10, <1>11, <1>12, <1>13
  DEF Next, Proceed, Access, FileSystem, Close, Open

\* Whatever calls overlap and whatever fails: a value file that no call will close
\* any more is that of an input line, whose write the kernel refuses (gpio.c:302);
\* an open that fails, a file closed under a call's feet and a reused number lose
\* none (gpio.c:263-268, 292-305, 399).
THEOREM OnlyRefusedWritesLeakHolds == Spec => []OnlyRefusedWritesLeak
<1> DEFINE LeakInv == TypeInv /\ OnlyRefusedWritesLeak
<1>1. Init => LeakInv
  BY TypeInit DEF Init, OnlyRefusedWritesLeak, Leaked, File, Free
<1>2. LeakInv /\ [Next]_vars => LeakInv'
  <2> SUFFICES ASSUME LeakInv, [Next]_vars PROVE LeakInv'
    OBVIOUS
  <2>1. TypeInv'
    BY TypeNext
  <2>2. CASE Next
    <3>1. OnlyRefusedWritesLeak'
      BY <2>2, LeakNext DEF OnlyRefusedWritesLeak
    <3> QED
      BY <2>1, <3>1
  <2>3. CASE UNCHANGED vars
    <3>1. OnlyRefusedWritesLeak'
      BY <2>3 DEF OnlyRefusedWritesLeak, NoWildAccess, Leaked, LineAt, vars
    <3> QED
      BY <2>1, <3>1
  <2> QED
    BY <2>2, <2>3
<1>3. LeakInv => OnlyRefusedWritesLeak
  OBVIOUS
<1> QED
  BY <1>1, <1>2, <1>3, PTL DEF Spec

-----------------------------------------------------------------------------
(* /dev/mem and the descriptors of others.  The discipline: one openGPIO   *)
(* or closeGPIO at a time.  Accesses overlap everything, in either mode.   *)

Managing(t) == InCall(t) /\ call[t].op \in {"open", "close"}

OneManages == \A t, u \in Threads : Managing(t) /\ Managing(u) => t = u

DevMems == {f \in Fd : fds[f].kind = "devmem"}

\* The moments at which /dev/mem is open: in use, about to be, or being mapped.
DevMemInUse ==
  \/ initialized /\ usingMmap /\ \A t \in Threads : pc[t] # "clear"
  \/ usingMmap /\ \E t \in Threads : pc[t] = "done"
  \/ fdGPIO \in Fd /\ \E t \in Threads : pc[t] = "map"

\* It is open then; at no other moment, unless a mapping is refused: openGPIO
\* then returns without closing it.
DevMemIsOpen ==
  /\ DevMemInUse => fdGPIO \in DevMems
  /\ "mmap" \notin Failures => DevMems \subseteq IF DevMemInUse THEN {fdGPIO} ELSE {}

DevMemInv ==
  /\ DevMemIsOpen
  /\ \A t \in Threads :
       /\ pc[t] \in OpenPcs => ~initialized /\ call[t].op = "open"
       /\ pc[t] \in {"devmem", "map"} => usingMmap
       /\ pc[t] \in {"closefd", "clear"} => call[t].op = "close"
       /\ pc[t] = "closefd" => usingMmap
       /\ pc[t] = "closefd" \/ (pc[t] = "select" /\ call[t].op = "close") => initialized

\* An access that has gone wild has ended every thread.
AllDead == Threads # {} /\ \A t \in Threads : pc[t] = "dead"

DescInv == TypeInv /\ (AllDead \/ (OneManages /\ PrivateFd /\ DevMemInv))

\* No descriptor is open at the start.
LEMMA DescInit == Init => DescInv
  BY TypeInit DEF Init, DescInv, OneManages, Managing, InCall, PrivateFd, FilePcs, DevMemInv, DevMemIsOpen,
     DevMems, DevMemInUse, OpenPcs, File, Free

\* With opens and closes that exclude one another, one thread at most manages descriptors.
LEMMA ManagesNext ==
  ASSUME OpensAndClosesExclude, TypeInv, OneManages, Next
  PROVE  OneManages'
<1> USE DEF OneManages, Managing, InCall
<1>1. ASSUME NEW t \in Threads, NEW c \in Calls, Enter(t, c) PROVE OneManages'
  <2>1. call'[t] = c
    BY <1>1 DEF Enter
  <2>2. \A u \in Threads : u # t => pc'[u] = pc[u] /\ call'[u] = call[u]
    BY <1>1 DEF Enter
  <2>3. \A u \in Threads : InCall(u) => call[u] \in Calls /\ Together(c, call[u])
    BY <1>1 DEF Enter, PlaceOK, Together
  <2> QED
    BY <2>1, <2>2, <2>3 DEF OpensAndClosesExclude
<1>2. ASSUME NEW t \in Threads, Proceed(t) PROVE OneManages'
  BY <1>2, ProceedKeepsCalls
<1>3. CASE OtherOpen \/ OtherClose \/ \E line \in Inputs : Drive(line)
  BY <1>3 DEF OtherOpen, OtherClose, Drive
<1> QED
  BY <1>1, <1>2, <1>3 DEF Next

\* A step outside openGPIO and closeGPIO leaves /dev/mem and its mode alone.
LEMMA DevMemStays ==
  ASSUME DevMemInv, UNCHANGED <<initialized, usingMmap, fdGPIO>>, DevMems' = DevMems,
         \A t \in Threads : pc[t] \in OpenPcs \cup {"clear"} => pc'[t] = pc[t],
         \A t \in Threads :
           pc'[t] \in OpenPcs \cup {"closefd", "clear"} \/ (pc'[t] = "select" /\ call'[t].op = "close") =>
             pc'[t] = pc[t] /\ call'[t] = call[t]
  PROVE  DevMemInv'
<1>1. DevMemInUse' <=> DevMemInUse
  BY DEF DevMemInUse, OpenPcs
<1> QED
  BY <1>1 DEF DevMemInv, DevMemIsOpen, OpenPcs

\* A step of openGPIO keeps one descriptor of /dev/mem, the one it remembers.
LEMMA DevMemOpen ==
  ASSUME TypeInv, OneManages, DevMemInv, NEW t \in Threads, Open(t)
  PROVE  DevMemInv'
<1> USE DEF DevMemInv, DevMemIsOpen
<1>0. /\ call[t].op = "open"
      /\ \A u \in Threads : u # t => pc[u] \notin OpenPcs \cup {"closefd", "clear"}
                                     /\ ~(pc[u] = "select" /\ call[u].op = "close")
  <2>1. Managing(t) /\ call[t].op = "open"
    BY DEF Open, OpenStart, OpenMode, OpenDevMem, OpenMapBank, OpenDone, Managing, InCall, OpenPcs
  <2> QED
    BY <2>1 DEF OneManages, Managing, InCall, OpenPcs
<1>1. CASE OpenStart(t)
  <2>1. CASE initialized
    BY <1>0, <1>1, <2>1 DEF OpenStart, DevMems, DevMemInUse, OpenPcs
  <2>2. CASE ~initialized
    BY <1>0, <1>1, <2>2 DEF OpenStart, DevMems, DevMemInUse, OpenPcs
  <2> QED
    BY <2>1, <2>2
<1>2. CASE OpenMode(t)
  BY <1>0, <1>2 DEF OpenMode, DevMems, DevMemInUse, OpenPcs
<1>3. CASE OpenDevMem(t)
  <2>1. /\ pc[t] = "devmem" /\ ~initialized /\ usingMmap /\ ~DevMemInUse
        /\ pc' = [pc EXCEPT ![t] = "map"] /\ UNCHANGED <<initialized, usingMmap, call>>
    BY <1>0, <1>3 DEF OpenDevMem, DevMemInUse, OpenPcs
  <2>2. /\ fdGPIO' \in Fd => DevMems' = DevMems \cup {fdGPIO'}
        /\ fdGPIO' \notin Fd => DevMems' = DevMems
    <3>1. CASE fdGPIO' = -1 /\ UNCHANGED fds
      BY <3>1 DEF DevMems, Fd
    <3>2. CASE \E f \in Fd : fds' = [fds EXCEPT ![f] = File("devmem", 0, t)] /\ fdGPIO' = f
      BY <3>2 DEF DevMems, File
    <3> QED
      BY <1>3, <3>1, <3>2 DEF OpenDevMem
  <2>3. DevMemInUse' <=> fdGPIO' \in Fd
    BY <1>0, <2>1 DEF DevMemInUse
  <2> QED
    BY <1>0, <2>1, <2>2, <2>3 DEF OpenPcs
<1>4. CASE OpenMapBank(t)
  <2>1. /\ pc[t] = "map" /\ ~initialized /\ usingMmap /\ DevMems' = DevMems
        /\ DevMemInUse <=> fdGPIO \in Fd
        /\ UNCHANGED <<initialized, usingMmap, fdGPIO, call>>
    BY <1>0, <1>4 DEF OpenMapBank, DevMems, DevMemInUse, OpenPcs
  <2>2. Mappable <=> fdGPIO \in Fd
    BY <2>1 DEF Mappable, DevMems
  <2>3. CASE Mappable /\ (pc' = [pc EXCEPT ![t] = "done"] \/ UNCHANGED pc)
    <3>1. DevMemInUse'
      BY <1>0, <2>1, <2>2, <2>3 DEF DevMemInUse
    <3> QED
      BY <1>0, <2>1, <2>2, <2>3, <3>1 DEF OpenPcs
  <2>4. CASE (~Mappable \/ "mmap" \in Failures) /\ pc' = [pc EXCEPT ![t] = "return"]
    <3>1. ~DevMemInUse'
      BY <1>0, <2>1, <2>4 DEF DevMemInUse, OpenPcs
    <3> QED
      BY <1>0, <2>1, <2>2, <2>4, <3>1 DEF OpenPcs
  <2> QED
    BY <1>4, <2>3, <2>4 DEF OpenMapBank
<1>5. CASE OpenDone(t)
  BY <1>0, <1>5 DEF OpenDone, DevMems, DevMemInUse, OpenPcs
<1> QED
  BY <1>1, <1>2, <1>3, <1>4, <1>5 DEF Open

\* A step of closeGPIO closes the descriptor of /dev/mem it remembers, and no other.
LEMMA DevMemClose ==
  ASSUME TypeInv, OneManages, DevMemInv, NEW t \in Threads, Close(t)
  PROVE  DevMemInv'
<1> USE DEF DevMemInv, DevMemIsOpen
<1>0. /\ call[t].op = "close"
      /\ \A u \in Threads : u # t => pc[u] \notin OpenPcs \cup {"closefd", "clear"}
                                     /\ ~(pc[u] = "select" /\ call[u].op = "close")
  <2>1. Managing(t) /\ call[t].op = "close"
    BY DEF Close, CloseStart, CloseSelect, CloseFd, CloseClear, Managing, InCall
  <2> QED
    BY <2>1 DEF OneManages, Managing, InCall, OpenPcs
<1>1. CASE CloseStart(t)
  BY <1>0, <1>1 DEF CloseStart, DevMems, DevMemInUse, OpenPcs
<1>2. CASE CloseSelect(t)
  BY <1>0, <1>2 DEF CloseSelect, DevMems, DevMemInUse, OpenPcs
<1>3. CASE CloseFd(t)
  <2>1. /\ pc[t] = "closefd" /\ DevMemInUse /\ fds' = Closed(fds, fdGPIO)
        /\ pc' = [pc EXCEPT ![t] = "clear"] /\ UNCHANGED <<initialized, usingMmap, fdGPIO, call>>
    BY <1>0, <1>3 DEF CloseFd, DevMemInUse
  <2>2. DevMems' = DevMems \ {fdGPIO}
    BY <2>1 DEF DevMems, Closed, Free, File
  <2>3. ~DevMemInUse'
    BY <1>0, <2>1 DEF DevMemInUse, OpenPcs
  <2> QED
    BY <1>0, <2>1, <2>2, <2>3 DEF OpenPcs
<1>4. CASE CloseClear(t)
  BY <1>0, <1>4 DEF CloseClear, DevMems, DevMemInUse, OpenPcs
<1> QED
  BY <1>1, <1>2, <1>3, <1>4 DEF Close

\* Where closeGPIO closes a descriptor it closes /dev/mem.
LEMMA CloseFdClosesDevMem ==
  ASSUME OneManages, DevMemInv, NEW t \in Threads, pc[t] = "closefd"
  PROVE  fdGPIO \in Fd /\ fds[fdGPIO].kind = "devmem"
<1>1. initialized /\ usingMmap
  BY DEF DevMemInv
<1>2. \A u \in Threads : pc[u] # "clear"
  <2> SUFFICES ASSUME NEW u \in Threads, pc[u] = "clear" PROVE FALSE
    OBVIOUS
  <2>1. Managing(t) /\ Managing(u)
    BY DEF DevMemInv, Managing, InCall
  <2> QED
    BY <2>1 DEF OneManages
<1> QED
  BY <1>1, <1>2 DEF DevMemInv, DevMemIsOpen, DevMemInUse, DevMems

\* Every step keeps what is known of the descriptor of /dev/mem.
LEMMA DevMemNext ==
  ASSUME TypeInv, OneManages, PrivateFd, DevMemInv, Next, \A t \in Threads : ~Fault(t)
  PROVE  DevMemInv'
<1>1. ASSUME NEW t \in Threads, NEW c \in Calls, Enter(t, c) PROVE DevMemInv'
  <2>1. DevMems' = DevMems
    BY <1>1 DEF Enter, DevMems
  <2>2. \A u \in Threads : u # t => pc'[u] = pc[u] /\ call'[u] = call[u]
    BY <1>1 DEF Enter
  <2>3. pc[t] = "idle" /\ pc'[t] = "start"
    BY <1>1 DEF Enter
  <2>4. UNCHANGED <<initialized, usingMmap, fdGPIO>>
    BY <1>1 DEF Enter
  <2> QED
    BY <2>1, <2>2, <2>3, <2>4, DevMemStays DEF OpenPcs
<1>2. ASSUME NEW t \in Threads, Access(t) \/ Mmap(t) \/ Leave(t) PROVE DevMemInv'
  <2>1. UNCHANGED <<initialized, usingMmap, fdGPIO, fds>>
    BY <1>2 DEF Access, AccessStart, AccessSelect, Mmap, ReadDataIn, LoadDataOut, StoreDataOut, Fault, Leave
  <2>2. DevMems' = DevMems
    BY <2>1 DEF DevMems
  <2>3. \A u \in Threads : u # t => pc'[u] = pc[u] /\ call'[u] = call[u]
    <3>1. CASE AccessStart(t)
      BY ZenonT(60), <3>1, AccessStartEffect DEF AccessStart
    <3> QED
      BY <1>2, <3>1 DEF Access, AccessSelect, Mmap, ReadDataIn, LoadDataOut, StoreDataOut, Leave
  <2>4. /\ pc[t] \notin OpenPcs \cup {"closefd", "clear"}
        /\ pc'[t] \notin OpenPcs \cup {"closefd", "clear"} /\ ~(pc'[t] = "select" /\ call'[t].op = "close")
    <3>1. CASE AccessStart(t)
      BY ZenonT(60), <3>1, AccessStartEffect DEF AccessStart, OpenPcs
    <3>2. CASE AccessSelect(t)
      BY <3>2 DEF AccessSelect, OpenPcs
    <3>3. CASE Mmap(t) \/ Leave(t)
      BY <3>3 DEF Mmap, ReadDataIn, LoadDataOut, StoreDataOut, Leave, OpenPcs
    <3> QED
      BY <1>2, <3>1, <3>2, <3>3 DEF Access
  <2> QED
    BY <2>1, <2>2, <2>3, <2>4, DevMemStays
<1>3. ASSUME NEW t \in Threads, FileSystem(t) PROVE DevMemInv'
  <2>1. UNCHANGED <<initialized, usingMmap, fdGPIO, call>>
    BY <1>3 DEF FileSystem, FormatStart, FormatEnd, FsOpen, FsRead, FsWrite, FsClose
  <2>2. \A u \in Threads : u # t => pc'[u] = pc[u]
    BY <1>3 DEF FileSystem, FormatStart, FormatEnd, FsOpen, FsRead, FsWrite, FsClose
  <2>3. pc[t] \in FilePcs \cup {"format", "formatting", "fsopen"}
    BY <1>3 DEF FileSystem, FormatStart, FormatEnd, FsOpen, FsRead, FsWrite, FsClose, FilePcs
  <2>4. pc'[t] \in FilePcs \cup {"formatting", "fsopen", "return"}
    BY <1>3 DEF FileSystem, FormatStart, FormatEnd, FsOpen, FsRead, FsWrite, FsClose, FilePcs
  <2>5. DevMems' = DevMems
    <3>1. CASE FsOpen(t)
      <4>1. UNCHANGED fds \/ \E f \in Fd, id \in Ids : fds[f].kind = "free" /\ fds' = [fds EXCEPT ![f] = File("value", id, t)]
        <5>1. Spelled(fsBuf, Ids) \subseteq Ids
          BY DEF Spelled
        <5> QED
          BY <3>1, <5>1, LowestIsFree DEF FsOpen
      <4>2. CASE UNCHANGED fds
        BY <4>2 DEF DevMems
      <4>3. ASSUME NEW f \in Fd, NEW id \in Ids, fds[f].kind = "free",
                   fds' = [fds EXCEPT ![f] = File("value", id, t)]
            PROVE  DevMems' = DevMems
        BY <4>3 DEF DevMems, File
      <4> QED
        BY <4>1, <4>2, <4>3
    <3>2. CASE FsClose(t)
      <4>1. fd[t] \in Fd /\ fds[fd[t]].kind = "value" /\ fds' = Closed(fds, fd[t])
        BY <3>2 DEF FsClose, PrivateFd, FilePcs
      <4> QED
        BY <4>1 DEF DevMems, Closed, Free, File
    <3>3. CASE UNCHANGED fds
      BY <3>3 DEF DevMems
    <3> QED
      BY <1>3, <3>1, <3>2, <3>3 DEF FileSystem, FormatStart, FormatEnd, FsRead, FsWrite
  <2> QED
    BY <2>1, <2>2, <2>3, <2>4, <2>5, DevMemStays DEF OpenPcs, FilePcs
<1>4. CASE OtherOpen \/ OtherClose \/ \E line \in Inputs : Drive(line)
  <2>1. DevMems' = DevMems
    <3>1. CASE OtherOpen
      <4>1. PICK f \in Fd : fds[f].kind = "free" /\ fds' = [fds EXCEPT ![f] = File("other", 0, NoOwner)]
        BY <3>1, LowestIsFree DEF OtherOpen
      <4> QED
        BY <4>1 DEF DevMems, File
    <3>2. CASE OtherClose
      BY <3>2 DEF OtherClose, DevMems, Closed, Free, File
    <3>3. CASE \E line \in Inputs : Drive(line)
      BY <3>3 DEF Drive, DevMems
    <3> QED
      BY <1>4, <3>1, <3>2, <3>3
  <2> QED
    BY <1>4, <2>1, DevMemStays DEF OtherOpen, OtherClose, Drive
<1>5. ASSUME NEW t \in Threads, Open(t) \/ Close(t) PROVE DevMemInv'
  BY <1>5, DevMemOpen, DevMemClose
<1> QED
  BY <1>1, <1>2, <1>3, <1>4, <1>5 DEF Next, Proceed

\* In a process that has ended no thread takes a step.
LEMMA NothingRuns ==
  ASSUME Next, \A t \in Threads : pc[t] = "dead"
  PROVE  UNCHANGED pc
<1>1. ASSUME NEW t \in Threads, NEW c \in Calls, Enter(t, c) PROVE FALSE
  BY <1>1 DEF Enter
<1>2. ASSUME NEW t \in Threads, Open(t) \/ Access(t) PROVE FALSE
  BY <1>2 DEF Open, OpenStart, OpenMode, OpenDevMem, OpenMapBank, OpenDone, Access, AccessStart, AccessSelect
<1>3. ASSUME NEW t \in Threads, Mmap(t) \/ FileSystem(t) PROVE FALSE
  BY <1>3 DEF Mmap, ReadDataIn, LoadDataOut, StoreDataOut, Fault, MmapPcs,
              FileSystem, FormatStart, FormatEnd, FsOpen, FsRead, FsWrite, FsClose
<1>4. ASSUME NEW t \in Threads, Close(t) \/ Leave(t) PROVE FALSE
  BY <1>4 DEF Close, CloseStart, CloseSelect, CloseFd, CloseClear, Leave
<1>5. CASE OtherOpen \/ OtherClose \/ \E line \in Inputs : Drive(line)
  BY <1>5 DEF OtherOpen, OtherClose, Drive
<1> QED
  BY <1>1, <1>2, <1>3, <1>4, <1>5 DEF Next, Proceed

\* DescInv is inductive.
LEMMA DescNext ==
  ASSUME OpensAndClosesExclude
  PROVE  DescInv /\ [Next]_vars => DescInv'
<1> SUFFICES ASSUME DescInv, [Next]_vars PROVE DescInv'
  OBVIOUS
<1>1. TypeInv'
  BY TypeNext DEF DescInv
<1>2. CASE Next /\ OneManages /\ PrivateFd /\ DevMemInv
  <2>1. CASE \E t \in Threads : Fault(t)
    BY <1>1, <2>1 DEF Fault, DescInv, AllDead
  <2>2. CASE \A t \in Threads : ~Fault(t)
    <3>1. OneManages'
      BY <1>2, ManagesNext DEF DescInv
    <3>2. PrivateFd'
      BY <1>2, CloseFdClosesDevMem, PrivateNext DEF DescInv
    <3>3. DevMemInv'
      BY <1>2, <2>2, DevMemNext DEF DescInv
    <3> QED
      BY <1>1, <3>1, <3>2, <3>3 DEF DescInv
  <2> QED
    BY <2>1, <2>2
<1>3. CASE Next /\ AllDead
  <2>1. UNCHANGED pc
    BY <1>3, NothingRuns DEF AllDead
  <2> QED
    BY <1>1, <1>3, <2>1 DEF DescInv, AllDead
<1>4. CASE UNCHANGED vars
  BY <1>1, <1>4 DEF DescInv, AllDead, OneManages, Managing, InCall, PrivateFd, DevMemInv, DevMemIsOpen,
     DevMemInUse, DevMems, vars
<1> QED
  BY <1>2, <1>3, <1>4 DEF DescInv

\* With one openGPIO or closeGPIO at a time, and accesses that overlap them and
\* each other in any mode: no read or write ever works on a file it has not
\* opened, for closeGPIO only ever closes /dev/mem (gpio.c:263-268, 292-305, 399).
THEOREM PrivateFdInBothModes ==
  ASSUME OpensAndClosesExclude
  PROVE  Spec => []PrivateFd
<1>1. Spec => []DescInv
  BY DescInit, DescNext, PTL DEF Spec
<1>2. DescInv => PrivateFd
  BY DEF DescInv, AllDead, PrivateFd, FilePcs
<1> QED
  BY <1>1, <1>2, PTL

\* If, besides, no mapping is refused, then whenever no call is in progress
\* /dev/mem is open once, in fdGPIO, while the memory map is in use, and not at
\* all otherwise, however often the modes have changed (gpio.c:171-200, 396-401).
THEOREM DevMemHeldWhileOpenHolds ==
  ASSUME OpensAndClosesExclude, "mmap" \notin Failures
  PROVE  Spec => []DevMemHeldWhileOpen
<1>1. Spec => []DescInv
  BY DescInit, DescNext, PTL DEF Spec
<1>2. DescInv => DevMemHeldWhileOpen
  <2> SUFFICES ASSUME DescInv, Quiet PROVE DevMems = IF initialized /\ usingMmap THEN {fdGPIO} ELSE {}
    BY DEF DevMemHeldWhileOpen, DevMems
  <2>1. DevMemInv
    BY DEF DescInv, AllDead, Quiet
  <2>2. DevMemInUse <=> initialized /\ usingMmap
    BY DEF DevMemInUse, Quiet
  <2> QED
    BY <2>1, <2>2 DEF DevMemInv, DevMemIsOpen
<1> QED
  BY <1>1, <1>2, PTL

\* Nor does a step of the GPIO code ever close a descriptor of another component,
\* although fdGPIO keeps its number after /dev/mem has been closed and the number
\* has been given away, and although openGPIO may have failed (gpio.c:181, 399).
THEOREM ForeignFdsKeptHolds ==
  ASSUME OpensAndClosesExclude
  PROVE  Spec => ForeignFdsKept
<1> DEFINE Kept == \A f \in Fd : fds[f].kind = "other" /\ fds'[f] # fds[f] => UNCHANGED pc
<1>1. Spec => []DescInv
  BY DescInit, DescNext, PTL DEF Spec
<1>2. DescInv /\ [Next]_vars => [Kept]_vars
  <2> SUFFICES ASSUME DescInv, Next, NEW f \in Fd, fds[f].kind = "other", fds'[f] # fds[f], pc' # pc
               PROVE  FALSE
    BY DEF DescInv
  <2>1. ~AllDead
    BY NothingRuns DEF AllDead
  <2>2. ASSUME NEW t \in Threads, OpenDevMem(t) PROVE FALSE
    <3>1. CASE UNCHANGED fds
      BY <3>1
    <3>2. ASSUME NEW g \in Fd, IsLowestFree(fds, g), fds' = [fds EXCEPT ![g] = File("devmem", 0, t)]
          PROVE  FALSE
      BY <3>2, LowestIsFree
    <3> QED
      BY <2>2, <3>1, <3>2 DEF OpenDevMem
  <2>3. ASSUME NEW t \in Threads, FsOpen(t) PROVE FALSE
    <3>1. CASE UNCHANGED fds
      BY <3>1
    <3>2. ASSUME NEW id, NEW g \in Fd, IsLowestFree(fds, g), fds' = [fds EXCEPT ![g] = File("value", id, t)]
          PROVE  FALSE
      BY <3>2, LowestIsFree
    <3> QED
      BY <2>3, <3>1, <3>2 DEF FsOpen
  <2>4. ASSUME NEW t \in Threads, FsClose(t) PROVE FALSE
    BY <2>1, <2>4 DEF FsClose, Closed, DescInv, PrivateFd, FilePcs
  <2>5. ASSUME NEW t \in Threads, CloseFd(t) PROVE FALSE
    BY <2>1, <2>5, CloseFdClosesDevMem DEF CloseFd, Closed, DescInv
  <2>6. ASSUME NEW t \in Threads, NEW c \in Calls, Enter(t, c) PROVE FALSE
    BY <2>6 DEF Enter
  <2>7. ASSUME NEW t \in Threads, OpenStart(t) \/ OpenMode(t) \/ OpenMapBank(t) \/ OpenDone(t) PROVE FALSE
    BY <2>7 DEF OpenStart, OpenMode, OpenMapBank, OpenDone
  <2>8. ASSUME NEW t \in Threads, Access(t) \/ Mmap(t) \/ Leave(t) PROVE FALSE
    BY <2>8 DEF Access, AccessStart, AccessSelect, Mmap, ReadDataIn, LoadDataOut, StoreDataOut, Fault, Leave
  <2>9. ASSUME NEW t \in Threads, FormatStart(t) \/ FormatEnd(t) \/ FsRead(t) \/ FsWrite(t) PROVE FALSE
    BY <2>9 DEF FormatStart, FormatEnd, FsRead, FsWrite
  <2>10. ASSUME NEW t \in Threads, CloseStart(t) \/ CloseSelect(t) \/ CloseClear(t) PROVE FALSE
    BY <2>10 DEF CloseStart, CloseSelect, CloseClear
  <2>11. CASE OtherOpen \/ OtherClose \/ \E line \in Inputs : Drive(line)
    BY <2>11 DEF OtherOpen, OtherClose, Drive
  <2> QED
    BY <2>2, <2>3, <2>4, <2>5, <2>6, <2>7, <2>8, <2>9, <2>10, <2>11
    DEF Next, Proceed, Open, FileSystem, Close
<1> QED
  BY <1>1, <1>2, PTL DEF Spec, ForeignFdsKept

-----------------------------------------------------------------------------
(* The accesses are atomic.  The discipline: the memory map only, an       *)
(* openGPIO overlaps nothing but closeGPIO, and two writes overlap only    *)
(* when they are for different banks.  Reads overlap everything else.      *)

\* How far a call has come shows in its place and its locals.
CallInv ==
  \A t \in Threads :
    /\ pc[t] = "idle" => call[t] = NoCall
    /\ took[t] => pc[t] = "return"
    /\ pc[t] \in {"closefd", "clear"} => call[t].op = "close"
    /\ pc[t] = "dataIn" => call[t].op = "read"

LinesInv == WildInv /\ StoreInv /\ CallInv

\* The calls in progress stay reads and writes of pins that have a line.
LEMMA CallNext ==
  ASSUME LinesInv, Next
  PROVE  CallInv'
<1> USE DEF CallInv, LinesInv, StoreInv, WildInv
<1>1. ASSUME NEW t \in Threads, NEW c \in Calls, Enter(t, c) PROVE CallInv'
  BY <1>1 DEF Enter
<1>2. ASSUME NEW t \in Threads, Open(t) \/ Close(t) \/ Leave(t) PROVE CallInv'
  <2>1. /\ \A u \in Threads : u # t => pc'[u] = pc[u] /\ call'[u] = call[u] /\ took'[u] = took[u]
        /\ ~took'[t]
        /\ pc'[t] = "idle" => call'[t] = NoCall
        /\ pc'[t] \in {"closefd", "clear"} => call'[t].op = "close"
        /\ pc'[t] # "dataIn"
    BY <1>2 DEF Open, OpenStart, OpenMode, OpenDevMem, OpenMapBank, OpenDone,
       Close, CloseStart, CloseSelect, CloseFd, CloseClear, Leave
  <2> QED
    BY <2>1
<1>3. ASSUME NEW t \in Threads, AccessStart(t) PROVE CallInv'
  <2>1. Goto(t, "return") \/ Goto(t, "select")
    BY <1>3, AccessStartEffect
  <2> QED
    BY <1>3, <2>1 DEF AccessStart
<1>4. ASSUME NEW t \in Threads, AccessSelect(t) PROVE CallInv'
  BY <1>4 DEF AccessSelect
<1>5. ASSUME NEW t \in Threads, Mmap(t) PROVE CallInv'
  BY <1>5, NoFault DEF Mmap, ReadDataIn, LoadDataOut, StoreDataOut
<1>6. ASSUME NEW t \in Threads, FileSystem(t) PROVE FALSE
  BY <1>6 DEF FileSystem, FormatStart, FormatEnd, FsOpen, FsRead, FsWrite, FsClose,
              MmapChosen, FsPcs, FilePcs
<1>7. CASE OtherOpen \/ OtherClose \/ \E line \in Inputs : Drive(line)
  BY <1>7 DEF OtherOpen, OtherClose, Drive
<1> QED
  BY <1>1, <1>2, <1>3, <1>4, <1>5, <1>6, <1>7 DEF Next, Proceed, Access

\* LinesInv is inductive.
LEMMA LinesNext ==
  ASSUME OpensExclude, MmapOnly, WritersExclude
  PROVE  LinesInv /\ [Next]_vars => LinesInv'
<1> SUFFICES ASSUME LinesInv, [Next]_vars PROVE LinesInv'
  OBVIOUS
<1>1. WildInv' /\ StoreInv'
  BY WildNext, StoreNext DEF LinesInv
<1>2. CallInv'
  BY CallNext DEF LinesInv, CallInv, vars
<1> QED
  BY <1>1, <1>2 DEF LinesInv

AbstractOps == [t \in Threads |-> AbstractOp(t)]

\* A thread that stays where it is, or moves inside its call, has come no
\* further in the abstract.
LEMMA SameOp ==
  ASSUME NEW u \in Threads, call'[u] = call[u], took'[u] = took[u], ret'[u] = ret[u],
         pc'[u] = "return" <=> pc[u] = "return"
  PROVE  AbstractOp(u)' = AbstractOp(u)
  BY DEF AbstractOp, PinCheck, Pin

\* A step of one thread is a step of its abstract operation.
LEMMA OneMoves ==
  ASSUME NEW t \in Threads, \A u \in Threads : u # t => AbstractOp(u)' = AbstractOp(u)
  PROVE  AbstractOps' = [AbstractOps EXCEPT ![t] = AbstractOp(t)']
  BY DEF AbstractOps

\* The lines are high or low by the registers alone.
LEMMA SameHigh ==
  ASSUME UNCHANGED <<dataOut, driven>>
  PROVE  High' = High
  BY DEF High, DataIn

\* A call that is neither a read nor a write of a GPIO pin is nothing to the lines.
IsAccess(c) == c.op \in {"read", "write"} /\ PinCheck(c) = "gpio"

\* A call that is not an access looks the same to the lines wherever it is.
LEMMA NotAnAccess ==
  ASSUME NEW u \in Threads, ~IsAccess(call[u]), ~IsAccess(call'[u])
  PROVE  AbstractOp(u)' = AbstractOp(u)
  BY DEF AbstractOp, IsAccess, PinCheck

\* The abstract operations, updated field by field as the abstract actions do.
LEMMA PhaseMoves ==
  ASSUME NEW t \in Threads, NEW k, NEW l, NEW v, NEW p,
         AbstractOp(t) = [phase |-> "pending", kind |-> k, line |-> l, val |-> v],
         AbstractOp(t)' = [phase |-> p, kind |-> k, line |-> l, val |-> v],
         \A u \in Threads : u # t => AbstractOp(u)' = AbstractOp(u)
  PROVE  AbstractOps' = [AbstractOps EXCEPT ![t].phase = p]
<1>1. PICK r : r = [AbstractOps[t] EXCEPT !.phase = p]
  OBVIOUS
<1>2. AbstractOps[t] = [phase |-> "pending", kind |-> k, line |-> l, val |-> v]
  BY DEF AbstractOps
<1>3. r = AbstractOp(t)'
  BY <1>1, <1>2
<1> QED
  BY <1>1, <1>3, OneMoves

\* One operation of the lines moves when one call does, and the others stay.
LEMMA PhaseAndValMove ==
  ASSUME NEW t \in Threads, NEW k, NEW l, NEW v, NEW p, NEW w,
         AbstractOp(t) = [phase |-> "pending", kind |-> k, line |-> l, val |-> v],
         AbstractOp(t)' = [phase |-> p, kind |-> k, line |-> l, val |-> w],
         \A u \in Threads : u # t => AbstractOp(u)' = AbstractOp(u)
  PROVE  AbstractOps' = [AbstractOps EXCEPT ![t].phase = p, ![t].val = w]
<1>1. PICK r : r = [AbstractOps[t] EXCEPT !.phase = p]
  OBVIOUS
<1>2. AbstractOps[t] = [phase |-> "pending", kind |-> k, line |-> l, val |-> v]
  BY DEF AbstractOps
<1>3. r = [phase |-> p, kind |-> k, line |-> l, val |-> v]
  BY <1>1, <1>2
<1>4. PICK s : s = [r EXCEPT !.val = w]
  OBVIOUS
<1>5. s = AbstractOp(t)'
  BY <1>3, <1>4
<1> QED
  BY ZenonT(60), <1>1, <1>4, <1>5, OneMoves

\* A readGPIO that reads the register sees the level its line has.
LEMMA ReadTakes ==
  ASSUME LinesInv, NEW t \in Threads, ReadDataIn(t)
  PROVE  Abstract!TakeRead(t)
<1> DEFINE e == Pin(call[t])
<1>1. /\ call[t] \in Calls /\ PinCheck(call[t]) = "gpio" /\ call[t].op = "read"
      /\ pc[t] = "dataIn" /\ ~took[t]
  BY DEF ReadDataIn, LinesInv, WildInv, CallInv, PlaceOK, AccessPcs, MmapPcs
<1>2. /\ e \in Entries /\ e.bank \in Banks /\ e.mask \in Masks /\ e.mask # 0 /\ LineOf(e) \in Lines
  BY <1>1, EntryFacts, PinsAssumption
<1>3. LineOf(e) \in High <=> e.mask \in DataIn(e.bank)
  BY <1>2 DEF High, LineOf
<1>4. /\ call' = call /\ took'[t] = TRUE /\ ret'[t] = IF e.mask \in DataIn(e.bank) THEN e.mask ELSE 0
      /\ \A u \in Threads : u # t => pc'[u] = pc[u] /\ took'[u] = took[u] /\ ret'[u] = ret[u]
  BY DEF ReadDataIn, LinesInv, WildInv
<1>5. PICK l, v, w : l = LineOf(e) /\ v = FALSE /\ w = (LineOf(e) \in High)
  OBVIOUS
<1>6. AbstractOp(t) = [phase |-> "pending", kind |-> "read", line |-> l, val |-> v]
  BY <1>1, <1>5 DEF AbstractOp
<1>7. AbstractOp(t)' = [phase |-> "taken", kind |-> "read", line |-> l, val |-> w]
  <2>1. call[t]' = call[t] /\ took[t]' = TRUE /\ (ret[t]' # 0) = w
    BY <1>2, <1>3, <1>4, <1>5
  <2>2. (PinCheck(call[t]) = "gpio")' /\ LineOf(Pin(call[t]))' = l
    BY <1>1, <1>5, <2>1 DEF PinCheck, Pin, LineOf
  <2> QED
    BY <1>1, <2>1, <2>2 DEF AbstractOp
<1>8. \A u \in Threads : u # t => AbstractOp(u)' = AbstractOp(u)
  BY <1>4, SameOp
<1>9. AbstractOps' = [AbstractOps EXCEPT ![t].phase = "taken", ![t].val = w]
  BY <1>6, <1>7, <1>8, PhaseAndValMove
<1>10. /\ AbstractOps[t].phase = "pending" /\ AbstractOps[t].kind = "read"
       /\ w = (AbstractOps[t].line \in High)
  BY <1>5, <1>6 DEF AbstractOps
<1>11. High' = High
  BY SameHigh DEF ReadDataIn
<1> QED
  BY <1>9, <1>10, <1>11 DEF Abstract!TakeRead, AbstractOps

\* The level of a line: of an input what drives it, of an output its register bit.
LEMMA LevelOf ==
  ASSUME NEW l \in Lines
  PROVE  /\ l \in High <=> IF l \in Inputs THEN l \in driven ELSE l[2] \in dataOut[l[1]]
         /\ l \in High' <=> IF l \in Inputs THEN l \in driven' ELSE l[2] \in dataOut'[l[1]]
<1>1. PICK e \in Entries : l = <<e.bank, e.mask>>
  BY DEF Lines, LineOf
<1>2. e.mask \in Masks
  BY DEF Masks
<1> QED
  BY <1>1, <1>2 DEF High, DataIn

\* A store sets the level of the line it is for, and of no other.
LEMMA StoreSetsLevel ==
  ASSUME LinesInv, NEW t \in Threads, StoreDataOut(t), NEW l \in Lines
  PROVE  l \in High' <=> IF l = LineOf(Pin(call[t])) /\ l \notin Inputs THEN call[t].arg ELSE l \in High
<1> DEFINE e == Pin(call[t])
<1>1. /\ call[t] \in Calls /\ PinCheck(call[t]) = "gpio" /\ call[t].op = "write" /\ pc[t] = "store"
  BY DEF StoreDataOut, LinesInv, WildInv, PlaceOK, AccessPcs, MmapPcs
<1>2. e.bank \in Banks /\ reg[t] = dataOut[e.bank] /\ UNCHANGED driven
  BY <1>1, EntryFacts DEF StoreDataOut, LinesInv, StoreInv, RegFresh
<1>3. dataOut' = [dataOut EXCEPT ![e.bank] = Modified(dataOut[e.bank], e.mask, call[t].arg)]
  BY <1>1, <1>2 DEF StoreDataOut
<1>4. PICK d \in Entries : l = <<d.bank, d.mask>>
  BY DEF Lines, LineOf
<1>5. d.bank \in Banks /\ call[t].arg \in BOOLEAN
  BY <1>1, PinsAssumption, CallsAssumption DEF Call
<1>6. d.mask \in dataOut'[d.bank] <=>
        IF d.bank = e.bank /\ d.mask = e.mask THEN call[t].arg ELSE d.mask \in dataOut[d.bank]
  BY <1>2, <1>3, <1>5 DEF Modified, LinesInv, WildInv
<1>7. l = LineOf(e) <=> d.bank = e.bank /\ d.mask = e.mask
  BY <1>4 DEF LineOf
<1> HIDE DEF e
<1> QED
  BY <1>2, <1>4, <1>6, <1>7, LevelOf DEF e

\* A writeGPIO that stores the register sets its line, at that instant.
LEMMA WriteTakes ==
  ASSUME LinesInv, NEW t \in Threads, StoreDataOut(t)
  PROVE  Abstract!TakeWrite(t)
<1> DEFINE e == Pin(call[t])
<1>1. /\ call[t] \in Calls /\ PinCheck(call[t]) = "gpio" /\ call[t].op = "write"
      /\ pc[t] = "store" /\ ~took[t] /\ call[t].arg \in BOOLEAN
  BY CallsAssumption DEF StoreDataOut, LinesInv, WildInv, CallInv, PlaceOK, AccessPcs, MmapPcs, Call
<1>2. /\ call' = call /\ took'[t] = TRUE
      /\ \A u \in Threads : u # t => pc'[u] = pc[u] /\ took'[u] = took[u] /\ ret'[u] = ret[u]
  BY DEF StoreDataOut, LinesInv, WildInv
<1>3. PICK l, v : l = LineOf(e) /\ v = call[t].arg
  OBVIOUS
<1>4. AbstractOp(t) = [phase |-> "pending", kind |-> "write", line |-> l, val |-> v]
  BY <1>1, <1>3 DEF AbstractOp
<1>5. AbstractOp(t)' = [phase |-> "taken", kind |-> "write", line |-> l, val |-> v]
  BY <1>1, <1>2, <1>3 DEF AbstractOp, PinCheck, Pin
<1>6. \A u \in Threads : u # t => AbstractOp(u)' = AbstractOp(u)
  BY <1>2, SameOp
<1>7. AbstractOps' = [AbstractOps EXCEPT ![t].phase = "taken"]
  BY <1>4, <1>5, <1>6, PhaseMoves
<1>8. /\ AbstractOps[t].phase = "pending" /\ AbstractOps[t].kind = "write"
      /\ AbstractOps[t].line = l /\ AbstractOps[t].val = v
  BY <1>4 DEF AbstractOps
<1>9. /\ High \subseteq Lines /\ High' \subseteq Lines /\ l \in Lines /\ v \in BOOLEAN
  BY <1>1, <1>3, EntryFacts DEF High
<1>10. \A k \in Lines : k \in High' <=> IF k = l /\ k \notin Inputs THEN v ELSE k \in High
  BY <1>3, StoreSetsLevel
<1>11. High' = CASE l \in Inputs -> High
                 [] l \notin Inputs /\ v -> High \cup {l}
                 [] OTHER -> High \ {l}
  BY <1>9, <1>10
<1> QED
  BY <1>7, <1>8, <1>11 DEF Abstract!TakeWrite, AbstractOps

\* A call that comes in begins an operation, if it is an access.
LEMMA EnterBegins ==
  ASSUME LinesInv, NEW t \in Threads, NEW c \in Calls, Enter(t, c), IsAccess(c)
  PROVE  \E kind \in {"read", "write"}, line \in Lines, val \in BOOLEAN : Abstract!Begin(t, kind, line, val)
<1> DEFINE e == Pin(c)
<1>1. /\ pc[t] = "idle" /\ call[t] = NoCall /\ call'[t] = c /\ pc'[t] = "start" /\ ~took'[t]
      /\ \A u \in Threads : u # t =>
           pc'[u] = pc[u] /\ call'[u] = call[u] /\ took'[u] = took[u] /\ ret'[u] = ret[u]
      /\ UNCHANGED <<dataOut, driven>>
  BY DEF Enter, LinesInv, WildInv, CallInv
<1>2. PICK l, v : l = LineOf(e) /\ v = (IF c.op = "write" THEN c.arg ELSE FALSE)
  OBVIOUS
<1>3. /\ c.op \in {"read", "write"} /\ PinCheck(c) = "gpio" /\ l \in Lines /\ v \in BOOLEAN
      /\ c.op = "read" => ~v
  BY <1>2, EntryFacts, CallsAssumption DEF IsAccess, Call
<1>4. AbstractOp(t).phase = "idle"
  BY <1>1 DEF AbstractOp, NoCall
<1>5. AbstractOp(t)' = [phase |-> "pending", kind |-> c.op, line |-> l, val |-> v]
  BY <1>1, <1>2, <1>3 DEF AbstractOp, PinCheck, Pin
<1>6. \A u \in Threads : u # t => AbstractOp(u)' = AbstractOp(u)
  BY <1>1, SameOp
<1>7. AbstractOps' = [AbstractOps EXCEPT ![t] = [phase |-> "pending", kind |-> c.op, line |-> l, val |-> v]]
  BY <1>5, <1>6, OneMoves
<1>8. High' = High
  BY <1>1, SameHigh
<1>9. Abstract!Begin(t, c.op, l, v)
  BY <1>3, <1>4, <1>7, <1>8 DEF Abstract!Begin, AbstractOps
<1> QED
  BY <1>3, <1>9

\* An access that gives up at the checks is refused.
LEMMA GivingUpRefuses ==
  ASSUME LinesInv, NEW t \in Threads, AccessStart(t), pc'[t] = "return", IsAccess(call[t])
  PROVE  Abstract!Refuse(t)
<1>1. /\ pc[t] = "start" /\ ~took[t] /\ call' = call /\ took' = took /\ UNCHANGED <<dataOut, driven>>
  BY DEF AccessStart, LinesInv, CallInv
<1>2. \A u \in Threads : u # t => pc'[u] = pc[u] /\ ret'[u] = ret[u]
  BY AccessStartEffect DEF LinesInv, WildInv
<1>3. PICK k, l, v : /\ k = call[t].op /\ l = LineOf(Pin(call[t]))
                     /\ v = (IF call[t].op = "write" THEN call[t].arg ELSE FALSE)
  OBVIOUS
<1>4. AbstractOp(t) = [phase |-> "pending", kind |-> k, line |-> l, val |-> v]
  BY <1>1, <1>3 DEF AbstractOp, IsAccess
<1>5. AbstractOp(t)' = [phase |-> "refused", kind |-> k, line |-> l, val |-> v]
  BY <1>1, <1>3 DEF AbstractOp, IsAccess, PinCheck, Pin
<1>6. \A u \in Threads : u # t => AbstractOp(u)' = AbstractOp(u)
  BY <1>1, <1>2, SameOp
<1>7. AbstractOps' = [AbstractOps EXCEPT ![t].phase = "refused"]
  BY <1>4, <1>5, <1>6, PhaseMoves
<1>8. AbstractOps[t].phase = "pending"
  BY <1>4 DEF AbstractOps
<1>9. High' = High
  BY <1>1, SameHigh
<1> QED
  BY <1>7, <1>8, <1>9 DEF Abstract!Refuse, AbstractOps

\* An access that returns ends its operation.
LEMMA LeaveEnds ==
  ASSUME LinesInv, NEW t \in Threads, Leave(t), IsAccess(call[t])
  PROVE  Abstract!End(t)
<1>1. /\ pc[t] = "return" /\ call'[t] = NoCall
      /\ \A u \in Threads : u # t =>
           pc'[u] = pc[u] /\ call'[u] = call[u] /\ took'[u] = took[u] /\ ret'[u] = ret[u]
      /\ UNCHANGED <<dataOut, driven>>
  BY DEF Leave, LinesInv, WildInv
<1>2. AbstractOp(t).phase \in {"taken", "refused"}
  BY <1>1 DEF AbstractOp, IsAccess
<1>3. AbstractOp(t)' = [phase |-> "idle", kind |-> "none", line |-> NoLine, val |-> FALSE]
  BY <1>1 DEF AbstractOp, NoCall
<1>4. \A u \in Threads : u # t => AbstractOp(u)' = AbstractOp(u)
  BY <1>1, SameOp
<1>5. AbstractOps' = [AbstractOps EXCEPT ![t] = Abstract!Idle]
  BY <1>3, <1>4, OneMoves DEF Abstract!Idle
<1>6. High' = High
  BY <1>1, SameHigh
<1> QED
  BY <1>2, <1>5, <1>6 DEF Abstract!End, AbstractOps

\* The world drives a line in both.
LEMMA DriveDrives ==
  ASSUME LinesInv, NEW line \in Inputs, Drive(line)
  PROVE  Abstract!Drive(line)
<1>1. /\ UNCHANGED <<dataOut, pc, call, took, ret>>
      /\ driven' = IF line \in driven THEN driven \ {line} ELSE driven \cup {line}
  BY DEF Drive
<1>2. \A u \in Threads : AbstractOp(u)' = AbstractOp(u)
  BY <1>1, SameOp
<1>3. AbstractOps' = AbstractOps
  BY <1>2 DEF AbstractOps
<1>4. High \subseteq Lines /\ High' \subseteq Lines /\ line \in Lines
  BY PinsAssumption DEF High
<1>5. \A k \in Lines : k \in High' <=> IF k = line THEN k \notin High ELSE k \in High
  BY <1>1, LevelOf
<1>6. High' = IF line \in High THEN High \ {line} ELSE High \cup {line}
  BY <1>4, <1>5
<1> QED
  BY <1>3, <1>6 DEF Abstract!Drive, AbstractOps

\* Every other step is none of the abstract lines.
LEMMA OthersStutter ==
  ASSUME UNCHANGED <<dataOut, driven>>, \A u \in Threads : AbstractOp(u)' = AbstractOp(u)
  PROVE  UNCHANGED Abstract!vars
<1>1. AbstractOps' = AbstractOps
  BY DEF AbstractOps
<1> QED
  BY <1>1, SameHigh DEF Abstract!vars, AbstractOps

\* Every step is a step of the atomic lines, or nothing to them.
LEMMA LinesStep ==
  ASSUME LinesInv, Next
  PROVE  Abstract!Next \/ UNCHANGED Abstract!vars
<1>0. TypeInv
  BY DEF LinesInv, WildInv
<1> USE <1>0
<1>1. ASSUME NEW t \in Threads, NEW c \in Calls, Enter(t, c) PROVE Abstract!Next \/ UNCHANGED Abstract!vars
  <2>1. CASE IsAccess(c)
    BY <1>1, <2>1, EnterBegins DEF Abstract!Next
  <2>2. CASE ~IsAccess(c)
    <3>1. ~IsAccess(call[t]) /\ ~IsAccess(call'[t])
      BY <1>1, <2>2 DEF Enter, LinesInv, WildInv, CallInv, IsAccess, NoCall
    <3>2. \A u \in Threads : u # t =>
            pc'[u] = pc[u] /\ call'[u] = call[u] /\ took'[u] = took[u] /\ ret'[u] = ret[u]
      BY <1>1 DEF Enter
    <3>3. \A u \in Threads : AbstractOp(u)' = AbstractOp(u)
      BY <3>1, <3>2, NotAnAccess, SameOp
    <3> QED
      BY <1>1, <3>3, OthersStutter DEF Enter
  <2> QED
    BY <2>1, <2>2
<1>2. ASSUME NEW t \in Threads, Open(t) \/ Close(t) PROVE UNCHANGED Abstract!vars
  <2>1. call[t].op \in {"open", "close"} /\ call' = call /\ UNCHANGED <<dataOut, driven>>
    <3>1. CASE Open(t)
      BY <3>1 DEF Open, OpenStart, OpenMode, OpenDevMem, OpenMapBank, OpenDone,
         OpenPcs, LinesInv, WildInv, PlaceOK
    <3>2. CASE Close(t)
      BY <3>2 DEF Close, CloseStart, CloseSelect, CloseFd, CloseClear, LinesInv, CallInv
    <3> QED
      BY <1>2, <3>1, <3>2
  <2>2. \A u \in Threads : u # t => pc'[u] = pc[u] /\ took'[u] = took[u] /\ ret'[u] = ret[u]
    <3>1. CASE OpenMapBank(t)
      BY <3>1 DEF OpenMapBank
    <3>2. CASE Open(t) /\ ~OpenMapBank(t)
      BY <3>2 DEF Open, OpenStart, OpenMode, OpenDevMem, OpenDone
    <3>3. CASE Close(t)
      BY <3>3 DEF Close, CloseStart, CloseSelect, CloseFd, CloseClear
    <3> QED
      BY <1>2, <3>1, <3>2, <3>3
  <2>3. ~IsAccess(call[t]) /\ ~IsAccess(call'[t])
    BY <2>1 DEF IsAccess
  <2>4. \A u \in Threads : AbstractOp(u)' = AbstractOp(u)
    BY <2>1, <2>2, <2>3, NotAnAccess, SameOp
  <2> QED
    BY <2>1, <2>4, OthersStutter
<1>3. ASSUME NEW t \in Threads, AccessStart(t) PROVE Abstract!Next \/ UNCHANGED Abstract!vars
  <2>1. /\ call' = call /\ took' = took /\ UNCHANGED <<dataOut, driven>>
        /\ \A u \in Threads : u # t => pc'[u] = pc[u] /\ ret'[u] = ret[u]
        /\ pc[t] = "start"
    <3>1. Answer(t, 0) \/ Answer(t, 1) \/ (Goto(t, "select") /\ UNCHANGED ret)
      BY <1>3, AccessStartEffect
    <3>2. \A u \in Threads : u # t => pc'[u] = pc[u] /\ ret'[u] = ret[u]
      BY <3>1
    <3> QED
      BY <1>3, <3>2 DEF AccessStart
  <2>2. CASE pc'[t] = "return" /\ IsAccess(call[t])
    BY <1>3, <2>2, GivingUpRefuses DEF Abstract!Next, Abstract!Proceed
  <2>3. CASE ~IsAccess(call[t])
    <3>1. \A u \in Threads : AbstractOp(u)' = AbstractOp(u)
      BY <2>1, <2>3, NotAnAccess, SameOp
    <3> QED
      BY <2>1, <3>1, OthersStutter
  <2>4. CASE pc'[t] = "select" /\ ret' = ret
    <3>1. \A u \in Threads : AbstractOp(u)' = AbstractOp(u)
      BY <2>1, <2>4, SameOp
    <3> QED
      BY <2>1, <3>1, OthersStutter
  <2>5. pc'[t] = "return" \/ (pc'[t] = "select" /\ ret' = ret)
    BY <1>3, AccessStartEffect DEF LinesInv, WildInv
  <2> QED
    BY <2>2, <2>3, <2>4, <2>5
<1>4. ASSUME NEW t \in Threads, AccessSelect(t) \/ LoadDataOut(t) PROVE UNCHANGED Abstract!vars
  <2>1. /\ UNCHANGED <<dataOut, driven, call, took, ret>> /\ pc[t] # "return" /\ pc'[t] # "return"
        /\ \A u \in Threads : u # t => pc'[u] = pc[u]
    BY <1>4 DEF AccessSelect, LoadDataOut, LinesInv, WildInv
  <2>2. \A u \in Threads : AbstractOp(u)' = AbstractOp(u)
    BY <2>1, SameOp
  <2> QED
    BY <2>1, <2>2, OthersStutter
<1>5. ASSUME NEW t \in Threads, ReadDataIn(t) \/ StoreDataOut(t) PROVE Abstract!Next
  BY <1>5, ReadTakes, WriteTakes DEF Abstract!Next, Abstract!Proceed
<1>6. ASSUME NEW t \in Threads, Fault(t) \/ FileSystem(t) PROVE FALSE
  <2>1. CASE FileSystem(t)
    BY <2>1 DEF FileSystem, FormatStart, FormatEnd, FsOpen, FsRead, FsWrite, FsClose,
                LinesInv, StoreInv, MmapChosen, FsPcs, FilePcs
  <2> QED
    BY <1>6, <2>1, NoFault DEF LinesInv, WildInv
<1>7. ASSUME NEW t \in Threads, Leave(t) PROVE Abstract!Next \/ UNCHANGED Abstract!vars
  <2>1. CASE IsAccess(call[t])
    BY <1>7, <2>1, LeaveEnds DEF Abstract!Next, Abstract!Proceed
  <2>2. CASE ~IsAccess(call[t])
    <3>1. ~IsAccess(call'[t])
      BY <1>7 DEF Leave, LinesInv, WildInv, IsAccess, NoCall
    <3>2. \A u \in Threads : u # t =>
            pc'[u] = pc[u] /\ call'[u] = call[u] /\ took'[u] = took[u] /\ ret'[u] = ret[u]
      BY <1>7 DEF Leave
    <3>3. \A u \in Threads : AbstractOp(u)' = AbstractOp(u)
      BY <2>2, <3>1, <3>2, NotAnAccess, SameOp
    <3> QED
      BY <1>7, <3>3, OthersStutter DEF Leave
  <2> QED
    BY <2>1, <2>2
<1>8. CASE OtherOpen \/ OtherClose
  <2>1. UNCHANGED <<dataOut, driven, pc, call, took, ret>>
    BY <1>8 DEF OtherOpen, OtherClose
  <2>2. \A u \in Threads : AbstractOp(u)' = AbstractOp(u)
    BY <2>1, SameOp
  <2> QED
    BY <2>1, <2>2, OthersStutter
<1>9. ASSUME NEW line \in Inputs, Drive(line) PROVE Abstract!Next
  BY <1>9, DriveDrives DEF Abstract!Next
<1> QED
  BY <1>1, <1>2, <1>3, <1>4, <1>5, <1>6, <1>7, <1>8, <1>9 DEF Next, Proceed, Access, Mmap

\* The start is a start of the atomic lines.
LEMMA LinesInit == Init => Abstract!Init
<1> SUFFICES ASSUME Init PROVE Abstract!Init
  OBVIOUS
<1>1. High = {}
  <2>1. dataOut = [b \in Banks |-> {}] /\ driven = {}
    BY DEF Init
  <2>2. ASSUME NEW l \in Lines PROVE l \notin High
    <3>1. l[1] \in Banks
      BY PinsAssumption DEF Lines, LineOf
    <3> QED
      BY <2>1, <3>1, LevelOf
  <2> QED
    BY <2>2 DEF High
<1>2. \A t \in Threads : AbstractOp(t) = Abstract!Idle
  BY DEF Init, AbstractOp, NoCall, Abstract!Idle
<1> QED
  BY <1>1, <1>2 DEF Abstract!Init

\* Through the memory map, with two writes apart unless their banks differ and an
\* openGPIO that overlaps only closes, the GPIO code is the atomic lines of
\* AtomicLines: a read returns the level its line has, and a write sets its line
\* and no other, at one instant between call and return (gpio.c:207-246, 313-390).
THEOREM MmapImplementsAtomicLines ==
  ASSUME OpensExclude, MmapOnly, WritersExclude
  PROVE  Spec => ImplementsAtomicLines
<1>1. Init => LinesInv
  BY WildInit, StoreInit DEF LinesInv, CallInv, Init
<1>2. Spec => []LinesInv
  BY <1>1, LinesNext, PTL DEF Spec
<1>3. LinesInv /\ [Next]_vars => [Abstract!Next]_(Abstract!vars)
  <2>1. CASE UNCHANGED vars
    <3>1. UNCHANGED <<dataOut, driven, pc, call, took, ret>>
      BY <2>1 DEF vars
    <3>2. \A u \in Threads : AbstractOp(u)' = AbstractOp(u)
      BY <3>1, SameOp
    <3> QED
      BY <3>1, <3>2, OthersStutter
  <2> QED
    BY <2>1, LinesStep
<1> QED
  BY <1>2, <1>3, LinesInit, PTL DEF Spec, ImplementsAtomicLines, Abstract!Spec
==============================================================================
