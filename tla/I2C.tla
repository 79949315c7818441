-------------------------------- MODULE I2C --------------------------------
(***************************************************************************)
(* i2c.c over the inline functions of i2c-dev.h: registers of the slaves   *)
(* of one adapter, reached through descriptors that hold a slave address.  *)
(* One ioctl or write is one transfer on the bus, which the kernel does    *)
(* not interrupt; i2cReadByte makes two.                                   *)
(*                                                                         *)
(* External: the kernel, and a slave, which is a memory with a register    *)
(* pointer that the address byte of a transfer sets and that advances by   *)
(* one with every byte, whoever transfers it.                              *)
(***************************************************************************)
EXTENDS Integers, Sequences

CONSTANTS Threads,          \* callers: the Java threads of the application
          Calls,            \* the calls they make, built by the operators below
          MayOverlap(_, _), \* the pairs of calls the application lets overlap
          Fds,              \* open descriptors of the adapter
          Slaves,           \* the addresses at which a device answers
          N,                \* registers of a device (256)
          BlockMax,         \* I2C_SMBUS_I2C_BLOCK_MAX (32)
          Span,             \* lengths are passed as a __u8 (256)
          Bytes,            \* the values of a register
          Garbage,          \* the values of bytes that nobody has initialised
          Failures          \* what may fail: "slave", "point", "transfer"

Registers == 0 .. N - 1
NoSlave == -1
Call == [op : {"setSlave", "setAddress", "writeByte", "writeBytes", "readByte", "readBytes"},
         fd : Fds, add : Nat, length : Nat, bytes : Seq(Bytes)]
NoCall == [op |-> "none", fd |-> 0, add |-> 0, length |-> 0, bytes |-> << >>]

ASSUME ConstantsAssumption ==
  /\ N \in Nat \ {0} /\ BlockMax \in Nat \ {0} /\ Span \in Nat \ {0} /\ BlockMax < Span /\ BlockMax <= N
  /\ Bytes \subseteq Nat /\ 0 \in Bytes /\ Garbage \subseteq Nat
  /\ Slaves \subseteq Nat
ASSUME CallsAssumption ==
  /\ Calls \subseteq Call
  /\ \A c \in Calls :
       /\ c.op # "setSlave" => c.add \in Registers
       /\ c.op \in {"writeByte", "writeBytes"} => c.length = Len(c.bytes)
       /\ c.op = "writeByte" => c.length = 1

\* The calls, by the arguments Java gives.
I2cSetSlave(fd, address) ==
  [op |-> "setSlave", fd |-> fd, add |-> address, length |-> 0, bytes |-> << >>]
I2cSetAddress(fd, add) ==
  [op |-> "setAddress", fd |-> fd, add |-> add, length |-> 0, bytes |-> << >>]
I2cWriteByte(fd, add, byte) ==
  [op |-> "writeByte", fd |-> fd, add |-> add, length |-> 1, bytes |-> <<byte>>]
I2cWriteBytes(fd, add, bytes) ==
  [op |-> "writeBytes", fd |-> fd, add |-> add, length |-> Len(bytes), bytes |-> bytes]
I2cReadByte(fd, add) ==
  [op |-> "readByte", fd |-> fd, add |-> add, length |-> 1, bytes |-> << >>]
I2cReadBytes(fd, add, length) ==
  [op |-> "readBytes", fd |-> fd, add |-> add, length |-> length, bytes |-> << >>]

VARIABLES
  slave,      \* per descriptor: the slave address the kernel holds for it
  regs, ptr,  \* per slave: its registers and its register pointer
  \* per thread: its place in the code, its call, its result, its array
  pc, call, ret, buff,
  target,     \* history: the slave of the descriptor when the call began
  seen        \* history: the contents the registers of target have had since

devices == <<regs, ptr>>
locals == <<call, buff, target>>
vars == <<slave, devices, pc, ret, locals, seen>>

Content == [Registers -> Bytes]

TypeOK ==
  /\ slave \in [Fds -> Nat \cup {NoSlave}]
  /\ regs \in [Slaves -> Content]
  /\ ptr \in [Slaves -> Registers]
  /\ pc \in [Threads -> {"idle", "start", "read", "return"}]
  /\ call \in [Threads -> Call \cup {NoCall}]
  /\ ret \in [Threads -> Bytes \cup {0, -1}]
  /\ buff \in [Threads -> Seq(Bytes \cup Garbage)]
  /\ target \in [Threads -> Nat \cup {NoSlave}]
  /\ seen \in [Threads -> SUBSET Content]

Init ==
  /\ slave = [f \in Fds |-> NoSlave]
  /\ regs = [s \in Slaves |-> [r \in Registers |-> 0]]
  /\ ptr = [s \in Slaves |-> 0]
  /\ pc = [t \in Threads |-> "idle"]
  /\ call = [t \in Threads |-> NoCall]
  /\ ret = [t \in Threads |-> 0]
  /\ buff = [t \in Threads |-> << >>]
  /\ target = [t \in Threads |-> NoSlave]
  /\ seen = [t \in Threads |-> {}]

-----------------------------------------------------------------------------
Goto(t, place) == pc' = [pc EXCEPT ![t] = place]
Answer(t, r) == Goto(t, "return") /\ ret' = [ret EXCEPT ![t] = r]

Enter(t, c) ==
  /\ pc[t] = "idle"
  /\ \A u \in Threads : pc[u] # "idle" => MayOverlap(c, call[u]) /\ MayOverlap(call[u], c)
  /\ call' = [call EXCEPT ![t] = c]
  /\ target' = [target EXCEPT ![t] = slave[c.fd]]
  /\ seen' = [seen EXCEPT ![t] = {regs[s] : s \in Slaves \cap {slave[c.fd]}}]
  /\ Goto(t, "start")
  /\ UNCHANGED <<slave, devices, ret, buff>>

\* The slave that a transfer of the call goes to now, if there is one.
Device(t) == slave[call[t].fd]
Answers(t) == Device(t) \in Slaves
Fails(t, what) == ~Answers(t) \/ what \in Failures

\* The register n bytes further.
From(add, n) == (add + n) % N

\* The content of a device once bytes have been written from add on.
Written(content, add, bytes) ==
  [r \in Registers |->
     IF \E i \in DOMAIN bytes : r = From(add, i - 1)
     THEN bytes[CHOOSE i \in DOMAIN bytes :
                  r = From(add, i - 1) /\ \A j \in DOMAIN bytes : r = From(add, j - 1) => j <= i]
     ELSE content[r]]

\* A write transfer: the calls in progress on the device see its new content.
Store(t, add, bytes) ==
  LET s == Device(t)
      content == Written(regs[s], add, bytes)
  IN /\ regs' = [regs EXCEPT ![s] = content]
     /\ ptr' = [ptr EXCEPT ![s] = From(add, Len(bytes))]
     /\ seen' = [u \in Threads |-> IF target[u] = s THEN seen[u] \cup {content} ELSE seen[u]]

-----------------------------------------------------------------------------
\* i2cSetSlave: ioctl(I2C_SLAVE).
SetSlave(t) ==
  /\ pc[t] = "start" /\ call[t].op = "setSlave"
  /\ \/ /\ slave' = [slave EXCEPT ![call[t].fd] = call[t].add]
        /\ Answer(t, 0)
     \/ /\ "slave" \in Failures
        /\ Answer(t, -1)
        /\ UNCHANGED slave
  /\ UNCHANGED <<devices, locals, seen>>

\* i2cSetAddress: the address byte alone is written.
PointAt(t) ==
  \/ /\ Answers(t) /\ ptr' = [ptr EXCEPT ![Device(t)] = call[t].add]
     /\ ret' = [ret EXCEPT ![t] = 0]
  \/ /\ Fails(t, "point") /\ UNCHANGED ptr
     /\ ret' = [ret EXCEPT ![t] = -1]

SetAddress(t) ==
  /\ pc[t] = "start" /\ call[t].op = "setAddress"
  /\ PointAt(t) /\ Goto(t, "return")
  /\ UNCHANGED <<slave, regs, locals, seen>>

\* Mutant: i2cReadByte trusts the register pointer.
ReadByteAddress_Trusted(t) ==
  /\ pc[t] = "start" /\ call[t].op = "readByte"
  /\ Goto(t, "read")
  /\ UNCHANGED <<slave, devices, ret, locals, seen>>

\* i2cReadByte calls i2cSetAddress and does not look at its result ...
ReadByteAddress(t) ==
  /\ pc[t] = "start" /\ call[t].op = "readByte"
  /\ PointAt(t) /\ Goto(t, "read")
  /\ UNCHANGED <<slave, regs, locals, seen>>

\* ... and reads a byte, in a transfer of its own.
ReadByteData(t) ==
  /\ pc[t] = "read"
  /\ \/ /\ Answers(t)
        /\ Answer(t, regs[Device(t)][ptr[Device(t)]])
        /\ ptr' = [ptr EXCEPT ![Device(t)] = From(@, 1)]
     \/ /\ Fails(t, "transfer")
        /\ Answer(t, -1)
        /\ UNCHANGED ptr
  /\ UNCHANGED <<slave, regs, locals, seen>>


\* i2cWriteByte: the address and the byte in one write.
WriteByte(t) ==
  /\ pc[t] = "start" /\ call[t].op = "writeByte"
  /\ \/ /\ Answers(t) /\ Store(t, call[t].add, call[t].bytes) /\ Answer(t, 0)
     \/ /\ Fails(t, "transfer") /\ Answer(t, -1) /\ UNCHANGED <<devices, seen>>
  /\ UNCHANGED <<slave, locals>>

\* Mutant: one byte less than the maximum.
Transferred_OffByOne(length) == IF length % Span >= BlockMax THEN BlockMax - 1 ELSE length % Span

\* How many of length bytes a block transfer moves: a __u8, cut at the maximum.
Transferred(length) == IF length % Span > BlockMax THEN BlockMax ELSE length % Span

\* Mutant: the block goes where the register pointer is.
WriteBytes_AtPointer(t) ==
  /\ pc[t] = "start" /\ call[t].op = "writeBytes"
  /\ LET bytes == SubSeq(call[t].bytes, 1, Transferred(call[t].length))
     IN Answers(t) /\ Store(t, ptr[Device(t)], bytes) /\ Answer(t, 0)
  /\ UNCHANGED <<slave, locals>>

\* i2cWriteBytes: i2c_smbus_write_i2c_block_data.
WriteBytes(t) ==
  /\ pc[t] = "start" /\ call[t].op = "writeBytes"
  /\ LET bytes == SubSeq(call[t].bytes, 1, Transferred(call[t].length))
     IN \/ Answers(t) /\ Store(t, call[t].add, bytes) /\ Answer(t, 0)
        \/ Fails(t, "transfer") /\ Answer(t, -1) /\ UNCHANGED <<devices, seen>>
  /\ UNCHANGED <<slave, locals>>

\* i2cReadBytes and its binding: i2c_smbus_read_i2c_block_data fills the front
\* of an array that nobody has initialised, and the binding copies all of it.
ReadBytes(t) ==
  /\ pc[t] = "start" /\ call[t].op = "readBytes"
  /\ LET c == call[t]
         n == Transferred(c.length)
     IN \/ /\ Answers(t)
           /\ \E junk \in Garbage :
                buff' = [buff EXCEPT ![t] = [i \in 1 .. c.length |->
                  IF i <= n THEN regs[Device(t)][From(c.add, i - 1)] ELSE junk]]
           /\ ptr' = [ptr EXCEPT ![Device(t)] = From(c.add, n)]
           /\ Answer(t, 0)
        \/ Fails(t, "transfer") /\ Answer(t, -1) /\ UNCHANGED <<ptr, buff>>
  /\ UNCHANGED <<slave, regs, call, target, seen>>

Leave(t) ==
  /\ pc[t] = "return"
  /\ Goto(t, "idle")
  /\ call' = [call EXCEPT ![t] = NoCall]
  /\ ret' = [ret EXCEPT ![t] = 0]
  /\ buff' = [buff EXCEPT ![t] = << >>]
  /\ target' = [target EXCEPT ![t] = NoSlave]
  /\ seen' = [seen EXCEPT ![t] = {}]
  /\ UNCHANGED <<slave, devices>>

Proceed(t) ==
  SetSlave(t) \/ SetAddress(t) \/ ReadByteAddress(t) \/ ReadByteData(t) \/ WriteByte(t)
    \/ WriteBytes(t) \/ ReadBytes(t) \/ Leave(t)

Next == \E t \in Threads : (\E c \in Calls : Enter(t, c)) \/ Proceed(t)

Spec == Init /\ [][Next]_vars

-----------------------------------------------------------------------------
(* What an application must keep for the properties to hold.               *)

\* Calls on one descriptor exclude each other.
OneCallPerFd == \A c, d \in Calls : MayOverlap(c, d) /\ MayOverlap(d, c) => c.fd # d.fd

\* The slaves that a descriptor is set to.
Named(f) == {c.add : c \in {d \in Calls : d.op = "setSlave" /\ d.fd = f}}

\* What may overlap i2cReadByte sets the slave of another descriptor, or is for slaves
\* of its own.
PointersKept ==
  \A c, d \in Calls : c.op = "readByte" /\ MayOverlap(c, d) /\ MayOverlap(d, c) =>
    d.op = "setSlave" \/ Named(c.fd) \cap Named(d.fd) \cap Slaves = {}

-----------------------------------------------------------------------------
Returns(t, op, r) == pc[t] = "return" /\ call[t].op = op /\ ret[t] = r

\* i2cReadByte returns -1 or a byte that the register it was asked for has held
\* during the call: the pointer it has set is still there when it reads
\* (i2c.c:139-141).
ReadByteReturnsItsRegister ==
  \A t \in Threads, b \in Bytes :
    Returns(t, "readByte", b) => \E content \in seen[t] : content[call[t].add] = b

\* When a block read of at most BlockMax bytes succeeds, the array holds what all
\* its registers held at one moment of the call (i2c.c:162, i2c-dev.h:279-297).
BlockReadIsSnapshot ==
  \A t \in Threads : Returns(t, "readBytes", 0) /\ call[t].length <= BlockMax =>
    \E content \in seen[t] :
      \A i \in 1 .. call[t].length : buff[t][i] = content[From(call[t].add, i - 1)]

\* When a block write of at most BlockMax bytes succeeds, its registers have held
\* all its bytes at one moment of the call (i2c.c:117, i2c-dev.h:299-312).
BlockWriteIsStored ==
  \A t \in Threads : Returns(t, "writeBytes", 0) /\ call[t].length <= BlockMax =>
    \E content \in seen[t] :
      \A i \in 1 .. call[t].length : content[From(call[t].add, i - 1)] = call[t].bytes[i]

\* What a transfer that succeeds tells or stores is what it was asked for.
TransfersAreTrue == ReadByteReturnsItsRegister /\ BlockReadIsSnapshot /\ BlockWriteIsStored

\* A register changes only to a byte that a write in progress, begun on that very
\* slave, sends to it: calls on other descriptors, and pointer moves between the
\* transfers, do not divert it (i2c.c:97, 117).
OnlyAskedRegistersChange ==
  [][\A s \in Slaves, r \in Registers : regs'[s][r] # regs[s][r] =>
       \E t \in Threads : /\ target[t] = s
                          /\ \E i \in 1 .. Len(call[t].bytes) :
                               r = (call[t].add + i - 1) % N /\ regs'[s][r] = call[t].bytes[i]]_vars
=============================================================================
