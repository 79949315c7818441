------------------------------ MODULE Buses_proofs ------------------------------
(***************************************************************************)
(* Theorems about the two buses whose data the HAL hands on.  I2C, which   *)
(* this module extends: for every set of threads, calls, descriptors and   *)
(* slaves, and registers of any number that a block does not exceed.  CAN, *)
(* the instance C: for every set of threads, calls and sockets, queues of  *)
(* any length and any number of frames.  What an application must keep     *)
(* (OneCallPerFd, PointersKept, C!OneReader) is a premise.                 *)
(***************************************************************************)
EXTENDS I2C, SequenceTheorems, TLAPS

\* The constants and variables of Can.
CONSTANTS CanCalls, CanMayOverlap(_, _), Sockets, Lengths, MaxFrames, MaxQueue, CanGarbage, CanFailures
VARIABLES rx, error, frames, canPc, canCall, result, canRet, accepted, got
C == INSTANCE Can WITH
  Calls <- CanCalls, MayOverlap <- CanMayOverlap, Garbage <- CanGarbage, Failures <- CanFailures,
  pc <- canPc, call <- canCall, ret <- canRet

-----------------------------------------------------------------------------
(* Addresses and lengths.                                                  *)

\* An address wraps around: it is a register.
LEMMA FromRange ==
  ASSUME NEW add \in Nat, NEW n \in Nat
  PROVE  From(add, n) \in Registers
  BY ConstantsAssumption DEF From, Registers

\* The place of a byte, and the one before it.
LEMMA IndexFacts ==
  ASSUME NEW m \in Nat, NEW i \in 1 .. m
  PROVE  i \in Nat /\ i - 1 \in Nat
  OBVIOUS

\* An array of Java is a sequence.
LEMMA ArrayIsSeq ==
  ASSUME NEW S, NEW m \in Nat, NEW f \in [1 .. m -> S]
  PROVE  f \in Seq(S)
  BY SeqDef

\* Registers are counted from 0.
LEMMA RegistersAreNat == Registers \subseteq Nat /\ 0 \in Registers
  BY ConstantsAssumption DEF Registers

\* Two bytes of a transfer that is not longer than the device go to two registers.
LEMMA FromInjective ==
  ASSUME NEW add \in Registers, NEW i \in 0 .. N - 1, NEW j \in 0 .. N - 1, From(add, i) = From(add, j)
  PROVE  i = j
<1>1. \A n \in 0 .. N - 1 : From(add, n) = IF add + n < N THEN add + n ELSE add + n - N
  BY ConstantsAssumption DEF From, Registers
<1> QED
  BY <1>1, ConstantsAssumption DEF Registers

\* A block is cut at the maximum and is never longer than what was asked for.
LEMMA TransferredFacts ==
  ASSUME NEW length \in Nat
  PROVE  /\ Transferred(length) \in 0 .. BlockMax
         /\ Transferred(length) <= length
         /\ length <= BlockMax => Transferred(length) = length
  BY ConstantsAssumption DEF Transferred

\* Each byte of a transfer is where it belongs, and the rest is what it was.
LEMMA WrittenFacts ==
  ASSUME NEW content \in Content, NEW add \in Registers, NEW bytes \in Seq(Bytes), Len(bytes) <= N
  PROVE  /\ Written(content, add, bytes) \in Content
         /\ \A i \in 1 .. Len(bytes) : Written(content, add, bytes)[From(add, i - 1)] = bytes[i]
         /\ \A r \in Registers : Written(content, add, bytes)[r] # content[r] =>
              \E i \in 1 .. Len(bytes) : r = From(add, i - 1) /\ Written(content, add, bytes)[r] = bytes[i]
<1> DEFINE Choice(r) == CHOOSE i \in DOMAIN bytes :
                          r = From(add, i - 1) /\ \A j \in DOMAIN bytes : r = From(add, j - 1) => j <= i
<1>1. DOMAIN bytes = 1 .. Len(bytes)
  OBVIOUS
<1>2. \A i \in 1 .. Len(bytes) : i \in Int /\ i - 1 \in 0 .. N - 1
  BY ConstantsAssumption
<1>3. \A i, j \in 1 .. Len(bytes) : From(add, i - 1) = From(add, j - 1) => i = j
  <2> SUFFICES ASSUME NEW i \in 1 .. Len(bytes), NEW j \in 1 .. Len(bytes), From(add, i - 1) = From(add, j - 1)
               PROVE  i = j
    OBVIOUS
  <2>1. i - 1 = j - 1
    BY <1>2, FromInjective
  <2> QED
    BY <1>2, <2>1
<1>4. ASSUME NEW i \in 1 .. Len(bytes) PROVE Choice(From(add, i - 1)) = i
  <2>1. \A j \in DOMAIN bytes : From(add, i - 1) = From(add, j - 1) => j <= i
    BY <1>1, <1>2, <1>3
  <2>2. /\ Choice(From(add, i - 1)) \in DOMAIN bytes
        /\ From(add, i - 1) = From(add, Choice(From(add, i - 1)) - 1)
    BY <1>1, <2>1
  <2> QED
    BY <1>1, <1>3, <2>2
<1>5. Written(content, add, bytes) =
        [r \in Registers |-> IF \E i \in DOMAIN bytes : r = From(add, i - 1) THEN bytes[Choice(r)] ELSE content[r]]
  BY DEF Written
<1>6. \A i \in 1 .. Len(bytes) : bytes[i] \in Bytes
  OBVIOUS
<1>7. \A i \in 1 .. Len(bytes) : From(add, i - 1) \in Registers
  <2> SUFFICES ASSUME NEW i \in 1 .. Len(bytes) PROVE From(add, i - 1) \in Registers
    OBVIOUS
  <2>1. add \in Nat /\ i - 1 \in Nat
    BY <1>2, ConstantsAssumption DEF Registers
  <2> QED
    BY <2>1, FromRange
<1> HIDE DEF Choice
<1>8. ASSUME NEW r \in Registers
      PROVE  \/ \E i \in 1 .. Len(bytes) : r = From(add, i - 1) /\ Written(content, add, bytes)[r] = bytes[i]
             \/ Written(content, add, bytes)[r] = content[r]
  BY <1>1, <1>4, <1>5
<1>9. Written(content, add, bytes) \in Content
  <2>1. \A r \in Registers : Written(content, add, bytes)[r] \in Bytes
    BY <1>6, <1>8 DEF Content
  <2> QED
    BY <1>5, <2>1 DEF Content
<1>10. ASSUME NEW i \in 1 .. Len(bytes)
       PROVE  Written(content, add, bytes)[From(add, i - 1)] = bytes[i]
  BY <1>1, <1>4, <1>5, <1>7
<1> QED
  BY <1>8, <1>9, <1>10

-----------------------------------------------------------------------------
(* Type correctness.  A thread in the code has a call of the application,  *)
(* and one that reads a byte has i2cReadByte's.                            *)

TypeInv ==
  /\ TypeOK
  /\ \A t \in Threads : pc[t] # "idle" => call[t] \in Calls
  /\ \A t \in Threads : pc[t] = "read" => call[t].op = "readByte"

\* The types hold at the start.
LEMMA TypeInit == Init => TypeInv
<1> SUFFICES ASSUME Init PROVE TypeInv
  OBVIOUS
<1>1. ConstantsAssumption /\ << >> \in Seq(Bytes \cup Garbage)
  BY ConstantsAssumption
<1> QED
  BY <1>1 DEF Init, TypeInv, TypeOK, Content, Registers, ConstantsAssumption

\* What a thread in the code works on.
LEMMA CallFacts ==
  ASSUME TypeInv, NEW t \in Threads, pc[t] # "idle"
  PROVE  /\ call[t] \in Calls /\ call[t].fd \in Fds /\ call[t].add \in Nat /\ call[t].length \in Nat
         /\ call[t].bytes \in Seq(Bytes)
         /\ call[t].op # "setSlave" => call[t].add \in Registers
         /\ call[t].op \in {"writeByte", "writeBytes"} => call[t].length = Len(call[t].bytes)
         /\ call[t].op = "writeByte" => call[t].length = 1
  BY CallsAssumption DEF TypeInv, Call

\* The bytes of a transfer that writes: as many as a block takes, a beginning of
\* those that were given.
LEMMA SentFacts ==
  ASSUME NEW bytes \in Seq(Bytes), NEW length \in Nat, length = Len(bytes)
  PROVE  LET sent == SubSeq(bytes, 1, Transferred(length)) IN
         /\ sent \in Seq(Bytes) /\ Len(sent) = Transferred(length) /\ Len(sent) <= N /\ Len(sent) <= Len(bytes)
         /\ \A i \in 1 .. Len(sent) : sent[i] = bytes[i]
  BY TransferredFacts, ConstantsAssumption

\* A device stores a transfer that fits, and moves its pointer.
LEMMA StoreFacts ==
  ASSUME TypeInv, NEW t \in Threads, Answers(t), NEW add \in Registers,
         NEW bytes \in Seq(Bytes), Len(bytes) <= N, Store(t, add, bytes)
  PROVE  /\ regs' \in [Slaves -> Content] /\ ptr' \in [Slaves -> Registers]
         /\ seen' \in [Threads -> SUBSET Content]
<1>1. Written(regs[Device(t)], add, bytes) \in Content
  BY WrittenFacts DEF TypeInv, TypeOK, Answers
<1>2. From(add, Len(bytes)) \in Registers
  BY FromRange, RegistersAreNat
<1> QED
  BY <1>1, <1>2 DEF Store, TypeInv, TypeOK, Answers

\* Every step keeps the types.
LEMMA TypeNext == TypeInv /\ [Next]_vars => TypeInv'
<1> SUFFICES ASSUME TypeInv, [Next]_vars PROVE TypeInv'
  OBVIOUS
<1> USE DEF TypeInv, TypeOK
<1>1. ASSUME NEW t \in Threads, NEW c \in Calls, Enter(t, c) PROVE TypeInv'
  BY <1>1, CallsAssumption DEF Enter, Goto, Call, devices
<1>2. ASSUME NEW t \in Threads, SetSlave(t) PROVE TypeInv'
  BY <1>2, CallFacts DEF SetSlave, Answer, Goto, devices, locals
<1>3. ASSUME NEW t \in Threads, SetAddress(t) PROVE TypeInv'
  BY <1>3, CallFacts DEF SetAddress, PointAt, Answers, Goto, locals
<1>4. ASSUME NEW t \in Threads, ReadByteAddress(t) PROVE TypeInv'
  BY <1>4, CallFacts DEF ReadByteAddress, PointAt, Answers, Goto, locals
<1>5. ASSUME NEW t \in Threads, ReadByteData(t) PROVE TypeInv'
  <2>1. CASE Answers(t) /\ Answer(t, regs[Device(t)][ptr[Device(t)]])
                        /\ ptr' = [ptr EXCEPT ![Device(t)] = From(@, 1)]
    <3>1. regs[Device(t)][ptr[Device(t)]] \in Bytes
      BY <2>1 DEF Answers, Content
    <3>2. From(ptr[Device(t)], 1) \in Registers
      BY <2>1, FromRange, RegistersAreNat DEF Answers
    <3> QED
      BY <1>5, <2>1, <3>1, <3>2 DEF ReadByteData, Answer, Goto, locals, Answers
  <2>2. CASE Answer(t, -1) /\ UNCHANGED ptr
    BY <1>5, <2>2 DEF ReadByteData, Answer, Goto, locals
  <2> QED
    BY <1>5, <2>1, <2>2 DEF ReadByteData
<1>6. ASSUME NEW t \in Threads, WriteByte(t) PROVE TypeInv'
  <2>1. CASE Answers(t) /\ Store(t, call[t].add, call[t].bytes) /\ Answer(t, 0)
    <3>1. regs' \in [Slaves -> Content] /\ ptr' \in [Slaves -> Registers] /\ seen' \in [Threads -> SUBSET Content]
      <4>1. call[t].add \in Registers /\ call[t].bytes \in Seq(Bytes) /\ Len(call[t].bytes) <= N
        <5>1. pc[t] = "start" /\ call[t].op = "writeByte"
          BY <1>6 DEF WriteByte
        <5>2. 1 <= N
          BY ConstantsAssumption
        <5> QED
          BY <5>1, <5>2, CallFacts
      <4> QED
        BY <2>1, <4>1, StoreFacts
    <3> QED
      BY <1>6, <2>1, <3>1 DEF WriteByte, Answer, Goto, locals
  <2>2. CASE Answer(t, -1) /\ UNCHANGED <<devices, seen>>
    BY <1>6, <2>2 DEF WriteByte, Answer, Goto, devices, locals
  <2> QED
    BY <1>6, <2>1, <2>2 DEF WriteByte
<1>7. ASSUME NEW t \in Threads, WriteBytes(t) PROVE TypeInv'
  <2> DEFINE sent == SubSeq(call[t].bytes, 1, Transferred(call[t].length))
  <2>1. CASE Answers(t) /\ Store(t, call[t].add, sent) /\ Answer(t, 0)
    <3>1. sent \in Seq(Bytes) /\ Len(sent) <= N /\ call[t].add \in Registers
      BY <1>7, CallFacts, SentFacts DEF WriteBytes
    <3>2. regs' \in [Slaves -> Content] /\ ptr' \in [Slaves -> Registers] /\ seen' \in [Threads -> SUBSET Content]
      BY <2>1, <3>1, StoreFacts
    <3> QED
      BY <1>7, <2>1, <3>2 DEF WriteBytes, Answer, Goto, locals
  <2>2. CASE Answer(t, -1) /\ UNCHANGED <<devices, seen>>
    BY <1>7, <2>2 DEF WriteBytes, Answer, Goto, devices, locals
  <2> QED
    BY <1>7, <2>1, <2>2 DEF WriteBytes
<1>8. ASSUME NEW t \in Threads, ReadBytes(t) PROVE TypeInv'
  <2> DEFINE n == Transferred(call[t].length)
  <2>0. /\ pc[t] = "start" /\ call[t].op = "readBytes" /\ n \in Nat
        /\ call[t].add \in Registers /\ call[t].length \in Nat
    BY <1>8, CallFacts, TransferredFacts, ConstantsAssumption DEF ReadBytes
  <2> HIDE DEF n
  <2>1. CASE /\ Answers(t) /\ Answer(t, 0)
             /\ \E junk \in Garbage :
                  buff' = [buff EXCEPT ![t] = [i \in 1 .. call[t].length |->
                    IF i <= n THEN regs[Device(t)][From(call[t].add, i - 1)] ELSE junk]]
             /\ ptr' = [ptr EXCEPT ![Device(t)] = From(call[t].add, n)]
    <3>1. PICK junk \in Garbage :
            buff' = [buff EXCEPT ![t] = [i \in 1 .. call[t].length |->
              IF i <= n THEN regs[Device(t)][From(call[t].add, i - 1)] ELSE junk]]
      BY <2>1
    <3>2. ASSUME NEW i \in 1 .. call[t].length PROVE regs[Device(t)][From(call[t].add, i - 1)] \in Bytes
      <4>1. i - 1 \in Nat /\ call[t].add \in Nat
        BY <2>0, IndexFacts, RegistersAreNat
      <4>2. From(call[t].add, i - 1) \in Registers
        BY <4>1, FromRange
      <4> QED
        BY <2>1, <4>2 DEF Answers, Content
    <3>3. [i \in 1 .. call[t].length |-> IF i <= n THEN regs[Device(t)][From(call[t].add, i - 1)] ELSE junk]
            \in Seq(Bytes \cup Garbage)
      <4> DEFINE f == [i \in 1 .. call[t].length |-> IF i <= n THEN regs[Device(t)][From(call[t].add, i - 1)] ELSE junk]
      <4>1. \A i \in 1 .. call[t].length : f[i] \in Bytes \cup Garbage
        BY <3>2
      <4> HIDE DEF f
      <4>2. f \in [1 .. call[t].length -> Bytes \cup Garbage]
        BY <4>1 DEF f
      <4>3. f \in Seq(Bytes \cup Garbage)
        BY <2>0, <4>2, ArrayIsSeq
      <4> QED
        BY <4>3 DEF f
    <3>4. From(call[t].add, n) \in Registers
      BY <2>0, FromRange, RegistersAreNat
    <3> QED
      BY <1>8, <2>1, <3>1, <3>3, <3>4 DEF ReadBytes, Answer, Goto, Answers
  <2>2. CASE Answer(t, -1) /\ UNCHANGED <<ptr, buff>>
    BY <1>8, <2>2 DEF ReadBytes, Answer, Goto
  <2> QED
    BY <1>8, <2>1, <2>2 DEF ReadBytes, n
<1>9. ASSUME NEW t \in Threads, Leave(t) PROVE TypeInv'
  BY <1>9, ConstantsAssumption DEF Leave, Goto, devices
<1>10. CASE UNCHANGED vars
  BY <1>10 DEF vars, devices, locals
<1> QED
  BY <1>1, <1>2, <1>3, <1>4, <1>5, <1>6, <1>7, <1>8, <1>9, <1>10 DEF Next, Proceed

\* Every variable keeps its type, whatever calls overlap and whatever fails.
THEOREM TypeCorrect == Spec => []TypeOK
<1>1. Spec => []TypeInv
  BY TypeInit, TypeNext, PTL DEF Spec
<1>2. TypeInv => TypeOK
  BY DEF TypeInv
<1> QED
  BY <1>1, <1>2, PTL

-----------------------------------------------------------------------------
(* Calls that have a descriptor for themselves.  The discipline: calls     *)
(* that overlap are on different descriptors.                              *)

\* A call still has the slave it found, and a call in progress on a slave has
\* seen what the slave holds now.
OwnInv ==
  /\ TypeInv
  /\ \A t, u \in Threads : t # u /\ pc[t] # "idle" /\ pc[u] # "idle" =>
       MayOverlap(call[t], call[u]) /\ MayOverlap(call[u], call[t])
  /\ \A t \in Threads : pc[t] \in {"start", "read"} => target[t] = slave[call[t].fd]
  /\ \A t \in Threads : pc[t] # "idle" /\ target[t] \in Slaves => regs[target[t]] \in seen[t]

\* No call is in progress at the start.
LEMMA OwnInit == Init => OwnInv
  BY TypeInit DEF Init, OwnInv


\* The calls that transfer.  One that does not store leaves the registers as they
\* were; one that stores stores a beginning of what the caller has given.
Access(t) ==
  SetAddress(t) \/ ReadByteAddress(t) \/ ReadByteData(t) \/ WriteByte(t) \/ WriteBytes(t) \/ ReadBytes(t)

Stores(t, bytes) ==
  /\ Answers(t) /\ Store(t, call[t].add, bytes) /\ Len(bytes) <= N
  /\ Len(bytes) <= Len(call[t].bytes) /\ \A i \in 1 .. Len(bytes) : bytes[i] = call[t].bytes[i]

\* A write does nothing and returns -1, or stores the bytes it was given, at their place.
LEMMA StoreEffect ==
  ASSUME TypeInv, NEW t \in Threads, WriteByte(t) \/ WriteBytes(t)
  PROVE  /\ pc[t] = "start" /\ call[t].add \in Registers /\ UNCHANGED <<slave, locals>>
         /\ \/ Answer(t, -1) /\ UNCHANGED <<devices, seen>>
            \/ Answer(t, 0) /\ \E bytes \in Seq(Bytes) : Stores(t, bytes)
<1>1. CASE WriteByte(t)
  <2>1. pc[t] = "start" /\ call[t].op = "writeByte" /\ 1 <= N
    BY <1>1, ConstantsAssumption DEF WriteByte
  <2>2. call[t].add \in Registers /\ call[t].bytes \in Seq(Bytes) /\ Len(call[t].bytes) = 1
    BY <2>1, CallFacts
  <2>3. Len(call[t].bytes) <= N
    BY <2>1, <2>2
  <2>4. Store(t, call[t].add, call[t].bytes) /\ Answers(t) => Stores(t, call[t].bytes)
    BY <2>2, <2>3 DEF Stores
  <2> QED
    BY <1>1, <2>1, <2>2, <2>4 DEF WriteByte
<1>2. CASE WriteBytes(t)
  <2>1. pc[t] = "start" /\ call[t].op = "writeBytes"
    BY <1>2 DEF WriteBytes
  <2>2. /\ call[t].add \in Registers /\ call[t].bytes \in Seq(Bytes)
        /\ call[t].length \in Nat /\ call[t].length = Len(call[t].bytes)
    BY <2>1, CallFacts
  <2> DEFINE sent == SubSeq(call[t].bytes, 1, Transferred(call[t].length))
  <2>3. /\ sent \in Seq(Bytes) /\ Len(sent) <= N /\ Len(sent) <= Len(call[t].bytes)
        /\ \A i \in 1 .. Len(sent) : sent[i] = call[t].bytes[i]
    BY <2>2, SentFacts
  <2>4. /\ \/ Answers(t) /\ Store(t, call[t].add, sent) /\ Answer(t, 0)
           \/ Answer(t, -1) /\ UNCHANGED <<devices, seen>>
        /\ UNCHANGED <<slave, locals>>
    BY <1>2 DEF WriteBytes
  <2> HIDE DEF sent
  <2> QED
    BY <2>1, <2>2, <2>3, <2>4 DEF Stores
<1> QED
  BY <1>1, <1>2

\* A transfer stores nothing, or stores bytes in its device; it moves its own thread only.
LEMMA AccessEffect ==
  ASSUME TypeInv, NEW t \in Threads, Access(t)
  PROVE  /\ pc[t] \in {"start", "read"} /\ UNCHANGED <<slave, call, target>>
         /\ pc' = [pc EXCEPT ![t] = pc'[t]] /\ pc'[t] \in {"read", "return"}
         /\ \/ UNCHANGED <<regs, seen>>
            \/ call[t].add \in Registers /\ \E bytes \in Seq(Bytes) : Stores(t, bytes)
<1>1. CASE WriteByte(t) \/ WriteBytes(t)
  BY <1>1, StoreEffect DEF Answer, Goto, TypeInv, TypeOK, locals, devices
<1>2. CASE SetAddress(t) \/ ReadByteAddress(t)
  BY <1>2 DEF SetAddress, ReadByteAddress, Goto, TypeInv, TypeOK, locals
<1>3. CASE ReadByteData(t)
  BY <1>3 DEF ReadByteData, Answer, Goto, TypeInv, TypeOK, locals
<1>4. CASE ReadBytes(t)
  BY <1>4 DEF ReadBytes, Answer, Goto, TypeInv, TypeOK
<1> QED
  BY <1>1, <1>2, <1>3, <1>4 DEF Access

\* A slave whose registers a store changes, and whoever has begun on it.
LEMMA StoredFacts ==
  ASSUME TypeInv, NEW t \in Threads, call[t].add \in Registers, NEW bytes \in Seq(Bytes), Stores(t, bytes)
  PROVE  LET content == Written(regs[Device(t)], call[t].add, bytes) IN
         /\ Device(t) \in Slaves /\ regs' = [regs EXCEPT ![Device(t)] = content]
         /\ \A s \in Slaves : regs'[s] = IF s = Device(t) THEN content ELSE regs[s]
         /\ \A u \in Threads : seen'[u] = IF target[u] = Device(t) THEN seen[u] \cup {content} ELSE seen[u]
  BY DEF Stores, Store, Answers, TypeInv, TypeOK

\* OwnInv is inductive: a call is about the device it has selected.
LEMMA OwnNext ==
  ASSUME OneCallPerFd
  PROVE  OwnInv /\ [Next]_vars => OwnInv'
<1> SUFFICES ASSUME OwnInv, [Next]_vars PROVE OwnInv'
  OBVIOUS
<1>0. TypeInv /\ TypeInv'
  BY TypeNext DEF OwnInv
<1> USE <1>0 DEF OwnInv
<1>1. ASSUME NEW t \in Threads, NEW c \in Calls, Enter(t, c) PROVE OwnInv'
  <2>1. /\ call' = [call EXCEPT ![t] = c] /\ target' = [target EXCEPT ![t] = slave[c.fd]]
        /\ seen' = [seen EXCEPT ![t] = {regs[s] : s \in Slaves \cap {slave[c.fd]}}]
        /\ pc' = [pc EXCEPT ![t] = "start"] /\ UNCHANGED <<slave, regs>>
    BY <1>1 DEF Enter, Goto, devices
  <2>2. \A u \in Threads : pc[u] # "idle" => MayOverlap(c, call[u]) /\ MayOverlap(call[u], c)
    BY <1>1 DEF Enter
  <2> QED
    BY <2>1, <2>2 DEF TypeInv, TypeOK
<1>2. ASSUME NEW t \in Threads, SetSlave(t) PROVE OwnInv'
  <2>1. /\ pc[t] = "start" /\ pc' = [pc EXCEPT ![t] = "return"] /\ UNCHANGED <<call, target, seen, regs>>
        /\ \A f \in Fds : slave'[f] # slave[f] => f = call[t].fd
    BY <1>2 DEF SetSlave, Answer, Goto, devices, locals, TypeInv, TypeOK
  <2>2. ASSUME NEW u \in Threads, pc'[u] \in {"start", "read"} PROVE slave'[call[u].fd] = slave[call[u].fd]
    <3>1. u # t /\ pc[u] \in {"start", "read"}
      BY <2>1, <2>2 DEF TypeInv, TypeOK
    <3>2. call[t] \in Calls /\ call[u] \in Calls /\ call[u].fd \in Fds
      BY <2>1, <3>1, CallFacts
    <3>3. call[t].fd # call[u].fd
      BY <2>1, <3>1, <3>2 DEF OneCallPerFd
    <3> QED
      BY <2>1, <3>2, <3>3
  <2> QED
    BY <2>1, <2>2 DEF TypeInv, TypeOK
<1>3. ASSUME NEW t \in Threads, Access(t) PROVE OwnInv'
  <2>1. /\ pc[t] \in {"start", "read"} /\ UNCHANGED <<slave, call, target>>
        /\ pc' = [pc EXCEPT ![t] = pc'[t]] /\ pc'[t] \in {"read", "return"}
        /\ \A u \in Threads : pc'[u] = IF u = t THEN pc'[t] ELSE pc[u]
    BY <1>3, AccessEffect DEF TypeInv, TypeOK
  <2>2. \A u \in Threads : pc'[u] # "idle" /\ target'[u] \in Slaves => regs'[target'[u]] \in seen'[u]
    <3>1. CASE UNCHANGED <<regs, seen>>
      BY <2>1, <3>1
    <3>2. CASE call[t].add \in Registers /\ \E bytes \in Seq(Bytes) : Stores(t, bytes)
      <4>1. PICK bytes \in Seq(Bytes) : Stores(t, bytes)
        BY <3>2
      <4> DEFINE content == Written(regs[Device(t)], call[t].add, bytes)
      <4>2. /\ \A s \in Slaves : regs'[s] = IF s = Device(t) THEN content ELSE regs[s]
            /\ \A u \in Threads : seen'[u] = IF target[u] = Device(t) THEN seen[u] \cup {content} ELSE seen[u]
        BY <3>2, <4>1, StoredFacts
      <4> HIDE DEF content
      <4> QED
        BY <2>1, <4>2
    <3> QED
      BY <1>3, <3>1, <3>2, AccessEffect
  <2> QED
    BY <2>1, <2>2
<1>4. ASSUME NEW t \in Threads, Leave(t) PROVE OwnInv'
  BY <1>4 DEF Leave, Goto, devices, TypeInv, TypeOK
<1>5. CASE UNCHANGED vars
  BY <1>5 DEF vars, devices, locals
<1> QED
  BY <1>1, <1>2, <1>3, <1>4, <1>5 DEF Next, Proceed, Access

\* While calls on one descriptor exclude each other, a register changes only to a
\* byte that a write begun on its very slave sends to it, although the slave of a
\* descriptor is set by one call and used by another (i2c.c:41, 97, 117).
THEOREM OnlyAskedRegistersChangeHolds ==
  ASSUME OneCallPerFd
  PROVE  Spec => OnlyAskedRegistersChange
<1> DEFINE Asked ==
      \A s \in Slaves, r \in Registers : regs'[s][r] # regs[s][r] =>
        \E t \in Threads : /\ target[t] = s
                           /\ \E i \in 1 .. Len(call[t].bytes) :
                                r = (call[t].add + i - 1) % N /\ regs'[s][r] = call[t].bytes[i]
<1>1. ASSUME OwnInv, Next PROVE Asked
  <2>0. TypeInv
    BY <1>1 DEF OwnInv
  <2>1. CASE regs' = regs
    BY <2>1
  <2>2. ASSUME NEW t \in Threads, Access(t), regs' # regs PROVE Asked
    <3>1. PICK bytes \in Seq(Bytes) : Stores(t, bytes)
      BY <2>0, <2>2, AccessEffect
    <3>2. call[t].add \in Registers /\ call[t].add \in Nat
      BY <2>0, <2>2, AccessEffect, RegistersAreNat
    <3>3. target[t] = Device(t)
      BY <1>1, <2>0, <2>2, AccessEffect DEF OwnInv, Device
    <3> SUFFICES ASSUME NEW s \in Slaves, NEW r \in Registers, regs'[s][r] # regs[s][r]
                 PROVE  /\ target[t] = s
                        /\ \E i \in 1 .. Len(call[t].bytes) :
                             r = (call[t].add + i - 1) % N /\ regs'[s][r] = call[t].bytes[i]
      OBVIOUS
    <3>4. s = Device(t) /\ regs'[s] = Written(regs[s], call[t].add, bytes)
      BY <2>0, <3>1, <3>2, StoredFacts
    <3>5. regs[s] \in Content /\ Len(bytes) <= N
      BY <2>0, <3>1 DEF TypeInv, TypeOK, Stores
    <3>6. PICK i \in 1 .. Len(bytes) : r = From(call[t].add, i - 1) /\ regs'[s][r] = bytes[i]
      <4>1. Written(regs[s], call[t].add, bytes)[r] # regs[s][r]
        BY <3>4
      <4>2. \E i \in 1 .. Len(bytes) :
              r = From(call[t].add, i - 1) /\ Written(regs[s], call[t].add, bytes)[r] = bytes[i]
        BY <3>2, <3>5, <4>1, WrittenFacts
      <4> QED
        BY <3>4, <4>2
    <3>7. i \in 1 .. Len(call[t].bytes) /\ bytes[i] = call[t].bytes[i]
      <4>1. call[t].bytes \in Seq(Bytes)
        BY <2>0, <2>2, AccessEffect, CallFacts
      <4> QED
        BY <3>1, <4>1 DEF Stores
    <3>8. call[t].add + i - 1 = call[t].add + (i - 1)
      BY <3>2
    <3> QED
      BY <3>3, <3>4, <3>6, <3>7, <3>8 DEF From
  <2> QED
    BY <1>1, <2>1, <2>2 DEF Next, Proceed, Access, Enter, SetSlave, Leave, devices
<1>2. OwnInv /\ [Next]_vars => [Asked]_vars
  BY <1>1
<1>3. Spec => [][Asked]_vars
  BY <1>2, OwnInit, OwnNext, PTL DEF Spec
<1> QED
  BY <1>3 DEF OnlyAskedRegistersChange

-----------------------------------------------------------------------------
(* Blocks.  A call that has ended keeps what it tells, and what it has     *)
(* seen only grows.                                                        *)

BlockInv == OwnInv /\ BlockReadIsSnapshot /\ BlockWriteIsStored

\* What a device has been seen to hold during a call is remembered until it ends.
LEMMA SeenGrows ==
  ASSUME TypeInv, NEW t \in Threads, Access(t)
  PROVE  \A u \in Threads : seen[u] \subseteq seen'[u]
<1>1. CASE UNCHANGED <<regs, seen>>
  BY <1>1
<1>2. CASE call[t].add \in Registers /\ \E bytes \in Seq(Bytes) : Stores(t, bytes)
  <2>1. PICK bytes \in Seq(Bytes) : Stores(t, bytes)
    BY <1>2
  <2> QED
    BY <1>2, <2>1, StoredFacts
<1> QED
  BY <1>1, <1>2, AccessEffect

\* A step leaves the results and the buffers of the other threads alone.
LEMMA OthersKeepTheirs ==
  ASSUME NEW t \in Threads, Access(t) \/ SetSlave(t), TypeInv
  PROVE  \A u \in Threads \ {t} : ret'[u] = ret[u] /\ buff'[u] = buff[u] /\ pc'[u] = pc[u]
<1> USE DEF Answer, Goto, locals, TypeInv, TypeOK
<1>1. CASE SetSlave(t)
  BY <1>1 DEF SetSlave
<1>2. CASE SetAddress(t) \/ ReadByteAddress(t)
  BY <1>2 DEF SetAddress, ReadByteAddress, PointAt
<1>3. CASE ReadByteData(t)
  BY <1>3 DEF ReadByteData
<1>4. CASE WriteByte(t) \/ WriteBytes(t)
  BY <1>4 DEF WriteByte, WriteBytes
<1>5. CASE ReadBytes(t)
  BY <1>5 DEF ReadBytes
<1> QED
  BY <1>1, <1>2, <1>3, <1>4, <1>5 DEF Access

\* What a block read that succeeds has put down, and what it has seen.
LEMMA BlockRead ==
  ASSUME OwnInv, NEW t \in Threads, ReadBytes(t), ret'[t] = 0, call[t].length <= BlockMax
  PROVE  \E content \in seen[t] :
           \A i \in 1 .. call[t].length : buff'[t][i] = content[From(call[t].add, i - 1)]
<1>0. TypeInv /\ pc[t] = "start" /\ call[t].length \in Nat
  BY CallFacts DEF OwnInv, ReadBytes
<1>1. Transferred(call[t].length) = call[t].length
  BY <1>0, TransferredFacts
<1>2. PICK junk \in Garbage :
        /\ Answers(t)
        /\ buff' = [buff EXCEPT ![t] = [i \in 1 .. call[t].length |->
             IF i <= Transferred(call[t].length) THEN regs[Device(t)][From(call[t].add, i - 1)] ELSE junk]]
  BY <1>0 DEF ReadBytes, Answer, TypeInv, TypeOK
<1>3. regs[Device(t)] \in seen[t]
  BY <1>0, <1>2 DEF OwnInv, Answers, Device
<1>4. buff'[t] = [i \in 1 .. call[t].length |->
        IF i <= call[t].length THEN regs[Device(t)][From(call[t].add, i - 1)] ELSE junk]
  BY <1>0, <1>1, <1>2 DEF TypeInv, TypeOK
<1>5. \A i \in 1 .. call[t].length : buff'[t][i] = regs[Device(t)][From(call[t].add, i - 1)]
  BY <1>0, <1>4
<1> QED
  BY <1>3, <1>5

\* What a block write that succeeds has stored.
LEMMA BlockWrite ==
  ASSUME OwnInv, NEW t \in Threads, WriteBytes(t), ret'[t] = 0, call[t].length <= BlockMax
  PROVE  \E content \in seen'[t] :
           \A i \in 1 .. call[t].length : content[From(call[t].add, i - 1)] = call[t].bytes[i]
<1> DEFINE sent == SubSeq(call[t].bytes, 1, Transferred(call[t].length))
<1>0. /\ TypeInv /\ pc[t] = "start" /\ call[t].length \in Nat /\ call[t].bytes \in Seq(Bytes)
      /\ call[t].length = Len(call[t].bytes) /\ call[t].add \in Registers
  BY CallFacts DEF OwnInv, WriteBytes
<1>1. Transferred(call[t].length) = call[t].length
  BY <1>0, TransferredFacts
<1>2. /\ sent \in Seq(Bytes) /\ Len(sent) = call[t].length /\ Len(sent) <= N
      /\ Len(sent) <= Len(call[t].bytes) /\ \A i \in 1 .. Len(sent) : sent[i] = call[t].bytes[i]
  BY <1>0, <1>1, SentFacts
<1>3. Answers(t) /\ Store(t, call[t].add, sent)
  BY <1>0 DEF WriteBytes, Answer, TypeInv, TypeOK
<1> HIDE DEF sent
<1>4. Stores(t, sent)
  BY <1>2, <1>3 DEF Stores
<1> DEFINE content == Written(regs[Device(t)], call[t].add, sent)
<1>5. content \in seen'[t]
  <2>1. target[t] = Device(t)
    BY <1>0 DEF OwnInv, Device
  <2>2. seen'[t] = IF target[t] = Device(t) THEN seen[t] \cup {content} ELSE seen[t]
    BY <1>0, <1>2, <1>4, StoredFacts
  <2> QED
    BY <2>1, <2>2
<1>6. \A i \in 1 .. Len(sent) : content[From(call[t].add, i - 1)] = sent[i]
  BY <1>0, <1>2, <1>3, WrittenFacts DEF Answers, TypeInv, TypeOK
<1> HIDE DEF content
<1> QED
  BY <1>2, <1>5, <1>6

\* BlockInv is inductive: blocks are read and written whole.
LEMMA BlockNext ==
  ASSUME OneCallPerFd
  PROVE  BlockInv /\ [Next]_vars => BlockInv'
<1> SUFFICES ASSUME BlockInv, [Next]_vars PROVE BlockInv'
  OBVIOUS
<1>0. OwnInv /\ OwnInv' /\ TypeInv
  BY OwnNext DEF BlockInv, OwnInv
<1> USE <1>0 DEF BlockInv, BlockReadIsSnapshot, BlockWriteIsStored, Returns
<1>1. ASSUME NEW t \in Threads, NEW c \in Calls, Enter(t, c) PROVE BlockInv'
  <2>1. /\ \A u \in Threads \ {t} : pc'[u] = pc[u] /\ call'[u] = call[u] /\ seen'[u] = seen[u]
        /\ pc'[t] = "start" /\ UNCHANGED <<ret, buff>>
    BY <1>1 DEF Enter, Goto, TypeInv, TypeOK
  <2> QED
    BY <2>1
<1>2. ASSUME NEW t \in Threads, SetSlave(t) PROVE BlockInv'
  BY <1>2, OthersKeepTheirs DEF SetSlave, locals
<1>3. ASSUME NEW t \in Threads, Access(t) PROVE BlockInv'
  <2>1. /\ UNCHANGED call /\ \A u \in Threads : seen[u] \subseteq seen'[u]
        /\ \A u \in Threads \ {t} : ret'[u] = ret[u] /\ buff'[u] = buff[u] /\ pc'[u] = pc[u]
    BY <1>3, AccessEffect, SeenGrows, OthersKeepTheirs
  <2>2. ASSUME call[t].op = "readBytes", ret'[t] = 0, call[t].length <= BlockMax, pc'[t] = "return"
        PROVE  \E content \in seen'[t] :
                 \A i \in 1 .. call[t].length : buff'[t][i] = content[From(call[t].add, i - 1)]
    <3>1. ReadBytes(t)
      BY <1>3, <2>2 DEF Access, SetAddress, ReadByteAddress, ReadByteData, WriteByte, WriteBytes, TypeInv
    <3> QED
      BY <2>1, <2>2, <3>1, BlockRead
  <2>3. ASSUME call[t].op = "writeBytes", ret'[t] = 0, call[t].length <= BlockMax, pc'[t] = "return"
        PROVE  \E content \in seen'[t] :
                 \A i \in 1 .. call[t].length : content[From(call[t].add, i - 1)] = call[t].bytes[i]
    <3>1. WriteBytes(t)
      BY <1>3, <2>3 DEF Access, SetAddress, ReadByteAddress, ReadByteData, WriteByte, ReadBytes, TypeInv
    <3> QED
      BY <2>3, <3>1, BlockWrite
  <2>4. BlockReadIsSnapshot'
    BY <2>1, <2>2
  <2>5. BlockWriteIsStored'
    BY <2>1, <2>3
  <2> QED
    BY <2>4, <2>5
<1>4. ASSUME NEW t \in Threads, Leave(t) PROVE BlockInv'
  <2>1. /\ \A u \in Threads \ {t} :
             /\ pc'[u] = pc[u] /\ call'[u] = call[u] /\ seen'[u] = seen[u]
             /\ ret'[u] = ret[u] /\ buff'[u] = buff[u]
        /\ pc'[t] = "idle"
    BY <1>4 DEF Leave, Goto, TypeInv, TypeOK
  <2> QED
    BY <2>1
<1>5. CASE UNCHANGED vars
  BY <1>5 DEF vars, devices, locals
<1> QED
  BY <1>1, <1>2, <1>3, <1>4, <1>5 DEF Next, Proceed, Access

-----------------------------------------------------------------------------
(* i2cReadByte, which reads in two transfers.  The discipline: what may    *)
(* overlap it is for another descriptor, and sets its slave or is for      *)
(* slaves of its own; and the address byte is not refused.                 *)

ReadInv ==
  /\ BlockInv
  /\ \A f \in Fds : slave[f] \in Named(f) \cup {NoSlave}
  /\ \A t \in Threads : pc[t] = "read" /\ Answers(t) => ptr[Device(t)] = call[t].add
  /\ ReadByteReturnsItsRegister

\* No register has been pointed to at the start.
LEMMA ReadInit == Init => ReadInv
  BY OwnInit DEF Init, ReadInv, BlockInv, BlockReadIsSnapshot, BlockWriteIsStored, ReadByteReturnsItsRegister, Returns

\* A transfer moves the pointer of its own slave.
LEMMA PointerEffect ==
  ASSUME TypeInv, NEW t \in Threads, Access(t), NEW s \in Slaves, ptr'[s] # ptr[s]
  PROVE  s = Device(t)
<1> USE DEF TypeInv, TypeOK
<1>1. CASE SetAddress(t) \/ ReadByteAddress(t)
  BY <1>1 DEF SetAddress, ReadByteAddress, PointAt
<1>2. CASE ReadByteData(t)
  BY <1>2 DEF ReadByteData
<1>3. CASE WriteByte(t) \/ WriteBytes(t)
  BY <1>3 DEF WriteByte, WriteBytes, Store, devices
<1>4. CASE ReadBytes(t)
  BY <1>4 DEF ReadBytes
<1> QED
  BY <1>1, <1>2, <1>3, <1>4 DEF Access

\* ReadInv is inductive: where pointers are kept, a byte is read from the register asked for.
LEMMA ReadNext ==
  ASSUME OneCallPerFd, PointersKept, "point" \notin Failures
  PROVE  ReadInv /\ [Next]_vars => ReadInv'
<1> SUFFICES ASSUME ReadInv, [Next]_vars PROVE ReadInv'
  OBVIOUS
<1>0. BlockInv /\ BlockInv' /\ OwnInv /\ TypeInv
  BY BlockNext DEF ReadInv, BlockInv, OwnInv
<1> USE <1>0 DEF ReadInv, ReadByteReturnsItsRegister, Returns, Answers, Device
<1>1. ASSUME NEW t \in Threads, NEW c \in Calls, Enter(t, c) PROVE ReadInv'
  BY <1>1 DEF Enter, Goto, devices, TypeInv, TypeOK
<1>2. ASSUME NEW t \in Threads, SetSlave(t) PROVE ReadInv'
  <2>1. /\ pc[t] = "start" /\ pc' = [pc EXCEPT ![t] = "return"] /\ UNCHANGED <<call, seen, ptr>>
        /\ call[t].op = "setSlave" /\ \A u \in Threads \ {t} : ret'[u] = ret[u]
        /\ \A f \in Fds : slave'[f] = slave[f] \/ (f = call[t].fd /\ slave'[f] = call[t].add)
    BY <1>2, OthersKeepTheirs DEF SetSlave, Answer, Goto, devices, locals, TypeInv, TypeOK
  <2>2. call[t] \in Calls
    BY <2>1, CallFacts
  <2>3. \A f \in Fds : slave'[f] \in Named(f) \cup {NoSlave}
    BY <2>1, <2>2 DEF Named
  <2>4. ASSUME NEW u \in Threads, pc'[u] = "read" PROVE slave'[call[u].fd] = slave[call[u].fd] /\ pc[u] = "read"
    <3>1. u # t /\ pc[u] = "read"
      BY <2>1, <2>4 DEF TypeInv, TypeOK
    <3>2. call[u] \in Calls /\ call[u].fd \in Fds
      BY <3>1, CallFacts
    <3>3. call[t].fd # call[u].fd
      BY <2>1, <2>2, <3>1, <3>2 DEF OneCallPerFd, OwnInv
    <3> QED
      BY <2>1, <3>1, <3>2, <3>3
  <2>5. \A u \in Threads : pc'[u] = "read" /\ Answers(u)' => ptr'[slave'[call'[u].fd]] = call'[u].add
    BY <2>1, <2>4
  <2>6. ReadByteReturnsItsRegister'
    <3>1. \A u \in Threads \ {t} : pc'[u] = pc[u]
      BY <2>1 DEF TypeInv, TypeOK
    <3> QED
      BY <2>1, <3>1
  <2> QED
    BY <2>3, <2>5, <2>6
<1>3. ASSUME NEW t \in Threads, Access(t) PROVE ReadInv'
  <2>1. /\ UNCHANGED <<call, slave>> /\ \A u \in Threads : seen[u] \subseteq seen'[u]
        /\ pc[t] \in {"start", "read"}
        /\ \A u \in Threads \ {t} : ret'[u] = ret[u] /\ pc'[u] = pc[u]
    BY <1>3, AccessEffect, SeenGrows, OthersKeepTheirs
  <2>2. ASSUME NEW u \in Threads \ {t}, pc[u] = "read", Answers(u) PROVE ptr'[Device(u)] = ptr[Device(u)]
    <3>1. call[t] \in Calls /\ call[u] \in Calls /\ call[t].fd \in Fds /\ call[u].fd \in Fds
      BY <2>1, <2>2, CallFacts
    <3>2. call[u].op = "readByte" /\ call[t].op # "setSlave"
      BY <1>3, <2>2 DEF TypeInv, Access, SetAddress, ReadByteAddress, ReadByteData, WriteByte, WriteBytes, ReadBytes
    <3>3. MayOverlap(call[u], call[t]) /\ MayOverlap(call[t], call[u])
      BY <2>1, <2>2 DEF OwnInv
    <3>4. Named(call[u].fd) \cap Named(call[t].fd) \cap Slaves = {}
      BY <3>1, <3>2, <3>3 DEF PointersKept
    <3>5. Device(u) \in Named(call[u].fd) /\ (Device(t) \in Slaves => Device(t) \in Named(call[t].fd))
      BY <2>2, <3>1, ConstantsAssumption DEF NoSlave
    <3>6. Device(u) # Device(t)
      BY <2>2, <3>4, <3>5
    <3> QED
      BY <1>3, <2>2, <3>6, PointerEffect
  <2>3. ASSUME pc'[t] = "read", Answers(t) PROVE ptr'[Device(t)] = call[t].add
    <3>1. ReadByteAddress(t)
      BY <1>3, <2>3 DEF Access, SetAddress, ReadByteData, WriteByte, WriteBytes, ReadBytes, Answer, Goto, TypeInv, TypeOK
    <3>2. ptr' = [ptr EXCEPT ![Device(t)] = call[t].add]
      BY <2>3, <3>1 DEF ReadByteAddress, PointAt, Fails
    <3> QED
      BY <2>3, <3>2 DEF TypeInv, TypeOK
  <2>4. ASSUME NEW b \in Bytes, pc'[t] = "return", call[t].op = "readByte", ret'[t] = b
        PROVE  \E content \in seen[t] : content[call[t].add] = b
    <3>1. ReadByteData(t)
      BY <1>3, <2>4 DEF Access, SetAddress, ReadByteAddress, WriteByte, WriteBytes, ReadBytes, Answer, Goto, TypeInv, TypeOK
    <3>2. Answers(t) /\ b = regs[Device(t)][ptr[Device(t)]] /\ pc[t] = "read"
      <4>1. ret' = [ret EXCEPT ![t] = ret'[t]] /\ b # -1 /\ pc[t] = "read"
        BY <2>4, <3>1, ConstantsAssumption DEF ReadByteData, Answer, TypeInv, TypeOK
      <4> QED
        BY <2>4, <3>1, <4>1 DEF ReadByteData, Answer, TypeInv, TypeOK
    <3>3. regs[Device(t)] \in seen[t]
      BY <2>1, <3>2 DEF OwnInv
    <3> QED
      BY <3>2, <3>3
  <2>5. \A u \in Threads : pc'[u] = "read" /\ Answers(u) => ptr'[Device(u)] = call[u].add
    BY <2>1, <2>2, <2>3
  <2>6. ReadByteReturnsItsRegister'
    BY <2>1, <2>4
  <2> QED
    BY <2>1, <2>5, <2>6
<1>4. ASSUME NEW t \in Threads, Leave(t) PROVE ReadInv'
  <2>1. /\ \A u \in Threads \ {t} : /\ pc'[u] = pc[u] /\ call'[u] = call[u]
                                      /\ seen'[u] = seen[u] /\ ret'[u] = ret[u]
        /\ pc'[t] = "idle" /\ UNCHANGED <<slave, ptr>>
    BY <1>4 DEF Leave, Goto, devices, TypeInv, TypeOK
  <2> QED
    BY <2>1
<1>5. CASE UNCHANGED vars
  BY <1>5 DEF vars, devices, locals
<1> QED
  BY <1>1, <1>2, <1>3, <1>4, <1>5 DEF Next, Proceed, Access

\* When calls on one descriptor exclude each other, i2cReadByte excludes what moves
\* the pointer of its slave, and the address byte is not refused, a read tells what
\* the registers it was asked for have held during the call, and a write of a block
\* has stored all of it (i2c.c:97, 117, 139-141, 162).
THEOREM TransfersAreTrueHolds ==
  ASSUME OneCallPerFd, PointersKept, "point" \notin Failures
  PROVE  Spec => []TransfersAreTrue
<1>1. Spec => []ReadInv
  BY ReadInit, ReadNext, PTL DEF Spec
<1>2. ReadInv => TransfersAreTrue
  BY DEF ReadInv, BlockInv, TransfersAreTrue
<1> QED
  BY <1>1, <1>2, PTL

-----------------------------------------------------------------------------
(* CAN.                                                                    *)

\* Where a thread is, what it does and what it holds; who reads a socket reads it alone.
PlaceInv ==
  /\ C!TypeOK
  /\ \A t \in Threads :
       /\ canPc[t] # "idle" => canCall[t] \in CanCalls
       /\ canPc[t] = "idle" => canCall[t] = C!NoCall
       /\ canPc[t] \in {"select", "read"} => canCall[t].op = "read"
       /\ result[t] \in C!Frames => canPc[t] = "return" /\ canCall[t].op = "read"
AloneInv ==
  \A t, u \in Threads : t # u /\ canCall[t].op = "read" /\ canCall[u].op = "read" => canCall[t].sock # canCall[u].sock

\* What has been queued is what Java has got, what is on the way to it, and what is queued still.
InHand(s) == IF C!Holding(s) = {} THEN << >> ELSE <<result[CHOOSE t \in C!Holding(s) : TRUE]>>
StoryInv == \A s \in Sockets : accepted[s] = got[s] \o InHand(s) \o rx[s]
FramesInv == PlaceInv /\ AloneInv /\ StoryInv

\* What is on the way.
LEMMA HoldsNone ==
  ASSUME NEW s, C!Holding(s) = {} PROVE InHand(s) = << >>
  BY DEF InHand

\* And with one thread that holds a frame.
LEMMA HoldsOne ==
  ASSUME NEW s, NEW t, C!Holding(s) = {t} PROVE InHand(s) = <<result[t]>>
<1>1. (CHOOSE u \in C!Holding(s) : TRUE) = t
  OBVIOUS
<1> QED
  BY <1>1 DEF InHand

\* One thread holds a frame of a socket at most.
LEMMA HoldsFacts ==
  ASSUME PlaceInv, AloneInv, NEW s \in Sockets
  PROVE  /\ \/ C!Holding(s) = {} /\ InHand(s) = << >>
            \/ \E t \in Threads : C!Holding(s) = {t} /\ InHand(s) = <<result[t]>>
         /\ InHand(s) \in Seq(C!Frames)
<1>1. CASE C!Holding(s) = {}
  <2>1. InHand(s) = << >>
    BY <1>1, HoldsNone
  <2>2. InHand(s) \in Seq(C!Frames)
    BY <2>1
  <2> QED
    BY <1>1, <2>1, <2>2
<1>2. CASE C!Holding(s) # {}
  <2>1. PICK t \in Threads : t \in C!Holding(s)
    BY <1>2 DEF C!Holding
  <2>2. \A u \in C!Holding(s) : u = t
    BY <2>1 DEF C!Holding, PlaceInv, AloneInv
  <2>3. C!Holding(s) = {t} /\ result[t] \in C!Frames
    BY <2>1, <2>2 DEF C!Holding
  <2>4. InHand(s) = <<result[t]>>
    BY <2>3, HoldsOne
  <2>5. InHand(s) \in Seq(C!Frames)
    BY <2>3, <2>4
  <2> QED
    BY <2>3, <2>4, <2>5
<1> QED
  BY <1>1, <1>2

\* Constants of the model.
LEMMA NumberFacts ==
  ASSUME C!CanAssumption
  PROVE  /\ C!Null \notin C!Frames /\ C!Uninitialised \cap C!Frames = {} /\ C!NoCall \notin CanCalls
         /\ C!NoCall.op = "none" /\ C!NoCall.sock = 0 /\ CanCalls \subseteq C!Call
         /\ \A c \in C!Call : c.op \in {"read", "send"} /\ c.sock \in Sockets /\ c.length \in 0 .. 8
         /\ \A f \in 0 .. MaxFrames - 1, l \in 0 .. 8 : C!Frame(f + 1, l) \in C!Frames
  BY DEF C!CanAssumption, C!Null, C!Frames, C!Frame, C!Uninitialised, C!NoCall, C!Call

\* Nothing has been queued at the start.
LEMMA CanInit == C!CanAssumption /\ C!Init => FramesInv
<1> SUFFICES ASSUME C!CanAssumption, C!Init PROVE FramesInv
  OBVIOUS
<1> USE DEF C!Init
<1>1. C!TypeOK
  BY DEF C!TypeOK, C!CanAssumption, C!FrameSize
<1>2. PlaceInv /\ AloneInv
  BY <1>1, NumberFacts DEF PlaceInv, AloneInv
<1>3. \A s \in Sockets : C!Holding(s) = {}
  BY NumberFacts DEF C!Holding
<1>4. StoryInv
  BY <1>3, HoldsNone DEF StoryInv
<1> QED
  BY <1>2, <1>4 DEF FramesInv

Joined(a, b) == a \o b

\* What is appended to two sequences is appended to the second.
LEMMA AppendToSecond ==
  ASSUME NEW S, NEW a \in Seq(S), NEW b \in Seq(S), NEW x \in S
  PROVE  Append(Joined(a, b), x) = Joined(a, Append(b, x))
<1>1. <<x>> \in Seq(S) /\ Append(b, x) = b \o <<x>>
  OBVIOUS
<1>2. a \o b \in Seq(S) /\ Append(a \o b, x) = (a \o b) \o <<x>>
  BY ConcatProperties
<1> QED
  BY <1>1, <1>2, ConcatAssociative DEF Joined

\* What is queued goes to the history too, in the same place.
LEMMA QueueEffect ==
  ASSUME C!CanAssumption, C!TypeOK, StoryInv, NEW length \in 0 .. 8, NEW to \in SUBSET Sockets,
         C!Queue(length, to), \A s \in Sockets : InHand(s) \in Seq(C!Frames)
  PROVE  /\ rx' \in [Sockets -> Seq(C!Frames)] /\ accepted' \in [Sockets -> Seq(C!Frames)] /\ frames' \in 0 .. MaxFrames
         /\ \A s \in Sockets : accepted'[s] = got[s] \o InHand(s) \o rx'[s]
<1> DEFINE frame == C!Frame(frames + 1, length)
<1>1. frame \in C!Frames /\ frames' \in 0 .. MaxFrames
  BY DEF C!Queue, C!TypeOK, C!CanAssumption, C!Frame, C!Frames
<1>2. ASSUME NEW s \in Sockets
      PROVE  \/ rx'[s] = Append(rx[s], frame) /\ accepted'[s] = Append(accepted[s], frame)
             \/ rx'[s] = rx[s] /\ accepted'[s] = accepted[s]
  BY DEF C!Queue
<1>3. DOMAIN rx' = Sockets /\ DOMAIN accepted' = Sockets /\ rx' = [s \in Sockets |-> rx'[s]]
      /\ accepted' = [s \in Sockets |-> accepted'[s]]
  BY DEF C!Queue
<1> HIDE DEF frame
<1>4. ASSUME NEW s \in Sockets
      PROVE  /\ rx'[s] \in Seq(C!Frames) /\ accepted'[s] \in Seq(C!Frames)
             /\ accepted'[s] = got[s] \o InHand(s) \o rx'[s]
  <2>1. /\ rx[s] \in Seq(C!Frames) /\ accepted[s] \in Seq(C!Frames) /\ got[s] \in Seq(C!Frames)
        /\ InHand(s) \in Seq(C!Frames)
        /\ accepted[s] = got[s] \o InHand(s) \o rx[s]
    BY DEF C!TypeOK, StoryInv
  <2>2. got[s] \o InHand(s) \in Seq(C!Frames)
    BY <2>1
  <2>3. \A q : Joined(got[s] \o InHand(s), q) = got[s] \o InHand(s) \o q
    BY DEF Joined
  <2>4. Append(accepted[s], frame) = Joined(got[s] \o InHand(s), Append(rx[s], frame))
    <3> DEFINE before == got[s] \o InHand(s)
    <3>1. accepted[s] = Joined(before, rx[s])
      BY <2>1, <2>3
    <3>2. before \in Seq(C!Frames)
      BY <2>2
    <3> HIDE DEF before
    <3>3. Append(Joined(before, rx[s]), frame) = Joined(before, Append(rx[s], frame))
      <4>1. frame \in C!Frames /\ rx[s] \in Seq(C!Frames)
        BY <1>1, <2>1
      <4>2. \A a \in Seq(C!Frames), b \in Seq(C!Frames), x \in C!Frames : Append(Joined(a, b), x) = Joined(a, Append(b, x))
        BY AppendToSecond
      <4> QED
        BY <3>2, <4>1, <4>2
    <3>4. Append(accepted[s], frame) = Joined(before, Append(rx[s], frame))
      BY <3>1, <3>3
    <3> QED
      BY <3>4 DEF before
  <2>5. Append(rx[s], frame) \in Seq(C!Frames) /\ Append(accepted[s], frame) \in Seq(C!Frames)
    BY <1>1, <2>1
  <2> QED
    BY <1>2, <2>1, <2>3, <2>4, <2>5
<1> QED
  BY <1>1, <1>3, <1>4

\* What a thread holds is what it held, where neither its call nor its frame changes.
LEMMA HoldsSame ==
  ASSUME NEW s, \A t \in Threads : (canCall'[t].sock = s /\ result'[t] \in C!Frames) <=> (canCall[t].sock = s /\ result[t] \in C!Frames),
         \A t \in C!Holding(s) : result'[t] = result[t]
  PROVE  InHand(s)' = InHand(s)
<1>1. C!Holding(s)' = C!Holding(s)
  BY DEF C!Holding
<1>2. C!Holding(s) # {} => (CHOOSE t \in C!Holding(s) : TRUE) \in C!Holding(s)
  OBVIOUS
<1> QED
  BY <1>1, <1>2 DEF InHand

\* Nothing moves where neither calls nor frames change.
LEMMA HoldsUnchanged ==
  ASSUME UNCHANGED <<canCall, result>>, NEW s
  PROVE  InHand(s)' = InHand(s)
<1>1. \A t \in Threads : (canCall'[t].sock = s /\ result'[t] \in C!Frames) <=> (canCall[t].sock = s /\ result[t] \in C!Frames)
  OBVIOUS
<1>2. \A t \in C!Holding(s) : result'[t] = result[t]
  OBVIOUS
<1> QED
  BY <1>1, <1>2, HoldsSame

\* A call that begins holds nothing, and reads a socket nobody reads.
LEMMA EnterKeeps ==
  ASSUME C!CanAssumption, C!OneReader, FramesInv, NEW t \in Threads, NEW c \in CanCalls, C!Enter(t, c)
  PROVE  FramesInv'
<1> USE DEF FramesInv
<1>0. c \in C!Call /\ c.op \in {"read", "send"}
  BY NumberFacts
<1>1. /\ canPc' = [canPc EXCEPT ![t] = IF c.op = "read" THEN "select" ELSE "start"]
      /\ canCall' = [canCall EXCEPT ![t] = c]
      /\ UNCHANGED <<rx, error, frames, result, canRet, accepted, got>>
      /\ canPc[t] = "idle" /\ \A u \in Threads : canPc[u] # "idle" => CanMayOverlap(c, canCall[u]) /\ CanMayOverlap(canCall[u], c)
  BY DEF C!Enter, C!Goto, C!kernel
<1>2. result[t] \notin C!Frames
  BY <1>1 DEF PlaceInv
<1>3. C!TypeOK'
  BY <1>0, <1>1 DEF C!TypeOK, PlaceInv
<1>4. PlaceInv'
  BY <1>0, <1>1, <1>2, <1>3, NumberFacts DEF PlaceInv, C!TypeOK
<1>5. \A u \in Threads : canPc[u] # "idle" /\ c.op = "read" /\ canCall[u].op = "read" => c.sock # canCall[u].sock
  BY <1>1 DEF PlaceInv, C!OneReader
<1>6. \A u \in Threads : canCall[u].op = "read" => canPc[u] # "idle"
  BY NumberFacts DEF PlaceInv
<1>7. AloneInv'
  BY <1>1, <1>5, <1>6 DEF AloneInv, PlaceInv, C!TypeOK
<1>8. ASSUME NEW s \in Sockets PROVE InHand(s)' = InHand(s)
  BY <1>1, <1>2, HoldsSame DEF PlaceInv, C!TypeOK
<1>9. StoryInv'
  BY <1>1, <1>8 DEF StoryInv
<1> QED
  BY <1>4, <1>7, <1>9

\* A thread that goes on without a frame.
LEMMA NoFrameKeeps ==
  ASSUME C!CanAssumption, FramesInv, NEW t \in Threads, NEW place \in {"read", "return"},
         canPc[t] # "idle", canPc' = [canPc EXCEPT ![t] = place], place = "read" => canCall[t].op = "read",
         result[t] \notin C!Frames, result' = result \/ \E f \in {C!Null} \cup C!Uninitialised : result' = [result EXCEPT ![t] = f],
         UNCHANGED <<rx, frames, canCall, canRet, accepted, got>>, error' \in [Sockets -> BOOLEAN]
  PROVE  FramesInv'
<1> USE DEF FramesInv
<1>1. /\ result' \in [Threads -> C!Frames \cup {C!Null} \cup C!Uninitialised] /\ result'[t] \notin C!Frames
      /\ \A u \in Threads \ {t} : result'[u] = result[u]
  <2>1. result \in [Threads -> C!Frames \cup {C!Null} \cup C!Uninitialised]
    BY DEF PlaceInv, C!TypeOK
  <2>2. CASE result' = result
    BY <2>1, <2>2
  <2>3. ASSUME NEW f \in {C!Null} \cup C!Uninitialised, result' = [result EXCEPT ![t] = f] 
        PROVE  /\ result' \in [Threads -> C!Frames \cup {C!Null} \cup C!Uninitialised] /\ result'[t] \notin C!Frames
               /\ \A u \in Threads \ {t} : result'[u] = result[u]
    <3>1. f \notin C!Frames
      BY NumberFacts
    <3> QED
      BY <2>1, <2>3, <3>1
  <2> QED
    BY <2>2, <2>3
<1>2. C!TypeOK'
  BY <1>1 DEF C!TypeOK, PlaceInv
<1>3. PlaceInv'
  BY <1>1, <1>2 DEF PlaceInv, C!TypeOK
<1>4. AloneInv'
  BY DEF AloneInv
<1>5. ASSUME NEW s \in Sockets PROVE InHand(s)' = InHand(s)
  <2>1. \A u \in Threads : (canCall'[u].sock = s /\ result'[u] \in C!Frames) <=> (canCall[u].sock = s /\ result[u] \in C!Frames)
    BY <1>1
  <2>2. \A u \in C!Holding(s) : result'[u] = result[u]
    BY <1>1 DEF C!Holding
  <2> QED
    BY <2>1, <2>2, HoldsSame
<1>6. StoryInv'
  BY <1>5 DEF StoryInv
<1> QED
  BY <1>3, <1>4, <1>6

\* The select, however it ends.
LEMMA SelectKeeps ==
  ASSUME C!CanAssumption, FramesInv, NEW t \in Threads, C!SelectReady(t) \/ C!SelectTimeout(t)
  PROVE  FramesInv'
<1>1. canPc[t] = "select" /\ canCall[t].op = "read" /\ result[t] \notin C!Frames /\ error \in [Sockets -> BOOLEAN]
  BY DEF C!SelectReady, C!SelectTimeout, FramesInv, PlaceInv, C!TypeOK
<1>2. CASE C!SelectReady(t)
  BY <1>1, <1>2, NoFrameKeeps DEF C!SelectReady, C!Goto, C!kernel, C!locals
<1>3. CASE C!SelectTimeout(t)
  BY <1>1, <1>3, NoFrameKeeps DEF C!SelectTimeout, C!Goto, C!Hand, C!kernel
<1> QED
  BY <1>2, <1>3

\* One after the other.
Story(g, h, r) == g \o h \o r

\* What is taken off a queue may stand before the rest.
LEMMA MovesToHand ==
  ASSUME NEW S, NEW g \in Seq(S), NEW x \in S, NEW r \in Seq(S)
  PROVE  Story(g, << >>, <<x>> \o r) = Story(g, <<x>>, r)
<1>1. g \o << >> = g
  BY ConcatEmptySeq
<1>2. <<x>> \in Seq(S)
  OBVIOUS
<1>3. g \o (<<x>> \o r) = g \o <<x>> \o r
  BY <1>2
<1> QED
  BY <1>1, <1>3 DEF Story

\* And what was in a hand at the end of what Java has.
LEMMA MovesToJava ==
  ASSUME NEW S, NEW g \in Seq(S), NEW x \in S, NEW r \in Seq(S)
  PROVE  Story(g, <<x>>, r) = Story(Append(g, x), << >>, r)
<1>1. Append(g, x) \in Seq(S) /\ g \o <<x>> = Append(g, x)
  OBVIOUS
<1>2. Append(g, x) \o << >> = Append(g, x)
  BY <1>1, ConcatEmptySeq
<1> QED
  BY <1>1, <1>2 DEF Story

\* The frame that is read goes from the queue to the hand of its one reader.
LEMMA ReadKeeps ==
  ASSUME C!CanAssumption, FramesInv, NEW t \in Threads, C!Read(t)
  PROVE  FramesInv'
<1> DEFINE s == canCall[t].sock
<1>1. /\ canPc[t] = "read" /\ canCall[t].op = "read" /\ result[t] \notin C!Frames /\ canCall[t] \in C!Call /\ s \in Sockets
      /\ UNCHANGED <<frames, canCall, canRet, accepted, got>>
  BY NumberFacts DEF C!Read, FramesInv, PlaceInv, C!TypeOK
<1>2. CASE error[s]
  <2>1. /\ \E f \in C!Uninitialised : canPc' = [canPc EXCEPT ![t] = "return"] /\ result' = [result EXCEPT ![t] = f]
        /\ error' = [error EXCEPT ![s] = FALSE] /\ UNCHANGED rx
    BY <1>2 DEF C!Read, C!Hand, C!Goto
  <2>2. error' \in [Sockets -> BOOLEAN]
    BY <2>1 DEF FramesInv, PlaceInv, C!TypeOK
  <2> QED
    BY <1>1, <2>1, <2>2, NoFrameKeeps
<1>3. CASE ~error[s]
  <2> DEFINE f == Head(rx[s])
             rest == Tail(rx[s])
  <2>1. /\ canPc' = [canPc EXCEPT ![t] = "return"] /\ result' = [result EXCEPT ![t] = f]
        /\ rx' = [rx EXCEPT ![s] = rest] /\ rx[s] # << >> /\ UNCHANGED error
    BY <1>3 DEF C!Read, C!Hand, C!Goto
  <2>2. rx[s] \in Seq(C!Frames)
    BY <1>1 DEF FramesInv, PlaceInv, C!TypeOK
  <2>3. f \in C!Frames /\ rest \in Seq(C!Frames) /\ rx[s] = <<f>> \o rest
    BY <2>1, <2>2
  <2> HIDE DEF f, rest, s
  <2>4. C!TypeOK'
    BY <1>1, <2>1, <2>3 DEF C!TypeOK, FramesInv, PlaceInv
  <2>5. /\ PlaceInv' /\ AloneInv'
        /\ \A u \in Threads \ {t} : result'[u] = result[u]
        /\ result'[t] = f
    BY <1>1, <2>1, <2>3, <2>4 DEF FramesInv, PlaceInv, AloneInv, C!TypeOK
  <2>6. \A u \in Threads \ {t} : canCall[u].sock = s => result[u] \notin C!Frames
    BY <1>1 DEF FramesInv, PlaceInv, AloneInv, s
  <2>7. ASSUME NEW q \in Sockets PROVE accepted'[q] = Story(got'[q], InHand(q)', rx'[q])
    <3>1. CASE q = s
      <4>1. C!Holding(q) = {} /\ C!Holding(q)' = {t}
        BY <1>1, <2>3, <2>5, <2>6, <3>1 DEF C!Holding, s
      <4>2. InHand(q) = << >>
        BY <4>1, HoldsNone
      <4>3. InHand(q)' = <<f>>
        <5>1. (CHOOSE u \in C!Holding(q)' : TRUE) = t
          BY <4>1
        <5> QED
          BY <2>5, <4>1, <5>1 DEF InHand
      <4>4. accepted[q] = Story(got[q], << >>, rx[q]) /\ got[q] \in Seq(C!Frames) /\ rx'[q] = rest
        BY <1>1, <2>1, <3>1, <4>2 DEF FramesInv, PlaceInv, StoryInv, C!TypeOK, Story
      <4>5. Story(got[q], << >>, rx[q]) = Story(got[q], <<f>>, rest)
        <5>1. Story(got[q], << >>, rx[q]) = Story(got[q], << >>, <<f>> \o rest)
          BY <2>3, <3>1
        <5>2. Story(got[q], << >>, <<f>> \o rest) = Story(got[q], <<f>>, rest)
          BY <2>3, <4>4, MovesToHand
        <5> QED
          BY <5>1, <5>2
      <4>6. accepted'[q] = accepted[q] /\ got'[q] = got[q]
        BY <1>1
      <4>7. accepted'[q] = Story(got'[q], InHand(q)', rx'[q])
        BY <4>3, <4>4, <4>5, <4>6
      <4> QED
        BY <3>1, <4>7
    <3>2. CASE q # s
      <4>1. \A u \in Threads : (canCall'[u].sock = q /\ result'[u] \in C!Frames) <=> (canCall[u].sock = q /\ result[u] \in C!Frames)
        BY <1>1, <2>5, <3>2 DEF s
      <4>2. \A u \in C!Holding(q) : result'[u] = result[u]
        BY <1>1, <2>5, <3>2 DEF C!Holding, s
      <4>3. InHand(q)' = InHand(q)
        BY <4>1, <4>2, HoldsSame
      <4>4. rx'[q] = rx[q]
        BY <2>1, <3>2 DEF FramesInv, PlaceInv, C!TypeOK
      <4> QED
        BY <1>1, <4>3, <4>4 DEF FramesInv, StoryInv, Story
    <3> QED
      BY <3>1, <3>2
  <2> QED
    BY <2>5, <2>7 DEF FramesInv, StoryInv, Story
<1> QED
  BY <1>2, <1>3

\* A frame is sent, or received.
LEMMA QueueKeeps ==
  ASSUME C!CanAssumption, FramesInv, NEW length \in 0 .. 8, NEW to \in SUBSET Sockets, C!Queue(length, to),
         UNCHANGED <<error, canCall, result, got>>, canRet' \in [Threads -> {-1, 0, C!FrameSize}],
         canPc' = canPc \/ \E t \in Threads : canPc[t] # "idle" /\ canPc' = [canPc EXCEPT ![t] = "return"]
  PROVE  FramesInv'
<1>1. \A s \in Sockets : InHand(s) \in Seq(C!Frames) /\ InHand(s)' = InHand(s)
  BY HoldsFacts, HoldsUnchanged DEF FramesInv
<1>2. /\ rx' \in [Sockets -> Seq(C!Frames)] /\ accepted' \in [Sockets -> Seq(C!Frames)] /\ frames' \in 0 .. MaxFrames
      /\ \A s \in Sockets : accepted'[s] = got[s] \o InHand(s) \o rx'[s]
  BY <1>1, QueueEffect DEF FramesInv, PlaceInv
<1>3. C!TypeOK'
  BY <1>2 DEF FramesInv, PlaceInv, C!TypeOK
<1>4. PlaceInv' /\ AloneInv'
  BY <1>3 DEF FramesInv, PlaceInv, AloneInv, C!TypeOK
<1>5. StoryInv'
  BY <1>1, <1>2 DEF StoryInv
<1> QED
  BY <1>4, <1>5 DEF FramesInv

\* canSendBytes, refused or not.
LEMMA SendKeeps ==
  ASSUME C!CanAssumption, FramesInv, NEW t \in Threads, C!Send(t)
  PROVE  FramesInv'
<1>1. /\ canPc[t] = "start" /\ canPc' = [canPc EXCEPT ![t] = "return"] /\ UNCHANGED <<canCall, result, got>>
      /\ canCall[t] \in C!Call
  BY NumberFacts DEF C!Send, C!Goto, FramesInv, PlaceInv
<1>2. CASE /\ C!Queue(canCall[t].length, Sockets \ {canCall[t].sock}) /\ canRet' = [canRet EXCEPT ![t] = C!FrameSize]
           /\ UNCHANGED error
  <2>1. canCall[t].length \in 0 .. 8 /\ canRet' \in [Threads -> {-1, 0, C!FrameSize}]
    BY <1>1, <1>2 DEF C!Call, FramesInv, PlaceInv, C!TypeOK
  <2>2. \E u \in Threads : canPc[u] # "idle" /\ canPc' = [canPc EXCEPT ![u] = "return"]
    BY <1>1
  <2> DEFINE length == canCall[t].length
             to == Sockets \ {canCall[t].sock}
  <2>3. to \in SUBSET Sockets /\ length \in 0 .. 8 /\ C!Queue(length, to)
    BY <1>2, <2>1
  <2>4. UNCHANGED error
    BY <1>2
  <2> HIDE DEF length, to
  <2> QED
    BY <1>1, <2>1, <2>2, <2>3, <2>4, QueueKeeps
<1>3. CASE /\ canRet' = [canRet EXCEPT ![t] = -1] /\ UNCHANGED <<rx, frames, accepted>>
           /\ UNCHANGED error \/ error' = [error EXCEPT ![canCall[t].sock] = FALSE]
  <2>0. error' \in [Sockets -> BOOLEAN]
    BY <1>3 DEF FramesInv, PlaceInv, C!TypeOK
  <2>1. C!TypeOK'
    BY <1>1, <1>3, <2>0 DEF FramesInv, PlaceInv, C!TypeOK
  <2>2. PlaceInv' /\ AloneInv'
    BY <1>1, <2>1 DEF FramesInv, PlaceInv, AloneInv, C!TypeOK
  <2>3. StoryInv'
    BY <1>1, <1>3, HoldsUnchanged DEF FramesInv, StoryInv
  <2> QED
    BY <2>2, <2>3 DEF FramesInv
<1> QED
  BY <1>2, <1>3 DEF C!Send

\* The binding hands Java the frame.
LEMMA LeaveKeeps ==
  ASSUME C!CanAssumption, FramesInv, NEW t \in Threads, C!Leave(t)
  PROVE  FramesInv'
<1> DEFINE s == canCall[t].sock
<1>1. /\ canPc[t] = "return" /\ canPc' = [canPc EXCEPT ![t] = "idle"] /\ canCall' = [canCall EXCEPT ![t] = C!NoCall]
      /\ result' = [result EXCEPT ![t] = C!Null] /\ canRet' = [canRet EXCEPT ![t] = 0]
      /\ UNCHANGED <<rx, error, frames, accepted>> /\ canCall[t] \in C!Call /\ s \in Sockets
  BY NumberFacts DEF C!Leave, C!Goto, C!kernel, FramesInv, PlaceInv
<1>2. got' = IF result[t] \in C!Frames THEN [got EXCEPT ![s] = Append(got[s], result[t])] ELSE got
  BY DEF C!Leave
<1>3. got' \in [Sockets -> Seq(C!Frames)]
  BY <1>1, <1>2 DEF FramesInv, PlaceInv, C!TypeOK
<1>4. C!TypeOK'
  BY <1>1, <1>3 DEF FramesInv, PlaceInv, C!TypeOK
<1>5. /\ PlaceInv' /\ AloneInv' /\ result'[t] \notin C!Frames
      /\ \A u \in Threads \ {t} : result'[u] = result[u] /\ canCall'[u] = canCall[u]
  BY <1>1, <1>4, NumberFacts DEF FramesInv, PlaceInv, AloneInv, C!TypeOK
<1> HIDE DEF s
<1>6. ASSUME NEW q \in Sockets PROVE accepted'[q] = Story(got'[q], InHand(q)', rx'[q])
  <2>1. accepted[q] = Story(got[q], InHand(q), rx[q]) /\ got[q] \in Seq(C!Frames) /\ rx[q] \in Seq(C!Frames)
    BY DEF FramesInv, PlaceInv, C!TypeOK, StoryInv, Story
  <2>2. CASE result[t] \in C!Frames /\ q = s
    <3>1. \A u \in Threads \ {t} : canCall[u].sock = s => result[u] \notin C!Frames
      BY <2>2 DEF FramesInv, PlaceInv, AloneInv, s
    <3>2. C!Holding(q) = {t} /\ C!Holding(q)' = {}
      BY <1>5, <2>2, <3>1 DEF C!Holding, s
    <3>3. InHand(q) = <<result[t]>>
      BY <3>2, HoldsOne
    <3>4. InHand(q)' = << >>
      BY <3>2 DEF InHand
    <3>5. got'[q] = Append(got[q], result[t])
      BY <1>2, <2>2 DEF FramesInv, PlaceInv, C!TypeOK
    <3>6. Story(got[q], <<result[t]>>, rx[q]) = Story(Append(got[q], result[t]), << >>, rx[q])
      BY <2>1, <2>2, MovesToJava
    <3> QED
      BY <1>1, <2>1, <3>3, <3>4, <3>5, <3>6
  <2>3. CASE ~(result[t] \in C!Frames /\ q = s)
    <3>1. got'[q] = got[q]
      BY <1>2, <2>3 DEF FramesInv, PlaceInv, C!TypeOK
    <3>2. \A u \in Threads : (canCall'[u].sock = q /\ result'[u] \in C!Frames) <=> (canCall[u].sock = q /\ result[u] \in C!Frames)
      BY <1>5, <2>3 DEF s
    <3>3. \A u \in C!Holding(q) : result'[u] = result[u]
      BY <1>5, <2>3 DEF C!Holding, s
    <3>4. InHand(q)' = InHand(q)
      BY <3>2, <3>3, HoldsSame
    <3> QED
      BY <1>1, <2>1, <3>1, <3>4
  <2> QED
    BY <2>2, <2>3
<1> QED
  BY <1>5, <1>6 DEF FramesInv, StoryInv, Story

\* All steps.
LEMMA CanNext ==
  C!CanAssumption /\ C!OneReader /\ FramesInv /\ [C!Next]_C!vars => FramesInv'
<1> SUFFICES ASSUME C!CanAssumption, C!OneReader, FramesInv, [C!Next]_C!vars PROVE FramesInv'
  OBVIOUS
<1>1. ASSUME NEW t \in Threads, NEW c \in CanCalls, C!Enter(t, c) PROVE FramesInv'
  BY <1>1, EnterKeeps
<1>2. ASSUME NEW t \in Threads, C!SelectReady(t) \/ C!SelectTimeout(t) PROVE FramesInv'
  BY <1>2, SelectKeeps
<1>3. ASSUME NEW t \in Threads, C!Read(t) PROVE FramesInv'
  BY <1>3, ReadKeeps
<1>4. ASSUME NEW t \in Threads, C!Send(t) PROVE FramesInv'
  BY <1>4, SendKeeps
<1>5. ASSUME NEW t \in Threads, C!Leave(t) PROVE FramesInv'
  BY <1>5, LeaveKeeps
<1>6. CASE C!Receive
  <2>1. PICK length \in Lengths : C!Queue(length, Sockets)
    BY <1>6 DEF C!Receive
  <2>2. length \in 0 .. 8 /\ UNCHANGED <<error, canCall, result, got, canRet, canPc>> /\ canRet' \in [Threads -> {-1, 0, C!FrameSize}]
    BY <1>6 DEF C!Receive, C!locals, C!CanAssumption, FramesInv, PlaceInv, C!TypeOK
  <2>3. Sockets \in SUBSET Sockets
    OBVIOUS
  <2> QED
    BY <2>1, <2>2, <2>3, QueueKeeps
<1>7. CASE C!GoDown \/ UNCHANGED C!vars
  <2>1. UNCHANGED <<rx, frames, canPc, canCall, result, canRet, accepted, got>> /\ error' \in [Sockets -> BOOLEAN]
    BY <1>7 DEF C!GoDown, C!vars, C!kernel, C!locals, FramesInv, PlaceInv, C!TypeOK
  <2>2. C!TypeOK' /\ PlaceInv' /\ AloneInv'
    BY <2>1 DEF FramesInv, PlaceInv, AloneInv, C!TypeOK
  <2>3. StoryInv'
    BY <2>1, HoldsUnchanged DEF FramesInv, StoryInv
  <2> QED
    BY <2>2, <2>3 DEF FramesInv
<1> QED
  BY <1>1, <1>2, <1>3, <1>4, <1>5, <1>6, <1>7 DEF C!Next, C!Proceed

\* Java gets the frames of a socket in their order, each once and none left out,
\* when one thread at a time reads it (can.c:103-121).
THEOREM NothingLostOrReorderedHolds ==
  ASSUME C!CanAssumption, C!OneReader
  PROVE  C!Spec => []C!NothingLostOrReordered
<1>1. FramesInv => C!NothingLostOrReordered
  <2> SUFFICES ASSUME FramesInv, NEW s \in Sockets
               PROVE  /\ C!Holding(s) = {} => accepted[s] = got[s] \o rx[s]
                      /\ \A t \in C!Holding(s) : accepted[s] = got[s] \o <<result[t]>> \o rx[s]
    BY DEF C!NothingLostOrReordered
  <2>1. accepted[s] = got[s] \o InHand(s) \o rx[s] /\ got[s] \in Seq(C!Frames)
    BY DEF FramesInv, StoryInv, PlaceInv, C!TypeOK
  <2>2. got[s] \o << >> = got[s]
    BY <2>1, ConcatEmptySeq
  <2>3. C!Holding(s) = {} => accepted[s] = got[s] \o rx[s]
    BY <2>1, <2>2, HoldsNone
  <2>4. ASSUME NEW t \in C!Holding(s) PROVE accepted[s] = got[s] \o <<result[t]>> \o rx[s]
    <3>1. C!Holding(s) = {t}
      BY DEF C!Holding, FramesInv, PlaceInv, AloneInv
    <3> QED
      BY <2>1, <3>1, HoldsOne
  <2> QED
    BY <2>3, <2>4
<1> QED
  BY <1>1, CanInit, CanNext, PTL DEF C!Spec
===============================================================================
