--------------------------- MODULE Handles_proofs ---------------------------
(***************************************************************************)
(* Theorems about Handles, for every table size, set of threads, of        *)
(* devices and of settings.  That a handle names its device needs of the   *)
(* application that it closes no handle that is in use, that it keeps its  *)
(* settings that no two threads open one device at once; that nothing but  *)
(* a failed open loses a descriptor needs nothing.                         *)
(***************************************************************************)
EXTENDS Handles, TLAPS

Opening == {"open", "spi", "uart", "can", "bind"}

\* Where a thread is says what its call is and whether it has a file yet.
PlaceInv ==
  \A t \in Threads :
    /\ pc[t] = "idle" => call[t] = NoCall
    /\ pc[t] # "idle" => call[t] \in Call
    /\ pc[t] \in Opening => call[t].op = "open"
    /\ pc[t] \in {"use", "close"} => call[t].op = pc[t]
    /\ pc[t] \in {"spi", "uart"} => Kind(t) = pc[t]
    /\ pc[t] \in {"can", "bind"} => Kind(t) = "can"
    /\ pc[t] \in {"idle", "open", "use", "close"} => fd[t] = -1
    /\ pc[t] \in {"idle", "open"} => step[t] = 1
    /\ pc[t] \in {"spi", "uart", "bind"} => fd[t] # -1
    /\ pc[t] = "return" /\ call[t].op = "open" => ret[t] \in {fd[t], -1}
    /\ pc[t] = "return" /\ call[t].op # "open" => fd[t] = -1

\* An open that has failed has given up the file it had.
AbandonInv ==
  \A t \in Threads : pc[t] = "return" /\ ret[t] = -1 /\ fd[t] # -1 => fd[t] \in abandoned

\* What a call in progress has to itself: the file it will give to Java, the one it
\* closes.
Mine(t) ==
  {f \in Fd : \/ f = fd[t] /\ (pc[t] = "return" => ret[t] # -1)
              \/ f = call[t].fd /\ pc[t] = "close"}

\* Every descriptor that Java or a call has names its device, and has one holder.
HolderInv ==
  /\ \A h \in handles : Names(h.fd, h.dev)
  /\ \A g \in handles, h \in handles : g.fd = h.fd => g = h
  /\ \A t \in Threads : \A f \in Mine(t) : Names(f, Dev(t))
  /\ \A t \in Threads : \A h \in handles : h.fd \notin Mine(t)
  /\ \A t \in Threads, u \in Threads : t # u => Mine(t) \cap Mine(u) = {}

\* Java has the handle that is in use.
UseInv == \A t \in Threads : pc[t] = "use" => \E h \in handles : h.fd = call[t].fd /\ h.dev = Dev(t)

\* A device is opened by one thread, which makes one setting after the other.
AloneInv ==
  \A t \in Threads, u \in Threads :
    t # u /\ call[t].op = "open" /\ call[u].op = "open" => Dev(t) # Dev(u)
SetInv ==
  \A t \in Threads :
    /\ pc[t] = "spi" => \A i \in 1 .. 3 : i < step[t] => conf[Dev(t)][i] = call[t].settings
    /\ pc[t] = "return" /\ call[t].op = "open" /\ ret[t] # -1 /\ Kind(t) \in {"spi", "uart"} =>
         \A i \in 1 .. 3 : conf[Dev(t)][i] = call[t].settings
CurrentInv == \A h \in current : \A t \in Threads : call[t].op = "open" => h.dev # Dev(t)

Inv == TypeOK /\ PlaceInv
NameInv == Inv /\ HolderInv /\ UseInv
ConfInv == Inv /\ AloneInv /\ SetInv /\ CurrentInv /\ ConfiguredAsAsked

-----------------------------------------------------------------------------
\* What the sets of calls and files consist of.
LEMMA CallFacts ==
  ASSUME HandlesAssumption
  PROVE  /\ NoCall.op = "none" /\ NoCall.fd = -1
         /\ \A c \in Opens : /\ c \in Call /\ c.op = "open" /\ c.fd = -1
                             /\ c.dev \in Devices /\ c.settings \in Settings
         /\ \A h \in Handle : h.fd \in Fd /\ h.dev \in Devices /\ h.settings \in Settings
         /\ \A op \in {"use", "close"}, h \in Handle :
              /\ OnHandle(op, h) \in Call /\ OnHandle(op, h).op = op
              /\ OnHandle(op, h).fd = h.fd /\ OnHandle(op, h).dev = h.dev
         /\ \A c \in Call : /\ c.op \in {"open", "use", "close"} /\ c.dev \in Devices
                            /\ c.settings \in Settings
                            /\ c.op = "open" => c.fd = -1
                            /\ c.op # "open" => c.fd \in Fd
         /\ \A d \in Devices : d[1] \in Kinds /\ d[2] \in Nat
         /\ NoCall \notin Call
<1>1. \A d \in Devices : d[1] \in Kinds /\ d[2] \in Nat
  BY DEF HandlesAssumption
<1>2. \A h \in Handle : h.fd \in Fd /\ h.dev \in Devices /\ h.settings \in Settings
  BY DEF Handle
<1>3. \A c \in Opens : c.op = "open" /\ c.fd = -1 /\ c.dev \in Devices /\ c.settings \in Settings
  BY DEF Opens
<1>4. \A op, h : /\ OnHandle(op, h).op = op /\ OnHandle(op, h).fd = h.fd
                /\ OnHandle(op, h).dev = h.dev /\ OnHandle(op, h).settings = h.settings
  BY DEF OnHandle
<1>5. ASSUME NEW c \in Call
      PROVE  /\ c.op \in {"open", "use", "close"} /\ c.dev \in Devices /\ c.settings \in Settings
             /\ c.op = "open" => c.fd = -1
             /\ c.op # "open" => c.fd \in Fd
  <2>1. CASE c \in Opens
    BY <2>1, <1>3
  <2>2. CASE \E op \in {"use", "close"}, h \in Handle : c = OnHandle(op, h)
    BY <2>2, <1>2, <1>4
  <2> QED
    BY <2>1, <2>2 DEF Call
<1>6. NoCall.op = "none" /\ NoCall.fd = -1
  BY DEF NoCall
<1>7. \A op \in {"use", "close"}, h \in Handle : OnHandle(op, h) \in Call
  BY DEF Call
<1>8. \A c \in Opens : c \in Call
  BY DEF Call
<1> QED
  BY <1>1, <1>2, <1>3, <1>4, <1>5, <1>6, <1>7, <1>8

\* Descriptors are numbers that are not -1, and a file is of the kind it was made.
LEMMA FdFacts ==
  /\ \A f \in Fd : f \in Int /\ f # -1 /\ f >= 0
  /\ 0 \in Fd
  /\ \A k, i, o : /\ File(k, i, o).kind = k /\ File(k, i, o).id = i /\ File(k, i, o).owner = o
                  /\ File(k, i, o) = [kind |-> k, id |-> i, owner |-> o]
  /\ Free.kind = "free"
  /\ "free" \notin Kinds /\ "other" \notin Kinds
BY FdAssumption DEF Fd, File, Free, Kinds

\* A step is a call, a step of a thread, or one of the rest of the process.
LEMMA Steps ==
  ASSUME [Next]_vars
  PROVE  \/ \E t \in Threads, c \in Opens : Enter(t, c)
         \/ \E t \in Threads, h \in handles, op \in {"use", "close"} : Enter(t, OnHandle(op, h))
         \/ \E t \in Threads : Proceed(t)
         \/ OtherOpen \/ OtherClose \/ UNCHANGED vars
BY DEF Next, EnterAny

-----------------------------------------------------------------------------
\* The first state is one of the invariant.
LEMMA InvInit == HandlesAssumption /\ Init => Inv
<1> SUFFICES ASSUME HandlesAssumption, Init PROVE Inv
  OBVIOUS
<1>1. TypeOK
  <2>1. fds \in [Fd -> [kind : {"free", "other"} \cup Kinds, id : Nat, owner : Owners \cup {NoOwner}]]
    BY DEF Init, File, Free
  <2>2. 0 \in Fd
    BY FdFacts
  <2> QED
    BY <2>1, <2>2 DEF Init, TypeOK
<1>2. PlaceInv
  BY DEF Init, PlaceInv, Opening
<1> QED
  BY <1>1, <1>2 DEF Inv

\* The types of calls, files and locals are kept by every step.
LEMMA TypeNext ==
  ASSUME HandlesAssumption, Inv, [Next]_vars
  PROVE  TypeOK'
<1> USE DEF Inv
<1>f. \A f \in Fd, k \in {"other"} \cup Kinds, i \in Nat, o \in Owners \cup {NoOwner} :
        [fds EXCEPT ![f] = File(k, i, o)]
          \in [Fd -> [kind : {"free", "other"} \cup Kinds, id : Nat, owner : Owners \cup {NoOwner}]]
  BY FdFacts DEF TypeOK
<1>g. \A f : Closed(fds, f)
          \in [Fd -> [kind : {"free", "other"} \cup Kinds, id : Nat, owner : Owners \cup {NoOwner}]]
  BY FdFacts DEF TypeOK, Closed, Free
<1>1. ASSUME NEW t \in Threads, NEW c \in Opens, Enter(t, c) PROVE TypeOK'
  BY <1>1, CallFacts DEF TypeOK, Enter, Goto
<1>2. ASSUME NEW t \in Threads, NEW h \in handles, NEW op \in {"use", "close"}, Enter(t, OnHandle(op, h))
      PROVE  TypeOK'
  <2>1. h \in Handle
    BY DEF TypeOK
  <2> QED
    BY <1>2, <2>1, CallFacts DEF TypeOK, Enter, Goto
<1>3. ASSUME NEW t \in Threads, OpenDevice(t) PROVE TypeOK'
  <2>1. call[t] \in Call /\ Kind(t) \in Kinds /\ Dev(t)[2] \in Nat /\ t \in Owners
    BY <1>3, CallFacts DEF OpenDevice, PlaceInv, Kind, Dev, HandlesAssumption
  <2>2. fds' \in [Fd -> [kind : {"free", "other"} \cup Kinds, id : Nat, owner : Owners \cup {NoOwner}]]
    <3>1. CASE fds' = fds
      BY <3>1 DEF TypeOK
    <3>2. CASE \E f \in Fd : fds' = [fds EXCEPT ![f] = File(Kind(t), Dev(t)[2], t)]
      <4>1. PICK f \in Fd : fds' = [fds EXCEPT ![f] = File(Kind(t), Dev(t)[2], t)]
        BY <3>2
      <4>2. File(Kind(t), Dev(t)[2], t)
              \in [kind : {"free", "other"} \cup Kinds, id : Nat, owner : Owners \cup {NoOwner}]
        BY <2>1, FdFacts
      <4> QED
        BY <4>1, <4>2 DEF TypeOK
    <3>3. fds' = fds \/ \E f \in Fd : fds' = [fds EXCEPT ![f] = File(Kind(t), Dev(t)[2], t)]
      BY <1>3 DEF OpenDevice
    <3> QED
      BY <3>1, <3>2, <3>3
  <2>3. fd' \in [Threads -> Fd \cup {-1}] /\ ret' \in [Threads -> Fd \cup {-1}]
    BY <1>3 DEF OpenDevice, TypeOK, Answer
  <2>4. pc' \in [Threads -> {"idle", "open", "spi", "uart", "can", "bind", "use", "close", "return"}]
    BY <1>3, <2>1 DEF OpenDevice, TypeOK, Answer, Goto, Kinds
  <2> QED
    BY <1>3, <2>2, <2>3, <2>4 DEF OpenDevice, TypeOK
<1>4. ASSUME NEW t \in Threads, SpiSet(t) PROVE TypeOK'
  <2>1. call[t] \in Call /\ Dev(t) \in Devices /\ call[t].settings \in Settings
    BY <1>4, CallFacts DEF SpiSet, PlaceInv, Dev
  <2>2. conf' \in [Devices -> [1 .. 3 -> Settings \cup {0}]]
    <3>1. conf \in [Devices -> [1 .. 3 -> Settings \cup {0}]]
      BY DEF TypeOK
    <3>2. conf' = conf \/ conf' = [conf EXCEPT ![Dev(t)][step[t]] = call[t].settings]
      BY <1>4 DEF SpiSet
    <3>3. [conf[Dev(t)] EXCEPT ![step[t]] = call[t].settings] \in [1 .. 3 -> Settings \cup {0}]
      BY <2>1, <3>1
    <3> QED
      BY <2>1, <3>1, <3>2, <3>3
  <2>3. step' \in [Threads -> 1 .. 3]
    BY <1>4 DEF SpiSet, TypeOK
  <2> QED
    BY <1>4, <2>2, <2>3 DEF SpiSet, TypeOK, Answer, Goto, Abandon
<1>5. ASSUME NEW t \in Threads, UartSet(t) PROVE TypeOK'
  <2>1. call[t] \in Call /\ Dev(t) \in Devices /\ call[t].settings \in Settings
    BY <1>5, CallFacts DEF UartSet, PlaceInv, Dev
  <2>2. conf' \in [Devices -> [1 .. 3 -> Settings \cup {0}]]
    BY <1>5, <2>1 DEF UartSet, TypeOK
  <2> QED
    BY <1>5, <2>2 DEF UartSet, TypeOK, Answer, Goto, Abandon
<1>6. ASSUME NEW t \in Threads, CanLocate(t) \/ CanBind(t) \/ Use(t) PROVE TypeOK'
  BY <1>6 DEF CanLocate, CanBind, Use, TypeOK, Answer, Goto, Abandon, locals
<1>7. ASSUME NEW t \in Threads, CloseHandle(t) PROVE TypeOK'
  BY <1>7, <1>g DEF CloseHandle, TypeOK, Goto, locals
<1>8. ASSUME NEW t \in Threads, Leave(t) PROVE TypeOK'
  <2> DEFINE h == [dev |-> Dev(t), settings |-> call[t].settings, fd |-> ret[t]]
  <2>1. call[t].op = "open" /\ ret[t] # -1 => h \in Handle
    BY <1>8, CallFacts DEF Leave, PlaceInv, Dev, Handle, TypeOK
  <2>2. handles' \subseteq Handle /\ current' \subseteq Handle
    BY <1>8, <2>1 DEF Leave, TypeOK
  <2>3. 0 \in Fd
    BY FdFacts
  <2> QED
    BY <1>8, <2>2, <2>3 DEF Leave, TypeOK, Goto
<1>9. CASE OtherOpen \/ OtherClose
  <2>1. fds' \in [Fd -> [kind : {"free", "other"} \cup Kinds, id : Nat, owner : Owners \cup {NoOwner}]]
    <3>1. CASE \E f \in Fd : fds' = [fds EXCEPT ![f] = File("other", 0, NoOwner)]
      <4>1. 0 \in Nat /\ NoOwner \in Owners \cup {NoOwner} /\ "other" \in {"other"} \cup Kinds
        OBVIOUS
      <4> QED
        BY <3>1, <4>1, <1>f
    <3>2. CASE \E f \in Fd : fds' = Closed(fds, f)
      BY <3>2, <1>g
    <3> QED
      BY <1>9, <3>1, <3>2 DEF OtherOpen, OtherClose
  <2> QED
    BY <1>9, <2>1 DEF OtherOpen, OtherClose, TypeOK, locals
<1>10. CASE UNCHANGED vars
  BY <1>10 DEF vars, locals, TypeOK
<1> QED
  BY <1>1, <1>2, <1>3, <1>4, <1>5, <1>6, <1>7, <1>8, <1>9, <1>10, Steps DEF Proceed

\* What a thread is at is its own affair.
LEMMA OthersKeep ==
  ASSUME TypeOK, NEW t \in Threads,
         Proceed(t) \/ \E c : Enter(t, c),
         NEW u \in Threads, u # t
  PROVE  /\ pc'[u] = pc[u] /\ call'[u] = call[u] /\ fd'[u] = fd[u]
         /\ step'[u] = step[u] /\ ret'[u] = ret[u]
<1>1. CASE \E c : Enter(t, c)
  BY <1>1 DEF Enter, Goto, TypeOK
<1>2. CASE OpenDevice(t)
  BY <1>2 DEF OpenDevice, Answer, Goto, TypeOK
<1>3. CASE SpiSet(t) \/ UartSet(t)
  BY <1>3 DEF SpiSet, UartSet, Abandon, Answer, Goto, TypeOK
<1>4. CASE CanLocate(t) \/ CanBind(t) \/ Use(t) \/ CloseHandle(t)
  BY <1>4 DEF CanLocate, CanBind, Use, CloseHandle, Abandon, Answer, Goto, TypeOK, locals
<1>5. CASE Leave(t)
  BY <1>5 DEF Leave, Goto, TypeOK
<1> QED
  BY <1>1, <1>2, <1>3, <1>4, <1>5 DEF Proceed
\* Where threads are is kept by every step.
LEMMA PlaceNext ==
  ASSUME HandlesAssumption, Inv, [Next]_vars
  PROVE  PlaceInv'
<1> USE DEF Inv
<1> DEFINE Placed(t) ==
      /\ pc[t] = "idle" => call[t] = NoCall
      /\ pc[t] # "idle" => call[t] \in Call
      /\ pc[t] \in Opening => call[t].op = "open"
      /\ pc[t] \in {"use", "close"} => call[t].op = pc[t]
      /\ pc[t] \in {"spi", "uart"} => Kind(t) = pc[t]
      /\ pc[t] \in {"can", "bind"} => Kind(t) = "can"
      /\ pc[t] \in {"idle", "open", "use", "close"} => fd[t] = -1
      /\ pc[t] \in {"idle", "open"} => step[t] = 1
      /\ pc[t] \in {"spi", "uart", "bind"} => fd[t] # -1
      /\ pc[t] = "return" /\ call[t].op = "open" => ret[t] \in {fd[t], -1}
      /\ pc[t] = "return" /\ call[t].op # "open" => fd[t] = -1
<1>p. \A t \in Threads : Placed(t)
  BY DEF PlaceInv
<1>k. ASSUME NEW t \in Threads, pc'[t] = pc[t], call'[t] = call[t], fd'[t] = fd[t], step'[t] = step[t], ret'[t] = ret[t]
      PROVE  Placed(t)'
  BY <1>k, <1>p DEF Kind, Dev
<1>0. SUFFICES ASSUME NEW t \in Threads,
                      (\E c \in Opens : Enter(t, c))
                        \/ (\E h \in handles, op \in {"use", "close"} : Enter(t, OnHandle(op, h)))
                        \/ Proceed(t)
               PROVE  Placed(t)'
  <2>1. CASE UNCHANGED <<pc, call, fd, step, ret>>
    BY <2>1, <1>k DEF PlaceInv
  <2>2. CASE OtherOpen \/ OtherClose \/ UNCHANGED vars
    BY <2>1, <2>2 DEF OtherOpen, OtherClose, vars, locals
  <2>3. ASSUME NEW t \in Threads, Placed(t)', Proceed(t) \/ \E c : Enter(t, c)
        PROVE  PlaceInv'
    BY <2>3, <1>k, OthersKeep DEF PlaceInv
  <2> QED
    BY <1>0, <2>2, <2>3, Steps
<1>1. ASSUME NEW c \in Opens, Enter(t, c) PROVE Placed(t)'
  BY <1>1, <1>p, CallFacts DEF Enter, Goto, TypeOK, Opening
<1>2. ASSUME NEW h \in handles, NEW op \in {"use", "close"}, Enter(t, OnHandle(op, h)) PROVE Placed(t)'
  <2>1. h \in Handle
    BY DEF TypeOK
  <2> QED
    BY <1>2, <2>1, <1>p, CallFacts DEF Enter, Goto, TypeOK, Opening
<1>3. CASE OpenDevice(t)
  <2>1. call[t] \in Call /\ call[t].op = "open" /\ Kind(t) \in Kinds /\ fd[t] = -1 /\ step[t] = 1
    BY <1>3, <1>p, CallFacts DEF OpenDevice, Kind, Dev, Opening
  <2>2. call'[t] = call[t] /\ Kind(t)' = Kind(t) /\ step'[t] = step[t]
    BY <1>3 DEF OpenDevice, Kind, Dev
  <2>3. \/ pc'[t] = "return" /\ ret'[t] \in {fd'[t], -1}
        \/ pc'[t] = "can" /\ Kind(t) = "can"
        \/ pc'[t] \in {"spi", "uart"} /\ Kind(t) = pc'[t] /\ fd'[t] # -1
    BY <1>3, <2>1, FdFacts DEF OpenDevice, Answer, Goto, TypeOK, Kinds
  <2> QED
    BY <2>1, <2>2, <2>3 DEF Opening
<1>4. CASE SpiSet(t) \/ UartSet(t) \/ CanLocate(t) \/ CanBind(t)
  <2>1. call[t] \in Call /\ call[t].op = "open" /\ pc[t] \in {"spi", "uart", "can", "bind"}
    BY <1>4, <1>p DEF SpiSet, UartSet, CanLocate, CanBind, Opening
  <2>2. call'[t] = call[t] /\ Kind(t)' = Kind(t) /\ fd'[t] = fd[t]
    BY <1>4 DEF SpiSet, UartSet, CanLocate, CanBind, Kind, Dev
  <2>3. \/ pc'[t] = "return" /\ ret'[t] \in {fd[t], -1}
        \/ pc'[t] = pc[t] /\ pc[t] = "spi"
        \/ pc'[t] = "bind" /\ pc[t] = "can" /\ fd[t] # -1
    BY <1>4 DEF SpiSet, UartSet, CanLocate, CanBind, Answer, Goto, Abandon, TypeOK
  <2> QED
    BY <2>1, <2>2, <2>3, <1>p DEF Opening
<1>5. CASE Use(t) \/ CloseHandle(t)
  BY <1>5, <1>p DEF Use, CloseHandle, Goto, TypeOK, Opening, locals
<1>6. CASE Leave(t)
  BY <1>6, CallFacts DEF Leave, Goto, TypeOK, Opening
<1> QED
  BY <1>0, <1>1, <1>2, <1>3, <1>4, <1>5, <1>6 DEF Proceed

\* The invariant of places and types is inductive.
LEMMA InvNext == HandlesAssumption /\ Inv /\ [Next]_vars => Inv'
BY TypeNext, PlaceNext DEF Inv

\* Every value has its type, whatever the application does.
THEOREM TypeCorrect ==
  ASSUME HandlesAssumption
  PROVE  Spec => []TypeOK
<1>1. Inv => TypeOK
  BY DEF Inv
<1> QED
  BY <1>1, InvInit, InvNext, PTL DEF Spec
-----------------------------------------------------------------------------
\* What Java and the calls in progress have is in the table, and not free.
LEMMA HolderFacts ==
  ASSUME HandlesAssumption, NameInv
  PROVE  /\ \A h \in handles : h \in Handle /\ fds[h.fd].kind \in Kinds
         /\ \A t \in Threads : \A f \in Mine(t) : f \in Fd /\ fds[f].kind \in Kinds
<1> USE DEF NameInv, Inv
<1>1. \A h \in handles : h \in Handle
  BY DEF TypeOK
<1>2. \A h \in handles : fds[h.fd].kind \in Kinds
  BY <1>1, CallFacts DEF HolderInv, Names
<1>3. ASSUME NEW t \in Threads, NEW f \in Mine(t) PROVE f \in Fd /\ fds[f].kind \in Kinds
  <2>1. f \in Fd /\ fds[f].kind = Dev(t)[1]
    BY DEF HolderInv, Names, Mine
  <2>2. pc[t] # "idle"
    BY FdFacts DEF Mine, PlaceInv
  <2>3. Dev(t) \in Devices
    BY <2>2, CallFacts DEF PlaceInv, Dev
  <2> QED
    BY <2>1, <2>3, CallFacts
<1> QED
  BY <1>1, <1>2, <1>3

\* A step that takes nothing new, keeps the files that are held and the devices of
\* those that hold them, keeps the invariant.
LEMMA HolderKept ==
  ASSUME HolderInv, TypeOK,
         handles' \subseteq handles,
         \A h \in handles' : fds'[h.fd] = fds[h.fd],
         \A t \in Threads : Mine(t)' \subseteq Mine(t),
         \A t \in Threads : \A f \in Mine(t)' : fds'[f] = fds[f] /\ Dev(t)' = Dev(t)
  PROVE  HolderInv'
BY DEF HolderInv, Names

\* Who opens a file is the only one to have it.
LEMMA HolderNext ==
  ASSUME HandlesAssumption, NameInv, [Next]_vars
  PROVE  HolderInv'
<1> USE DEF NameInv, Inv
<1>i. PlaceInv' /\ TypeOK'
  BY InvNext
<1>o. ASSUME NEW t \in Threads, Proceed(t) \/ \E c : Enter(t, c)
      PROVE  \A u \in Threads \ {t} : Mine(u)' = Mine(u) /\ Dev(u)' = Dev(u)
  BY <1>o, OthersKeep DEF Mine, Dev
\* a thread that has a file in hand gives it up, or keeps it
<1>1. ASSUME NEW t \in Threads, NEW c \in Opens, Enter(t, c) PROVE HolderInv'
  <2>1. Mine(t)' = {}
    BY <1>1, CallFacts, FdFacts, <1>i DEF Enter, Goto, Mine, TypeOK, PlaceInv
  <2>2. handles' = handles /\ fds' = fds
    BY <1>1, CallFacts DEF Enter
  <2> QED
    BY <1>1, <1>o, <2>1, <2>2, HolderKept
<1>2. ASSUME NEW t \in Threads, NEW h \in handles, NEW op \in {"use", "close"}, Enter(t, OnHandle(op, h))
      PROVE  HolderInv'
  <2>1. h \in Handle /\ fds' = fds /\ pc'[t] = op /\ call'[t] = OnHandle(op, h) /\ fd'[t] = -1
    BY <1>2, CallFacts DEF Enter, Goto, TypeOK, PlaceInv
  <2>2. CASE op = "use"
    <3>1. Mine(t)' = {}
      BY <2>1, <2>2, FdFacts DEF Mine
    <3>2. handles' = handles
      BY <1>2, <2>1, <2>2, CallFacts DEF Enter
    <3> QED
      BY <1>2, <1>o, <2>1, <3>1, <3>2, HolderKept
  <2>3. CASE op = "close"
    <3>1. Mine(t)' = {h.fd} /\ Dev(t)' = h.dev
      BY <2>1, <2>3, CallFacts, FdFacts DEF Mine, Dev
    <3>2. handles' = {g \in handles : g.fd # h.fd}
      BY <1>2, <2>1, <2>3, CallFacts DEF Enter
    <3> QED
      BY <1>2, <1>o, <2>1, <3>1, <3>2 DEF HolderInv, Names
  <2> QED
    BY <2>2, <2>3
<1>3. ASSUME NEW t \in Threads, OpenDevice(t) PROVE HolderInv'
  <2>1. /\ pc[t] = "open" /\ fd[t] = -1 /\ call'[t] = call[t] /\ Dev(t)' = Dev(t) /\ handles' = handles
        /\ call[t] \in Call /\ call[t].op = "open" /\ Kind(t) = Dev(t)[1] /\ Mine(t) = {}
    BY <1>3, FdFacts DEF OpenDevice, Dev, Kind, PlaceInv, Opening, Mine
  <2>2. CASE fds' = fds /\ fd' = fd
    <3>1. pc'[t] \in {"can", "return"}
      BY <1>3, <2>2, <2>1, FdFacts DEF OpenDevice, Answer, Goto, TypeOK
    <3>2. Mine(t)' = {}
      BY <2>1, <2>2, <3>1, FdFacts DEF Mine
    <3> QED
      BY <1>3, <1>o, <2>1, <2>2, <3>2, HolderKept DEF Proceed
  <2>3. ASSUME NEW f \in Fd, IsLowestFree(fds, f), fds' = [fds EXCEPT ![f] = File(Kind(t), Dev(t)[2], t)],
               fd' = [fd EXCEPT ![t] = f]
        PROVE  HolderInv'
    <3>1. fds[f].kind \notin Kinds
      BY <2>3, FdFacts DEF IsLowestFree
    <3>2. \A h \in handles : h.fd # f /\ fds'[h.fd] = fds[h.fd]
      BY <2>3, <3>1, HolderFacts, CallFacts DEF TypeOK
    <3>3. \A u \in Threads : f \notin Mine(u) /\ \A g \in Mine(u) : fds'[g] = fds[g]
      BY <2>3, <3>1, HolderFacts DEF TypeOK
    <3>4. Mine(t)' \subseteq {f}
      <4>1. Kind(t) # "close"
        BY <2>1, CallFacts DEF Dev, Kinds
      <4>2. pc'[t] \in {"return", "can", Kind(t)}
        BY <1>3 DEF TypeOK, OpenDevice, Answer, Goto
      <4>3. fd'[t] = f
        BY <2>3 DEF TypeOK
      <4> QED
        BY <4>1, <4>2, <4>3 DEF Mine
    <3>5. fds'[f].kind = Dev(t)[1] /\ fds'[f].id = Dev(t)[2]
      BY <2>3, <2>1, FdFacts DEF TypeOK
    <3> QED
      BY <1>3, <1>o, <2>1, <3>2, <3>3, <3>4, <3>5 DEF HolderInv, Names, Proceed
  <2> QED
    BY <1>3, <2>2, <2>3 DEF OpenDevice
<1>4. ASSUME NEW t \in Threads, SpiSet(t) \/ UartSet(t) \/ CanLocate(t) \/ CanBind(t) PROVE HolderInv'
  <2>1. fds' = fds /\ fd' = fd /\ handles' = handles /\ call' = call /\ Dev(t)' = Dev(t)
    BY <1>4 DEF SpiSet, UartSet, CanLocate, CanBind, Abandon, Dev
  <2>2. pc[t] # "return" /\ pc'[t] # "close"
    BY <1>4 DEF SpiSet, UartSet, CanLocate, CanBind, Abandon, Answer, Goto, TypeOK
  <2>3. Mine(t)' \subseteq Mine(t)
    BY <2>1, <2>2 DEF Mine
  <2> QED
    BY <1>4, <1>o, <2>1, <2>3, HolderKept DEF Proceed
<1>5. ASSUME NEW t \in Threads, Use(t) PROVE HolderInv'
  <2>1. fds' = fds /\ fd' = fd /\ handles' = handles /\ call' = call /\ Dev(t)' = Dev(t) /\ pc[t] = "use"
        /\ pc'[t] = "return"
    BY <1>5 DEF Use, locals, Goto, TypeOK, Dev
  <2>2. Mine(t)' \subseteq Mine(t)
    BY <2>1 DEF Mine
  <2> QED
    BY <1>5, <1>o, <2>1, <2>2, HolderKept DEF Proceed
<1>6. ASSUME NEW t \in Threads, CloseHandle(t) PROVE HolderInv'
  <2>1. /\ fd[t] = -1 /\ fd' = fd /\ handles' = handles /\ call' = call /\ pc[t] = "close" /\ pc'[t] = "return"
        /\ call[t] \in Call /\ call[t].op = "close" /\ fds' = Closed(fds, call[t].fd)
    BY <1>6 DEF CloseHandle, locals, Goto, TypeOK, PlaceInv
  <2>2. Mine(t) = {call[t].fd} /\ Mine(t)' = {} /\ call[t].fd \in Fd
    BY <2>1, FdFacts, CallFacts DEF Mine
  <2>3. \A f \in Fd : f # call[t].fd => fds'[f] = fds[f]
    BY <2>1 DEF Closed, TypeOK
  <2>4. \A h \in handles : fds'[h.fd] = fds[h.fd]
    BY <2>2, <2>3, HolderFacts, CallFacts DEF HolderInv
  <2>5. \A u \in Threads \ {t} : \A f \in Mine(u) : fds'[f] = fds[f]
    BY <2>2, <2>3, HolderFacts DEF HolderInv
  <2> QED
    BY <1>6, <1>o, <2>1, <2>2, <2>4, <2>5, HolderKept DEF Proceed
<1>7. ASSUME NEW t \in Threads, Leave(t) PROVE HolderInv'
  <2> DEFINE h == [dev |-> Dev(t), settings |-> call[t].settings, fd |-> ret[t]]
  <2>1. Mine(t)' = {} /\ fds' = fds
    BY <1>7, FdFacts DEF Leave, Goto, TypeOK, Mine
  <2>2. CASE call[t].op = "open" /\ ret[t] # -1
    <3>1. handles' = handles \cup {h}
      BY <1>7, <2>2 DEF Leave
    <3>2. pc[t] = "return" /\ ret[t] = fd[t] /\ fd[t] \in Fd
      BY <1>7, <2>2 DEF Leave, PlaceInv, TypeOK
    <3>3. h.fd \in Mine(t) /\ h.dev = Dev(t)
      BY <3>2, <2>2 DEF Mine
    <3> HIDE DEF h
    <3>4. \A u \in Threads \ {t} : h.fd \notin Mine(u)
      BY <3>3 DEF HolderInv
    <3>5. \A g \in handles : g.fd # h.fd
      BY <3>3 DEF HolderInv
    <3>6. Names(h.fd, h.dev)
      BY <3>3 DEF HolderInv
    <3> QED
      BY <1>7, <1>o, <2>1, <3>1, <3>4, <3>5, <3>6 DEF HolderInv, Proceed, Names
  <2>3. CASE ~(call[t].op = "open" /\ ret[t] # -1)
    <3>1. handles' = handles
      BY <1>7, <2>3 DEF Leave
    <3> QED
      BY <1>7, <1>o, <2>1, <3>1, HolderKept DEF Proceed
  <2> QED
    BY <2>2, <2>3
<1>8. CASE OtherOpen \/ OtherClose \/ UNCHANGED vars
  <2>1. handles' = handles /\ \A u \in Threads : Mine(u)' = Mine(u) /\ Dev(u)' = Dev(u)
    BY <1>8 DEF OtherOpen, OtherClose, vars, locals, Mine, Dev
  <2>2. \A f \in Fd : fds[f].kind \in Kinds => fds'[f] = fds[f]
    BY <1>8, FdFacts DEF OtherOpen, OtherClose, vars, Closed, TypeOK, IsLowestFree
  <2> QED
    BY <2>1, <2>2, HolderFacts, CallFacts, HolderKept
<1> QED
  BY <1>1, <1>2, <1>3, <1>4, <1>5, <1>6, <1>7, <1>8, Steps DEF Proceed
\* Java keeps a handle as long as it is in use.
LEMMA UseNext ==
  ASSUME HandlesAssumption, NotClosedInUse, NameInv, [Next]_vars
  PROVE  UseInv'
<1> USE DEF NameInv, Inv
<1>1. ASSUME NEW t \in Threads, NEW c \in Opens, Enter(t, c) PROVE UseInv'
  <2>1. pc'[t] = "open" /\ handles' = handles
    BY <1>1, CallFacts DEF Enter, Goto, TypeOK
  <2> QED
    BY <1>1, <2>1, OthersKeep DEF UseInv, Dev
<1>2. ASSUME NEW t \in Threads, NEW h \in handles, NEW op \in {"use", "close"}, Enter(t, OnHandle(op, h))
      PROVE  UseInv'
  <2>1. h \in Handle /\ pc'[t] = op /\ call'[t] = OnHandle(op, h)
    BY <1>2, CallFacts DEF Enter, Goto, TypeOK
  <2>2. CASE op = "use"
    <3>1. handles' = handles
      BY <1>2, <2>1, <2>2, CallFacts DEF Enter
    <3>2. call'[t].fd = h.fd /\ Dev(t)' = h.dev
      BY <2>1, <2>2, CallFacts DEF Dev
    <3> QED
      BY <1>2, <3>1, <3>2, OthersKeep DEF UseInv, Dev
  <2>3. CASE op = "close"
    <3>1. handles' = {g \in handles : g.fd # h.fd}
      BY <1>2, <2>1, <2>3, CallFacts DEF Enter
    <3>2. ASSUME NEW u \in Threads, pc[u] = "use"
          PROVE  call[u].fd # h.fd
      <4>1. call[u] \in Call /\ call[u].op = "use"
        BY <3>2 DEF PlaceInv
      <4>2. MayOverlap(OnHandle(op, h), call[u])
        BY <1>2, <3>2 DEF Enter
      <4> QED
        BY <4>1, <4>2, <2>1, <2>3, CallFacts DEF NotClosedInUse
    <3>3. pc'[t] = "close"
      BY <2>1, <2>3
    <3> QED
      BY <1>2, <3>1, <3>2, <3>3, OthersKeep DEF UseInv, Dev
  <2> QED
    BY <2>2, <2>3
<1>3. ASSUME NEW t \in Threads, Proceed(t) PROVE UseInv'
  <2>1. handles \subseteq handles'
    BY <1>3 DEF Proceed, OpenDevice, SpiSet, UartSet, CanLocate, CanBind, Use, CloseHandle, Leave
  <2>2. pc'[t] # "use"
    <3>1. CASE OpenDevice(t)
      <4>1. Kind(t) # "use"
        BY <3>1, CallFacts DEF OpenDevice, PlaceInv, Kind, Dev, Kinds
      <4> QED
        BY <3>1, <4>1 DEF OpenDevice, Answer, Goto, TypeOK
    <3>2. CASE SpiSet(t) \/ UartSet(t) \/ CanLocate(t) \/ CanBind(t)
      BY <3>2 DEF SpiSet, UartSet, CanLocate, CanBind, Abandon, Answer, Goto, TypeOK
    <3>3. CASE Use(t) \/ CloseHandle(t) \/ Leave(t)
      BY <3>3 DEF Use, CloseHandle, Leave, Goto, TypeOK
    <3> QED
      BY <1>3, <3>1, <3>2, <3>3 DEF Proceed
  <2> QED
    BY <1>3, <2>1, <2>2, OthersKeep DEF UseInv, Dev
<1>4. CASE OtherOpen \/ OtherClose \/ UNCHANGED vars
  BY <1>4 DEF OtherOpen, OtherClose, vars, locals, UseInv, Dev
<1> QED
  BY <1>1, <1>2, <1>3, <1>4, Steps

\* At first nobody has a handle.
LEMMA NameInit == HandlesAssumption /\ Init => NameInv
<1> SUFFICES ASSUME HandlesAssumption, Init PROVE NameInv
  OBVIOUS
<1>1. handles = {} /\ \A t \in Threads : Mine(t) = {} /\ pc[t] = "idle"
  BY FdFacts DEF Init, Mine
<1>2. HolderInv /\ UseInv
  BY <1>1 DEF HolderInv, UseInv
<1> QED
  BY <1>2, InvInit DEF NameInv

\* What Java and the calls have is kept by every step.
LEMMA NameNext == HandlesAssumption /\ NotClosedInUse /\ NameInv /\ [Next]_vars => NameInv'
BY InvNext, HolderNext, UseNext DEF NameInv

\* uart.c:92-115, spi.c:234-248, can.c:70-82, i2c.c:180: as long as the application
\* closes no handle that is in use, no call of the HAL closes a handle, or gives its
\* number away, before Java does, and each stands for the device it was opened for.
THEOREM HandlesNameTheirDevicesHold ==
  ASSUME HandlesAssumption, NotClosedInUse
  PROVE  Spec => []HandlesNameTheirDevices
<1>1. NameInv => HandlesNameTheirDevices
  BY DEF NameInv, HolderInv, UseInv, HandlesNameTheirDevices
<1> QED
  BY <1>1, NameInit, NameNext, PTL DEF Spec
-----------------------------------------------------------------------------
\* Somebody knows a descriptor.
Known(f) ==
  \/ f \in abandoned
  \/ \E t \in Threads : f = fd[t]
  \/ \E t \in Threads : pc[t] = "close" /\ f = call[t].fd
  \/ \E h \in handles : f = h.fd

\* What is left behind is what nobody knows.
LEMMA LeakIsUnknown ==
  OnlyFailedOpensLeak = \A f \in Fd : fds[f].kind \in Kinds => Known(f)
BY DEF OnlyFailedOpensLeak, InProgress, Known

\* The thread that makes a step is the only one that can forget a descriptor.
LEMMA KnownKept ==
  ASSUME TypeOK, NEW t \in Threads, Proceed(t) \/ \E c : Enter(t, c), NEW f, Known(f),
         handles \subseteq handles', abandoned \subseteq abandoned',
         f = fd[t] => Known(f)', pc[t] = "close" => f # call[t].fd
  PROVE  Known(f)'
<1>1. CASE f \in abandoned \/ \E h \in handles : f = h.fd
  BY <1>1 DEF Known
<1>2. CASE \E u \in Threads : f = fd[u]
  BY <1>2, OthersKeep DEF Known
<1>3. CASE \E u \in Threads : pc[u] = "close" /\ f = call[u].fd
  BY <1>3, OthersKeep DEF Known
<1> QED
  BY <1>1, <1>2, <1>3 DEF Known

\* Nothing but a failed open forgets a descriptor.
LEMMA LeakNext ==
  ASSUME HandlesAssumption, Inv, AbandonInv, OnlyFailedOpensLeak, [Next]_vars
  PROVE  OnlyFailedOpensLeak'
<1> USE DEF Inv
<1>l. (OnlyFailedOpensLeak = \A f \in Fd : fds[f].kind \in Kinds => Known(f))'
  BY LeakIsUnknown, PTL
<1>s. SUFFICES ASSUME NEW f \in Fd, fds'[f].kind \in Kinds PROVE Known(f)'
  BY <1>l
<1>k. fds[f].kind \in Kinds => Known(f)
  BY LeakIsUnknown
<1>1. ASSUME NEW t \in Threads, NEW c \in Opens, Enter(t, c) PROVE Known(f)'
  <2>1. fds' = fds /\ handles' = handles /\ abandoned' = abandoned /\ pc[t] = "idle" /\ fd' = fd
    BY <1>1, CallFacts DEF Enter
  <2>2. f = fd[t] => Known(f)'
    BY <2>1 DEF Known
  <2> QED
    BY <1>1, <1>k, <1>s, <2>1, <2>2, KnownKept
<1>2. ASSUME NEW t \in Threads, NEW h \in handles, NEW op \in {"use", "close"}, Enter(t, OnHandle(op, h))
      PROVE  Known(f)'
  <2>0. h \in Handle
    BY DEF TypeOK
  <2>1. fds' = fds /\ abandoned' = abandoned /\ pc[t] = "idle" /\ fd' = fd
    BY <1>2 DEF Enter
  <2>2. pc'[t] = op /\ call'[t].fd = h.fd
    BY <1>2, <2>0, CallFacts DEF Enter, Goto, TypeOK
  <2>3. handles' = IF op = "close" THEN {g \in handles : g.fd # h.fd} ELSE handles
    BY <1>2, <2>0, CallFacts DEF Enter
  <2>4. CASE \E g \in handles : f = g.fd
    <3>1. CASE op = "close" /\ f = h.fd
      BY <3>1, <2>2 DEF Known
    <3>2. CASE ~(op = "close" /\ f = h.fd)
      BY <3>2, <2>3, <2>4 DEF Known
    <3> QED
      BY <3>1, <3>2
  <2>5. CASE \E u \in Threads : pc[u] = "close" /\ f = call[u].fd
    <3>1. PICK u \in Threads : pc[u] = "close" /\ f = call[u].fd
      BY <2>5
    <3>2. pc'[u] = pc[u] /\ call'[u] = call[u]
      BY <1>2, <2>1, <3>1, OthersKeep
    <3> QED
      BY <3>1, <3>2 DEF Known
  <2>6. CASE f \in abandoned \/ \E u \in Threads : f = fd[u]
    BY <2>6, <2>1 DEF Known
  <2> QED
    BY <1>k, <1>s, <2>1, <2>4, <2>5, <2>6 DEF Known
<1>3. ASSUME NEW t \in Threads, OpenDevice(t) PROVE Known(f)'
  <2>1. handles' = handles /\ abandoned' = abandoned /\ pc[t] = "open" /\ fd[t] = -1
    BY <1>3 DEF OpenDevice, PlaceInv
  <2>2. fds'[f] = fds[f] \/ f = fd'[t]
    BY <1>3 DEF OpenDevice, TypeOK
  <2>3. CASE f = fd'[t]
    BY <2>3 DEF Known
  <2>4. CASE f # fd'[t]
    BY <1>3, <1>k, <1>s, <2>1, <2>2, <2>4, FdFacts, KnownKept DEF Proceed
  <2> QED
    BY <2>3, <2>4
<1>4. ASSUME NEW t \in Threads, SpiSet(t) \/ UartSet(t) \/ CanLocate(t) \/ CanBind(t) \/ Use(t) PROVE Known(f)'
  <2>1. fds' = fds /\ handles' = handles /\ fd' = fd /\ abandoned \subseteq abandoned' /\ pc[t] # "close"
    BY <1>4 DEF SpiSet, UartSet, CanLocate, CanBind, Use, Abandon, locals
  <2>2. f = fd[t] => Known(f)'
    BY <2>1 DEF Known
  <2> QED
    BY <1>4, <1>k, <1>s, <2>1, <2>2, KnownKept DEF Proceed
<1>5. ASSUME NEW t \in Threads, CloseHandle(t) PROVE Known(f)'
  <2>1. /\ handles' = handles /\ fd' = fd /\ abandoned' = abandoned /\ fds' = Closed(fds, call[t].fd)
        /\ call[t] \in Call /\ call[t].op = "close"
    BY <1>5 DEF CloseHandle, locals, PlaceInv
  <2>2. f # call[t].fd /\ fds'[f] = fds[f]
    BY <1>s, <2>1, FdFacts, CallFacts DEF Closed, TypeOK
  <2>3. f = fd[t] => Known(f)'
    BY <2>1 DEF Known
  <2> QED
    BY <1>5, <1>k, <1>s, <2>1, <2>2, <2>3, KnownKept DEF Proceed
<1>6. ASSUME NEW t \in Threads, Leave(t) PROVE Known(f)'
  <2>1. fds' = fds /\ abandoned' = abandoned /\ handles \subseteq handles' /\ pc[t] = "return"
    BY <1>6 DEF Leave
  <2>3. ASSUME call[t].op = "open", ret[t] # -1
        PROVE  \E h \in handles' : h.fd = ret[t]
    <3> DEFINE h == [dev |-> Dev(t), settings |-> call[t].settings, fd |-> ret[t]]
    <3>1. handles' = handles \cup {h}
      BY <1>6, <2>3 DEF Leave
    <3>2. h.fd = ret[t]
      OBVIOUS
    <3> HIDE DEF h
    <3> QED
      BY <3>1, <3>2
  <2>2. ASSUME f = fd[t] PROVE Known(f)'
    <3>1. call[t].op = "open" /\ ret[t] \in {fd[t], -1}
      BY <2>1, <2>2, FdFacts DEF PlaceInv
    <3>2. CASE ret[t] = fd[t]
      BY <2>2, <2>3, <3>1, <3>2, FdFacts DEF Known
    <3>3. CASE ret[t] = -1
      BY <2>1, <2>2, <3>3, FdFacts DEF AbandonInv, Known
    <3> QED
      BY <3>1, <3>2, <3>3
  <2> QED
    BY <1>6, <1>k, <1>s, <2>1, <2>2, KnownKept DEF Proceed
<1>7. CASE OtherOpen \/ OtherClose \/ UNCHANGED vars
  <2>1. handles' = handles /\ fd' = fd /\ abandoned' = abandoned /\ pc' = pc /\ call' = call
    BY <1>7 DEF OtherOpen, OtherClose, vars, locals
  <2>2. fds[f].kind \in Kinds
    BY <1>7, <1>s, FdFacts DEF OtherOpen, OtherClose, vars, Closed, TypeOK, IsLowestFree
  <2> QED
    BY <1>k, <2>1, <2>2 DEF Known
<1> QED
  BY <1>1, <1>2, <1>3, <1>4, <1>5, <1>6, <1>7, Steps DEF Proceed

\* A failed open has given up its file.
LEMMA AbandonNext ==
  ASSUME HandlesAssumption, Inv, AbandonInv, [Next]_vars
  PROVE  AbandonInv'
<1> USE DEF Inv
<1>1. ASSUME NEW t \in Threads, (\E c : Enter(t, c)) \/ Proceed(t),
             pc'[t] = "return" /\ ret'[t] = -1 /\ fd'[t] # -1 => fd'[t] \in abandoned',
             abandoned \subseteq abandoned'
      PROVE  AbandonInv'
  BY <1>1, OthersKeep DEF AbandonInv
<1>2. ASSUME NEW t \in Threads, NEW c \in Opens, Enter(t, c) PROVE AbandonInv'
  <2>1. pc'[t] = "open" /\ abandoned' = abandoned
    BY <1>2, CallFacts DEF Enter, Goto, TypeOK
  <2> QED
    BY <1>1, <1>2, <2>1
<1>3. ASSUME NEW t \in Threads, NEW h \in handles, NEW op \in {"use", "close"}, Enter(t, OnHandle(op, h))
      PROVE  AbandonInv'
  <2>1. pc'[t] = op /\ abandoned' = abandoned
    BY <1>3, CallFacts DEF Enter, Goto, TypeOK
  <2> QED
    BY <1>1, <1>3, <2>1
<1>4. ASSUME NEW t \in Threads, Proceed(t) PROVE AbandonInv'
  <2>1. abandoned \subseteq abandoned'
    BY <1>4 DEF Proceed, OpenDevice, SpiSet, UartSet, CanLocate, CanBind, Use, CloseHandle, Leave, Abandon
  <2>2. pc'[t] = "return" /\ ret'[t] = -1 /\ fd'[t] # -1 => fd'[t] \in abandoned'
    <3>1. CASE OpenDevice(t)
      <4>1. fd[t] = -1
        BY <3>1 DEF OpenDevice, PlaceInv
      <4>2. CASE UNCHANGED fd
        BY <4>1, <4>2
      <4>3. ASSUME NEW f \in Fd, fd' = [fd EXCEPT ![t] = f],
                   IF Kind(t) = "i2c" THEN Answer(t, f) ELSE Goto(t, Kind(t)) /\ UNCHANGED ret
            PROVE  ~(pc'[t] = "return" /\ ret'[t] = -1)
        <5>1. Kind(t) # "return"
          BY <3>1, CallFacts DEF OpenDevice, PlaceInv, Kind, Dev, Kinds
        <5> QED
          BY <4>3, <5>1, FdFacts DEF Answer, Goto, TypeOK
      <4> QED
        BY <3>1, <4>2, <4>3 DEF OpenDevice
    <3>2. CASE SpiSet(t) \/ UartSet(t) \/ CanLocate(t) \/ CanBind(t)
      BY <3>2, FdFacts DEF SpiSet, UartSet, CanLocate, CanBind, Answer, Goto, Abandon, TypeOK, PlaceInv
    <3>3. CASE Use(t) \/ CloseHandle(t) \/ Leave(t)
      BY <3>3 DEF Use, CloseHandle, Leave, Goto, TypeOK, PlaceInv, locals
    <3> QED
      BY <1>4, <3>1, <3>2, <3>3 DEF Proceed
  <2> QED
    BY <1>1, <1>4, <2>1, <2>2
<1>5. CASE OtherOpen \/ OtherClose \/ UNCHANGED vars
  BY <1>5 DEF OtherOpen, OtherClose, vars, locals, AbandonInv
<1> QED
  BY <1>2, <1>3, <1>4, <1>5, Steps

\* uart.c:93-113, spi.c:234-236, can.c:70-80: a descriptor of a device that neither
\* Java nor a call in progress knows has been left behind by an open that failed,
\* however calls overlap and whatever Java passes to close.
THEOREM OnlyFailedOpensLeakHolds ==
  ASSUME HandlesAssumption
  PROVE  Spec => []OnlyFailedOpensLeak
<1>1. Init => AbandonInv /\ OnlyFailedOpensLeak
  <2>1. Init => AbandonInv
    BY DEF Init, AbandonInv
  <2>2. Init => OnlyFailedOpensLeak
    BY FdFacts DEF Init, OnlyFailedOpensLeak
  <2> QED
    BY <2>1, <2>2
<1>2. Inv /\ AbandonInv /\ OnlyFailedOpensLeak /\ [Next]_vars => Inv' /\ AbandonInv' /\ OnlyFailedOpensLeak'
  BY InvNext, AbandonNext, LeakNext
<1> QED
  BY <1>1, <1>2, InvInit, PTL DEF Spec

-----------------------------------------------------------------------------
\* A device is in the hands of one open.
LEMMA AloneNext ==
  ASSUME HandlesAssumption, OpenedByOne, Inv, AloneInv, [Next]_vars
  PROVE  AloneInv'
<1> USE DEF Inv
<1>1. ASSUME NEW t \in Threads, NEW c \in Opens, Enter(t, c) PROVE AloneInv'
  <2>1. call'[t] = c
    BY <1>1 DEF Enter, TypeOK
  <2>2. ASSUME NEW u \in Threads, call[u].op = "open"
        PROVE  c.dev # Dev(u)
    <3>1. pc[u] # "idle" /\ call[u] \in Call
      BY <2>2, CallFacts DEF PlaceInv
    <3>2. MayOverlap(c, call[u])
      BY <1>1, <3>1 DEF Enter
    <3> QED
      BY <2>2, <3>1, <3>2, CallFacts DEF OpenedByOne, Dev
  <2> QED
    BY <1>1, <2>1, <2>2, OthersKeep DEF AloneInv, Dev
<1>2. ASSUME NEW t \in Threads, NEW h \in handles, NEW op \in {"use", "close"}, Enter(t, OnHandle(op, h))
      PROVE  AloneInv'
  <2>1. call'[t].op # "open"
    BY <1>2, CallFacts DEF Enter, TypeOK
  <2> QED
    BY <1>2, <2>1, OthersKeep DEF AloneInv, Dev
<1>3. ASSUME NEW t \in Threads, Proceed(t) PROVE AloneInv'
  <2>1. call' = call \/ call' = [call EXCEPT ![t] = NoCall]
    BY <1>3 DEF Proceed, OpenDevice, SpiSet, UartSet, CanLocate, CanBind, Use, CloseHandle, Leave, locals
  <2> QED
    BY <2>1, CallFacts DEF AloneInv, Dev, TypeOK
<1>4. CASE OtherOpen \/ OtherClose \/ UNCHANGED vars
  BY <1>4 DEF OtherOpen, OtherClose, vars, locals, AloneInv, Dev
<1> QED
  BY <1>1, <1>2, <1>3, <1>4, Steps

\* A step that leaves the settings alone, and those that are making them.
LEMMA ConfKept ==
  ASSUME TypeOK, SetInv, CurrentInv, ConfiguredAsAsked, conf' = conf, current' \subseteq current,
         \A u \in Threads : \/ UNCHANGED <<pc[u], call[u], step[u], ret[u]>>
                            \/ /\ ~(pc'[u] = "spi" /\ step'[u] # 1)
                               /\ ~(pc'[u] = "return" /\ call'[u].op = "open" /\ ret'[u] # -1
                                      /\ Kind(u)' \in {"spi", "uart"})
                               /\ \/ call'[u].op # "open"
                                  \/ call'[u] = call[u]
                                  \/ \A h \in current' : h.dev # call'[u].dev
  PROVE  SetInv' /\ CurrentInv' /\ ConfiguredAsAsked'
<1>1. ASSUME NEW u \in Threads
      PROVE  /\ pc'[u] = "spi" => \A i \in 1 .. 3 : i < step'[u] => conf'[Dev(u)'][i] = call'[u].settings
             /\ pc'[u] = "return" /\ call'[u].op = "open" /\ ret'[u] # -1 /\ Kind(u)' \in {"spi", "uart"} =>
                  \A i \in 1 .. 3 : conf'[Dev(u)'][i] = call'[u].settings
             /\ call'[u].op = "open" => \A h \in current' : h.dev # Dev(u)'
  <2>1. CASE UNCHANGED <<pc[u], call[u], step[u], ret[u]>>
    BY <2>1 DEF SetInv, CurrentInv, Dev, Kind
  <2>2. CASE ~UNCHANGED <<pc[u], call[u], step[u], ret[u]>>
    BY <2>2 DEF SetInv, CurrentInv, Dev, Kind
  <2> QED
    BY <2>1, <2>2
<1> QED
  BY <1>1 DEF SetInv, CurrentInv, ConfiguredAsAsked
\* The settings of a device are made by its open, and left alone by all others.
LEMMA ConfNext ==
  ASSUME HandlesAssumption, OpenedByOne, ConfInv, [Next]_vars
  PROVE  SetInv' /\ CurrentInv' /\ ConfiguredAsAsked'
<1> USE DEF ConfInv, Inv
<1>1. ASSUME NEW t \in Threads, NEW c \in Opens, Enter(t, c)
      PROVE  SetInv' /\ CurrentInv' /\ ConfiguredAsAsked'
  <2>1. conf' = conf /\ current' = {h \in current : h.dev # c.dev}
    BY <1>1, CallFacts DEF Enter
  <2>2. pc'[t] = "open" /\ call'[t] = c
    BY <1>1, CallFacts DEF Enter, Goto, TypeOK
  <2> QED
    BY <1>1, <2>1, <2>2, OthersKeep, ConfKept
<1>2. ASSUME NEW t \in Threads, NEW h \in handles, NEW op \in {"use", "close"}, Enter(t, OnHandle(op, h))
      PROVE  SetInv' /\ CurrentInv' /\ ConfiguredAsAsked'
  <2>0. h \in Handle
    BY DEF TypeOK
  <2>1. conf' = conf /\ current' \subseteq current
    BY <1>2, <2>0, CallFacts DEF Enter
  <2>2. pc'[t] = op /\ call'[t].op = op
    BY <1>2, <2>0, CallFacts DEF Enter, Goto, TypeOK
  <2> QED
    BY <1>2, <2>1, <2>2, OthersKeep, ConfKept
<1>3. ASSUME NEW t \in Threads, OpenDevice(t)
      PROVE  SetInv' /\ CurrentInv' /\ ConfiguredAsAsked'
  <2>1. conf' = conf /\ current' = current /\ call' = call /\ step' = step /\ step[t] = 1
    BY <1>3 DEF OpenDevice, PlaceInv
  <2>2. pc'[t] = "return" /\ ret'[t] # -1 => Kind(t)' = "i2c"
    <3>1. Kind(t)' = Kind(t)
      BY <2>1 DEF Kind, Dev
    <3>2. Kind(t) # "return"
      BY <1>3, CallFacts DEF OpenDevice, PlaceInv, Kind, Dev, Kinds
    <3> QED
      BY <1>3, <3>1, <3>2 DEF OpenDevice, Answer, Goto, TypeOK
  <2> QED
    BY <1>3, <2>1, <2>2, OthersKeep, ConfKept DEF Proceed
<1>4. ASSUME NEW t \in Threads, SpiSet(t) \/ UartSet(t)
      PROVE  SetInv' /\ CurrentInv' /\ ConfiguredAsAsked'
  <2> DEFINE d == Dev(t)
  <2>1. /\ call[t] \in Call /\ call[t].op = "open" /\ d \in Devices /\ Kind(t) \in {"spi", "uart"}
        /\ pc[t] \in {"spi", "uart"} /\ Kind(t) = pc[t] /\ fd[t] # -1
    BY <1>4, CallFacts DEF SpiSet, UartSet, PlaceInv, Opening, Dev
  <2>2. current' = current /\ call' = call /\ Dev(t)' = d /\ Kind(t)' = Kind(t)
    BY <1>4 DEF SpiSet, UartSet, Dev, Kind
  <2>3. ASSUME NEW e \in Devices, e # d PROVE conf'[e] = conf[e]
    BY <1>4, <2>1, <2>3 DEF SpiSet, UartSet, TypeOK
  <2>4. ASSUME NEW u \in Threads, u # t, call[u].op = "open"
        PROVE  Dev(u) \in Devices /\ Dev(u) # d
    <3>1. call[u] \in Call
      BY <2>4, CallFacts DEF PlaceInv
    <3> QED
      BY <2>1, <2>4, <3>1, CallFacts DEF AloneInv, Dev
  <2>5. /\ pc'[t] = "spi" => \A i \in 1 .. 3 : i < step'[t] => conf'[d][i] = call[t].settings
        /\ pc'[t] = "return" /\ ret'[t] # -1 => \A i \in 1 .. 3 : conf'[d][i] = call[t].settings
    <3>1. CASE SpiSet(t) /\ ~Abandon(t)
      <4>1. pc[t] = "spi" /\ conf' = [conf EXCEPT ![d][step[t]] = call[t].settings]
        BY <3>1 DEF SpiSet
      <4>2. \A i \in 1 .. 3 : i < step[t] => conf[d][i] = call[t].settings
        BY <4>1 DEF SetInv
      <4>3. \A i \in 1 .. 3 : i <= step[t] => conf'[d][i] = call[t].settings
        BY <2>1, <4>1, <4>2 DEF TypeOK
      <4>4. step[t] \in 1 .. 3
        BY DEF TypeOK
      <4>5. CASE step[t] = 3
        <5>1. pc'[t] = "return"
          BY <3>1, <4>5 DEF SpiSet, Answer, Goto, TypeOK
        <5> QED
          BY <4>3, <4>5, <5>1
      <4>6. CASE step[t] # 3
        <5>1. pc' = pc /\ step'[t] = step[t] + 1
          BY <3>1, <4>6 DEF SpiSet, TypeOK
        <5> QED
          BY <4>1, <4>3, <4>4, <5>1
      <4> QED
        BY <4>5, <4>6
    <3>2. CASE UartSet(t) /\ ~Abandon(t)
      <4>1. conf' = [conf EXCEPT ![d] = [i \in 1 .. 3 |-> call[t].settings]] /\ pc'[t] = "return"
        BY <3>2 DEF UartSet, Answer, Goto, TypeOK
      <4> QED
        BY <2>1, <4>1 DEF TypeOK
    <3>3. CASE Abandon(t)
      BY <3>3 DEF Abandon, Answer, Goto, TypeOK
    <3> QED
      BY <1>4, <3>1, <3>2, <3>3
  <2>6. ASSUME NEW u \in Threads
        PROVE  /\ pc'[u] = "spi" => \A i \in 1 .. 3 : i < step'[u] => conf'[Dev(u)'][i] = call'[u].settings
               /\ pc'[u] = "return" /\ call'[u].op = "open" /\ ret'[u] # -1 /\ Kind(u)' \in {"spi", "uart"} =>
                    \A i \in 1 .. 3 : conf'[Dev(u)'][i] = call'[u].settings
    <3>1. CASE u = t
      BY <2>2, <2>5, <3>1
    <3>2. CASE u # t
      <4>1. /\ pc'[u] = pc[u] /\ step'[u] = step[u] /\ ret'[u] = ret[u] /\ call'[u] = call[u]
            /\ Dev(u)' = Dev(u) /\ Kind(u)' = Kind(u)
        BY <1>4, <3>2, OthersKeep DEF Proceed, Dev, Kind
      <4>2. pc[u] = "spi" => call[u].op = "open"
        BY DEF PlaceInv, Opening
      <4>3. call[u].op = "open" => conf'[Dev(u)] = conf[Dev(u)]
        BY <2>3, <2>4, <3>2
      <4> QED
        BY <4>1, <4>2, <4>3 DEF SetInv
    <3> QED
      BY <3>1, <3>2
  <2>7. \A h \in current : h.dev \in Devices /\ h.dev # d
    BY <2>1, CallFacts DEF CurrentInv, TypeOK
  <2>8. CurrentInv'
    BY <2>2 DEF CurrentInv, Dev
  <2>9. ConfiguredAsAsked'
    BY <2>2, <2>3, <2>7 DEF ConfiguredAsAsked
  <2> QED
    BY <2>6, <2>8, <2>9 DEF SetInv
<1>5. ASSUME NEW t \in Threads, CanLocate(t) \/ CanBind(t) \/ Use(t) \/ CloseHandle(t)
      PROVE  SetInv' /\ CurrentInv' /\ ConfiguredAsAsked'
  <2>1. conf' = conf /\ current' = current /\ call' = call
    BY <1>5 DEF CanLocate, CanBind, Use, CloseHandle, locals
  <2>2. pc'[t] \in {"return", "bind"} /\ (pc'[t] = "return" => call'[t].op # "open" \/ Kind(t)' = "can")
    <3>1. CASE CanLocate(t) \/ CanBind(t)
      BY <3>1, <2>1 DEF CanLocate, CanBind, Answer, Goto, Abandon, TypeOK, PlaceInv, Kind, Dev
    <3>2. CASE Use(t) \/ CloseHandle(t)
      BY <3>2, <2>1 DEF Use, CloseHandle, Goto, TypeOK, PlaceInv
    <3> QED
      BY <1>5, <3>1, <3>2
  <2> QED
    BY <1>5, <2>1, <2>2, OthersKeep, ConfKept DEF Proceed
<1>6. ASSUME NEW t \in Threads, Leave(t)
      PROVE  SetInv' /\ CurrentInv' /\ ConfiguredAsAsked'
  <2>1. conf' = conf /\ pc[t] = "return" /\ pc'[t] = "idle" /\ call'[t] = NoCall
    BY <1>6 DEF Leave, Goto, TypeOK
  <2>2. CASE call[t].op = "open" /\ ret[t] # -1
    <3> DEFINE h == [dev |-> Dev(t), settings |-> call[t].settings, fd |-> ret[t]]
    <3>1. current' = current \cup {h}
      BY <1>6, <2>2 DEF Leave
    <3>2. h.dev = Dev(t) /\ h.settings = call[t].settings
      OBVIOUS
    <3>3. h.dev[1] \in {"spi", "uart"} => \A i \in 1 .. 3 : conf[h.dev][i] = h.settings
      BY <2>1, <2>2, <3>2 DEF SetInv, Kind
    <3> HIDE DEF h
    <3>4. ConfiguredAsAsked'
      BY <2>1, <3>1, <3>3 DEF ConfiguredAsAsked
    <3>5. SetInv'
      BY <1>6, <2>1, OthersKeep DEF SetInv, Dev, Kind, Proceed
    <3>6. \A u \in Threads \ {t} : call[u].op = "open" => h.dev # Dev(u)
      BY <2>2, <3>2 DEF AloneInv
    <3>7. CurrentInv'
      BY <1>6, <2>1, <3>1, <3>6, OthersKeep, CallFacts DEF CurrentInv, Dev, Proceed
    <3> QED
      BY <3>4, <3>5, <3>7
  <2>3. CASE ~(call[t].op = "open" /\ ret[t] # -1)
    <3>1. current' = current
      BY <1>6, <2>3 DEF Leave
    <3> QED
      BY <1>6, <2>1, <3>1, OthersKeep, CallFacts, ConfKept DEF Proceed
  <2> QED
    BY <2>2, <2>3
<1>7. CASE OtherOpen \/ OtherClose \/ UNCHANGED vars
  BY <1>7, ConfKept DEF OtherOpen, OtherClose, vars, locals
<1> QED
  BY <1>1, <1>2, <1>3, <1>4, <1>5, <1>6, <1>7, Steps DEF Proceed

\* spi.c:234-236, uart.c:104-110: a device has all the settings its open asked for as
\* long as Java holds the handle and no other open of it is tried, when one thread at
\* a time opens it: opens of other devices, failed ones included, do not disturb it.
THEOREM ConfiguredAsAskedHolds ==
  ASSUME HandlesAssumption, OpenedByOne
  PROVE  Spec => []ConfiguredAsAsked
<1>1. Init => ConfInv
  <2>1. Init => AloneInv /\ SetInv /\ CurrentInv /\ ConfiguredAsAsked
    BY CallFacts DEF Init, AloneInv, SetInv, CurrentInv, ConfiguredAsAsked
  <2> QED
    BY <2>1, InvInit DEF ConfInv
<1>2. ConfInv /\ [Next]_vars => ConfInv'
  BY InvNext, AloneNext, ConfNext DEF ConfInv
<1>3. ConfInv => ConfiguredAsAsked
  BY DEF ConfInv
<1> QED
  BY <1>1, <1>2, <1>3, PTL DEF Spec
=============================================================================
