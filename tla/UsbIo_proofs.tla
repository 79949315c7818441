---------------------------- MODULE UsbIo_proofs ----------------------------
(***************************************************************************)
(* Proofs about the event handling of libusb: for every set of threads,    *)
(* whatever the timeouts, the closes, the failures of poll and the         *)
(* unplugging, the event pipe has a byte exactly when there is a reason    *)
(* for one, no polled descriptor is closed under the handler, and the      *)
(* references to the device are those of its holders.                      *)
(*                                                                         *)
(* The properties hold by an invariant, Inv, that says more: which places  *)
(* of the code hold which lock, where a transfer stands while its caller   *)
(* is somewhere in the code, and who has learned that the device has left. *)
(* Each part of it is kept by a lemma of its own; they rest on lemmas that *)
(* say which steps change a variable, and how. The last part of the module *)
(* shows that UsbCalls is implemented.                                     *)
(***************************************************************************)
EXTENDS UsbIo, FiniteSetTheorems, SequenceTheorems, WellFoundedInduction, TLAPS

-----------------------------------------------------------------------------
(* Lists and numbers. *)

\* A set of numbers that is not empty has a least one.
LEMMA MinIsLeast ==
  ASSUME NEW T \in SUBSET Nat, T # {}
  PROVE  Min(T) \in T /\ \A n \in T : Min(T) <= n
<1> DEFINE R == {ss \in Nat \X Nat : ss[1] < ss[2]}
<1>1. IsWellFoundedOn(R, Nat)
  BY NatLessThanWellFounded DEF OpToRel
<1>2. \E n \in T : \A m \in T : ~ (<<m, n>> \in R)
  <2> HIDE DEF R
  <2> QED BY <1>1, WFMin
<1>3. \A m, n \in Nat : m < n => <<m, n>> \in R
  OBVIOUS
<1> HIDE DEF R
<1>4. \E n \in T : \A m \in T : n <= m
  <2>1. PICK n \in T : \A m \in T : ~ (<<m, n>> \in R)
    BY <1>2
  <2>2. n \in Nat /\ T \subseteq Nat
    OBVIOUS
  <2>3. ASSUME NEW m \in T PROVE n <= m
    <3>1. m \in Nat /\ ~(m < n)
      BY <1>3, <2>1, <2>2
    <3> QED
      BY <3>1, <2>2
  <2> QED
    BY <2>2, <2>3
<1> QED
  BY <1>4 DEF Min

\* Without takes one entry out.
LEMMA WithoutFacts ==
  ASSUME NEW S, NEW s \in Seq(S), NEW x
  PROVE  /\ Without(s, x) \in Seq(S)
         /\ IsInjective(s) => /\ IsInjective(Without(s, x))
                              /\ Range(Without(s, x)) = Range(s) \ {x}
<1>0. DOMAIN s = 1 .. Len(s) /\ Len(s) \in Nat /\ \A i \in 1 .. Len(s) : s[i] \in S
  BY LenProperties, ElementOfSeq
<1>1. CASE x \notin Range(s)
  BY <1>1 DEF Without
<1>2. CASE x \in Range(s)
  <2> DEFINE k == CHOOSE i \in DOMAIN s : s[i] = x
             n == Len(s)
             a == SubSeq(s, 1, k-1)
             b == SubSeq(s, k+1, n)
  <2>1. k \in 1 .. n /\ s[k] = x
    BY <1>2, <1>0 DEF Range
  <2>2. Without(s, x) = a \o b
    BY <1>2 DEF Without, RemoveAt
  <2> HIDE DEF k
  <2>3. a \in Seq(S) /\ Len(a) = k-1 /\ \A i \in 1 .. k-1 : a[i] = s[i]
    BY <1>0, <2>1, SubSeqProperties
  <2>4. b \in Seq(S) /\ Len(b) = n-k /\ \A i \in 1 .. n-k : b[i] = s[k+i]
    <3>1. k+1 \in Int /\ n \in Int /\ \A i \in k+1 .. n : s[i] \in S
      BY <1>0, <2>1
    <3>2. /\ b \in Seq(S)
          /\ Len(b) = IF k+1 <= n THEN n-(k+1)+1 ELSE 0
          /\ \A i \in 1 .. n-(k+1)+1 : b[i] = s[(k+1)+i-1]
      BY <3>1, SubSeqProperties
    <3> HIDE DEF n, b
    <3>0. n \in Nat /\ k \in 1 .. n
      BY <1>0, <2>1 DEF n
    <3>3. n-(k+1)+1 = n-k /\ (k+1 <= n \/ n-k = 0)
      BY <3>0
    <3>4. \A i \in 1 .. n-k : (k+1)+i-1 = k+i
      BY <3>0
    <3>5. Len(b) = n-k
      BY <3>2, <3>3
    <3>6. \A i \in 1 .. n-k : b[i] = s[k+i]
      BY <3>2, <3>3, <3>4
    <3> QED
      BY <3>2, <3>5, <3>6
  <2> DEFINE c == a \o b
  <2> HIDE DEF a, b
  <2>5. /\ c \in Seq(S) /\ Len(c) = n-1
        /\ \A i \in 1 .. n-1 : c[i] = IF i < k THEN s[i] ELSE s[i+1]
    <3>1. /\ c \in Seq(S) /\ Len(c) = Len(a) + Len(b)
          /\ \A i \in 1 .. Len(a)+Len(b) : c[i] = IF i <= Len(a) THEN a[i] ELSE b[i - Len(a)]
      BY <2>3, <2>4, ConcatProperties
    <3> HIDE DEF c
    <3>2. Len(a) + Len(b) = n-1
      BY <2>1, <2>3, <2>4, <1>0
    <3>3. ASSUME NEW i \in 1 .. n-1, i < k PROVE c[i] = s[i]
      <4>1. i <= Len(a) /\ i \in 1 .. k-1
        BY <3>3, <2>1, <2>3, <1>0
      <4>2. a[i] = s[i] /\ c[i] = a[i]
        BY <4>1, <3>1, <3>2, <2>3
      <4> QED
        BY <4>2
    <3>4. ASSUME NEW i \in 1 .. n-1, i >= k PROVE c[i] = s[i+1]
      <4>1. i - Len(a) \in 1 .. n-k /\ k + (i - Len(a)) = i+1 /\ ~(i <= Len(a))
        BY <3>4, <2>1, <2>3, <1>0
      <4>2. b[i - Len(a)] = s[k + (i - Len(a))]
        BY <4>1, <2>4
      <4>3. c[i] = b[i - Len(a)]
        BY <4>1, <3>1, <3>2
      <4> QED
        BY <4>1, <4>2, <4>3
    <3> QED
      BY <3>1, <3>2, <3>3, <3>4, <2>1, <1>0
  <2> HIDE DEF c
  <2>6. DOMAIN c = 1 .. n-1
    BY <2>5, LenProperties
  <2>7. ASSUME IsInjective(s) PROVE IsInjective(c)
    <3>1. \A i, j \in 1 .. n : s[i] = s[j] => i = j
      BY <2>7, <1>0 DEF IsInjective
    <3> QED
      BY <3>1, <2>5, <2>6, <2>1, <1>0 DEF IsInjective
  <2>8. ASSUME IsInjective(s) PROVE Range(c) = Range(s) \ {x}
    <3>1. \A i, j \in 1 .. n : s[i] = s[j] => i = j
      BY <2>8, <1>0 DEF IsInjective
    <3>2. ASSUME NEW y \in Range(c) PROVE y \in Range(s) \ {x}
      <4>1. PICK i \in 1 .. n-1 : y = c[i]
        BY <2>6 DEF Range
      <4> DEFINE j == IF i < k THEN i ELSE i+1
      <4>2. j \in 1 .. n /\ j # k /\ y = s[j]
        BY <4>1, <2>5, <2>1, <1>0
      <4> HIDE DEF j
      <4> QED
        BY <4>2, <3>1, <2>1, <1>0 DEF Range
    <3>3. ASSUME NEW y \in Range(s) \ {x} PROVE y \in Range(c)
      <4>1. PICK i \in 1 .. n : y = s[i]
        BY <1>0 DEF Range
      <4>2. i # k
        BY <4>1, <2>1
      <4>3. CASE i < k
        <5>1. i \in 1 .. n-1 /\ c[i] = y
          BY <4>3, <4>1, <2>1, <2>5, <1>0
        <5> QED BY <5>1, <2>6 DEF Range
      <4>4. CASE i > k
        <5>1. i-1 \in 1 .. n-1 /\ c[i-1] = y
          BY <4>4, <4>1, <2>1, <2>5, <1>0
        <5> QED BY <5>1, <2>6 DEF Range
      <4> QED
        BY <4>2, <4>3, <4>4, <2>1
    <3> QED
      BY <3>2, <3>3
  <2> QED
    BY <2>2, <2>5, <2>7, <2>8 DEF c
<1> QED
  BY <1>1, <1>2

\* InsertAt puts one entry in.
LEMMA InsertFacts ==
  ASSUME NEW S, NEW s \in Seq(S), NEW x \in S, NEW k \in 1 .. Len(s)+1
  PROVE  /\ InsertAt(s, k, x) \in Seq(S)
         /\ Range(InsertAt(s, k, x)) = Range(s) \cup {x}
         /\ IsInjective(s) /\ x \notin Range(s) => IsInjective(InsertAt(s, k, x))
<1> DEFINE n == Len(s)
           a == SubSeq(s, 1, k-1)
           b == SubSeq(s, k, n)
           d == a \o <<x>>
           c == d \o b
<1>0. DOMAIN s = 1 .. n /\ n \in Nat /\ \A i \in 1 .. n : s[i] \in S
  BY LenProperties, ElementOfSeq
<1>1. a \in Seq(S) /\ Len(a) = k-1 /\ \A i \in 1 .. k-1 : a[i] = s[i]
  BY <1>0, SubSeqProperties
<1>2. b \in Seq(S) /\ Len(b) = n-k+1 /\ \A i \in 1 .. n-k+1 : b[i] = s[k+i-1]
  BY <1>0, SubSeqProperties
<1>3. <<x>> \in Seq(S) /\ Len(<<x>>) = 1 /\ <<x>>[1] = x
  OBVIOUS
<1> DEFINE o == <<x>>
<1> HIDE DEF a, b, o
<1>4. d \in Seq(S) /\ Len(d) = k /\ \A i \in 1 .. k : d[i] = IF i < k THEN s[i] ELSE x
  <2>1. /\ (a \o o) \in Seq(S) /\ Len(a \o o) = Len(a) + Len(o)
        /\ \A i \in 1 .. Len(a)+Len(o) : (a \o o)[i] = IF i <= Len(a) THEN a[i] ELSE o[i - Len(a)]
    BY <1>1, <1>3, ConcatProperties DEF o
  <2>2. d = a \o o
    BY DEF o
  <2> HIDE DEF d
  <2>3. Len(o) = 1 /\ o[1] = x
    BY <1>3 DEF o
  <2> QED
    BY <2>1, <2>2, <2>3, <1>0, <1>1
<1> HIDE DEF d
<1>5. /\ c \in Seq(S) /\ Len(c) = n+1
      /\ \A i \in 1 .. n+1 : c[i] = IF i < k THEN s[i] ELSE IF i = k THEN x ELSE s[i-1]
  <2>1. /\ c \in Seq(S) /\ Len(c) = Len(d) + Len(b)
        /\ \A i \in 1 .. Len(d)+Len(b) : c[i] = IF i <= Len(d) THEN d[i] ELSE b[i - Len(d)]
    BY <1>4, <1>2, ConcatProperties
  <2> QED
    BY <2>1, <1>0, <1>2, <1>4
<1>6. InsertAt(s, k, x) = c
  BY DEF InsertAt, a, b, d
<1> HIDE DEF c
<1>7. DOMAIN c = 1 .. n+1
  BY <1>5, LenProperties
<1>8. Range(c) = Range(s) \cup {x}
  <2>1. ASSUME NEW y \in Range(c) PROVE y \in Range(s) \cup {x}
    <3>1. PICK i \in 1 .. n+1 : y = c[i]
      BY <1>7 DEF Range
    <3> QED
      BY <3>1, <1>5, <1>0 DEF Range
  <2>2. x \in Range(c)
    <3>1. k \in DOMAIN c /\ c[k] = x
      BY <1>5, <1>7, <1>0
    <3> QED BY <3>1 DEF Range
  <2>3. ASSUME NEW y \in Range(s) PROVE y \in Range(c)
    <3>1. PICK i \in 1 .. n : y = s[i]
      BY <1>0 DEF Range
    <3>2. CASE i < k
      <4>1. i \in DOMAIN c /\ c[i] = y
        BY <3>1, <3>2, <1>5, <1>7, <1>0
      <4> QED BY <4>1 DEF Range
    <3>3. CASE i >= k
      <4>1. i+1 \in DOMAIN c /\ c[i+1] = y
        BY <3>1, <3>3, <1>5, <1>7, <1>0
      <4> QED BY <4>1 DEF Range
    <3> QED
      BY <3>2, <3>3
  <2> QED
    BY <2>1, <2>2, <2>3
<1>9. ASSUME IsInjective(s), x \notin Range(s) PROVE IsInjective(c)
  <2>1. \A i, j \in 1 .. n : s[i] = s[j] => i = j
    BY <1>9, <1>0 DEF IsInjective
  <2>2. \A i \in 1 .. n : s[i] # x
    BY <1>9, <1>0 DEF Range
  <2> QED
    BY <2>1, <2>2, <1>5, <1>7, <1>0 DEF IsInjective
<1> QED
  BY <1>5, <1>6, <1>8, <1>9

-----------------------------------------------------------------------------
(* The types of the variables. *)

DataType == [close : Int, pollfds : SUBSET Threads, modified : BOOLEAN, msgs : Nat, pipe : Int]
LockType == [events : Threads \cup {Nobody}, depth : 0 .. 2, active : BOOLEAN,
             waiters : Threads \cup {Nobody}, flying : Threads \cup {Nobody},
             open : Threads \cup {Nobody}]

\* TypeOK, but for the counters, which the other parts of the invariant keep from
\* becoming negative.
TypeInv ==
  /\ plugged \in BOOLEAN /\ attached \in BOOLEAN /\ refs \in Int
  /\ data \in DataType
  /\ lock \in LockType
  /\ sleeping \subseteq Threads
  /\ flying \in Seq(Threads) /\ due \in Seq(Timed)
  /\ openDevs \subseteq Threads /\ expired \subseteq Timed
  /\ xfer \in [Threads -> Transfer]
  /\ pc \in [Threads -> Places] /\ loc \in [Threads -> Locals]

-----------------------------------------------------------------------------
(* What the actions do to the records, field by field. *)

\* usbi_signal_event: the byte is written when nothing was pending.
LEMMA SignalEffect ==
  ASSUME data \in DataType, NEW d \in DataType, Signal(d)
  PROVE  /\ data' \in DataType
         /\ data'.close = d.close /\ data'.pollfds = d.pollfds
         /\ data'.modified = d.modified /\ data'.msgs = d.msgs
         /\ data'.pipe = IF Pending(data) THEN d.pipe ELSE d.pipe + 1
BY DEF Signal, DataType

\* usbi_clear_event: the byte is read when nothing is pending any more.
LEMMA ClearEffect ==
  ASSUME NEW d \in DataType, Clear(d)
  PROVE  /\ data' \in DataType
         /\ data'.close = d.close /\ data'.pollfds = d.pollfds
         /\ data'.modified = d.modified /\ data'.msgs = d.msgs
         /\ data'.pipe = IF Pending(d) THEN d.pipe ELSE d.pipe - 1
BY DEF Clear, DataType

\* usbi_add_pollfd
LEMMA AddPollfdEffect ==
  ASSUME data \in DataType, NEW f \in Threads, AddPollfd(f)
  PROVE  /\ data' \in DataType
         /\ data'.close = data.close /\ data'.pollfds = data.pollfds \cup {f}
         /\ data'.modified /\ data'.msgs = data.msgs
         /\ data'.pipe = IF Pending(data) THEN data.pipe ELSE data.pipe + 1
<1>1. PICK d : d = [data EXCEPT !.pollfds = @ \cup {f}, !.modified = TRUE]
  OBVIOUS
<1>2. /\ d \in DataType /\ d.close = data.close /\ d.pollfds = data.pollfds \cup {f}
      /\ d.modified /\ d.msgs = data.msgs /\ d.pipe = data.pipe
  BY <1>1 DEF DataType
<1>3. Signal(d)
  BY <1>1 DEF AddPollfd
<1> QED
  BY <1>2, <1>3, SignalEffect

\* usbi_remove_pollfd
LEMMA RemovePollfdEffect ==
  ASSUME data \in DataType, NEW f, RemovePollfd(f)
  PROVE  /\ data' \in DataType
         /\ data'.close = data.close /\ data'.pollfds = data.pollfds \ {f}
         /\ data'.msgs = data.msgs
         /\ \/ data' = data
            \/ data'.modified /\ data'.pipe = IF Pending(data) THEN data.pipe ELSE data.pipe + 1
<1>1. CASE f \in data.pollfds
  <2>1. PICK d : d = [data EXCEPT !.pollfds = @ \ {f}, !.modified = TRUE]
    OBVIOUS
  <2>2. /\ d \in DataType /\ d.close = data.close /\ d.pollfds = data.pollfds \ {f}
        /\ d.modified /\ d.msgs = data.msgs /\ d.pipe = data.pipe
    BY <2>1 DEF DataType
  <2>3. Signal(d)
    BY <1>1, <2>1 DEF RemovePollfd
  <2> QED
    BY <2>2, <2>3, SignalEffect
<1>2. CASE f \notin data.pollfds
  BY <1>2 DEF RemovePollfd
<1> QED
  BY <1>1, <1>2

\* usbi_disconnect_device
LEMMA DeviceLeavesEffect ==
  ASSUME data \in DataType, attached \in BOOLEAN, DeviceLeaves
  PROVE  /\ data' \in DataType /\ ~attached'
         /\ data'.close = data.close /\ data'.pollfds = data.pollfds
         /\ \/ ~attached /\ data' = data
            \/ /\ attached /\ data'.modified = data.modified /\ data'.msgs = data.msgs + 1
               /\ data'.pipe = IF Pending(data) THEN data.pipe ELSE data.pipe + 1
<1>1. CASE attached
  <2>1. PICK d : d = [data EXCEPT !.msgs = @ + 1]
    OBVIOUS
  <2>2. /\ d \in DataType /\ d.close = data.close /\ d.pollfds = data.pollfds
        /\ d.modified = data.modified /\ d.msgs = data.msgs + 1 /\ d.pipe = data.pipe
    BY <2>1 DEF DataType
  <2>3. Signal(d)
    BY <1>1, <2>1 DEF DeviceLeaves
  <2> QED
    BY <1>1, <2>2, <2>3, SignalEffect DEF DeviceLeaves
<1>2. CASE ~attached
  BY <1>2 DEF DeviceLeaves
<1> QED
  BY <1>1, <1>2

\* libusb_close, before the lock.
LEMMA CloseEffect ==
  ASSUME data \in DataType, NEW t, Close(t)
  PROVE  /\ data' \in DataType
         /\ data'.close = data.close + 1 /\ data'.pollfds = data.pollfds
         /\ data'.modified = data.modified /\ data'.msgs = data.msgs
         /\ data'.pipe = IF Pending(data) THEN data.pipe ELSE data.pipe + 1
<1>1. PICK d : d = [data EXCEPT !.close = @ + 1]
  OBVIOUS
<1>2. /\ d \in DataType /\ d.close = data.close + 1 /\ d.pollfds = data.pollfds
      /\ d.modified = data.modified /\ d.msgs = data.msgs /\ d.pipe = data.pipe
  BY <1>1 DEF DataType
<1>3. Signal(d)
  BY <1>1 DEF Close
<1> QED
  BY <1>2, <1>3, SignalEffect

\* libusb_close, after do_close.
LEMMA ClosedEffect ==
  ASSUME data \in DataType, NEW t, Closed(t)
  PROVE  /\ data' \in DataType
         /\ data'.close = data.close - 1 /\ data'.pollfds = data.pollfds
         /\ data'.modified = data.modified /\ data'.msgs = data.msgs
         /\ data'.pipe = IF data.close - 1 > 0 \/ data.modified \/ data.msgs > 0
                         THEN data.pipe ELSE data.pipe - 1
<1>1. PICK d : d = [data EXCEPT !.close = @ - 1]
  OBVIOUS
<1>2. /\ d \in DataType /\ d.close = data.close - 1 /\ d.pollfds = data.pollfds
      /\ d.modified = data.modified /\ d.msgs = data.msgs /\ d.pipe = data.pipe
  BY <1>1 DEF DataType
<1>3. Clear(d)
  BY <1>1 DEF Closed
<1> QED
  BY <1>2, <1>3, ClearEffect DEF Pending

\* handle_events, the set of descriptors.
LEMMA RebuildEffect ==
  ASSUME data \in DataType, NEW t, Rebuild(t)
  PROVE  /\ data' \in DataType
         /\ data'.close = data.close /\ data'.pollfds = data.pollfds
         /\ ~data'.modified /\ data'.msgs = data.msgs
         /\ data'.pipe = IF ~data.modified \/ data.close > 0 \/ data.msgs > 0
                         THEN data.pipe ELSE data.pipe - 1
<1>1. CASE data.modified
  <2>1. PICK d : d = [data EXCEPT !.modified = FALSE]
    OBVIOUS
  <2>2. /\ d \in DataType /\ d.close = data.close /\ d.pollfds = data.pollfds
        /\ ~d.modified /\ d.msgs = data.msgs /\ d.pipe = data.pipe
    BY <2>1 DEF DataType
  <2>3. Clear(d)
    BY <1>1, <2>1 DEF Rebuild
  <2> QED
    BY <1>1, <2>2, <2>3, ClearEffect DEF Pending
<1>2. CASE ~data.modified
  BY <1>2 DEF Rebuild, DataType
<1> QED
  BY <1>1, <1>2

\* handle_events, the event pipe.
LEMMA PipeEffect ==
  ASSUME data \in DataType, NEW t, Pipe(t)
  PROVE  /\ data' \in DataType
         /\ data'.close = data.close /\ data'.pollfds = data.pollfds
         /\ data'.modified = data.modified
         /\ data'.msgs = IF data.msgs = 0 THEN 0 ELSE data.msgs - 1
         /\ data'.pipe = IF data.close > 0 \/ data.modified \/ data'.msgs > 0
                         THEN data.pipe ELSE data.pipe - 1
<1>1. PICK d : d = [data EXCEPT !.msgs = IF @ = 0 THEN 0 ELSE @ - 1]
  OBVIOUS
<1>2. /\ d \in DataType /\ d.close = data.close /\ d.pollfds = data.pollfds
      /\ d.modified = data.modified /\ d.pipe = data.pipe
      /\ d.msgs = IF data.msgs = 0 THEN 0 ELSE data.msgs - 1
  BY <1>1 DEF DataType
<1>3. Clear(d)
  BY <1>1 DEF Pipe
<1> QED
  BY <1>2, <1>3, ClearEffect DEF Pending

\* Few steps take the events lock or release it, or the lock of the flying transfers.
LEMMA TryLockEffect ==
  ASSUME lock \in LockType, NEW t \in Threads, TryLock(t)
  PROVE  /\ lock' \in LockType /\ lock'.flying = lock.flying
         /\ \/ lock.events = Nobody /\ lock'.events = t /\ Goto(t, IF xfer[t].completed THEN "unlock" ELSE "rebuild")
            \/ lock'.events = lock.events /\ Goto(t, "waiters")
<1>0. 0 \in 0 .. 2 /\ 1 \in 0 .. 2 /\ 2 \in 0 .. 2
  OBVIOUS
<1>1. PICK m : m = [lock EXCEPT !.events = t, !.depth = 1, !.active = TRUE]
  OBVIOUS
<1>2. m \in LockType /\ m.events = t /\ m.flying = lock.flying
  BY <1>1, <1>0 DEF LockType
<1>3. \/ lock.events = Nobody /\ lock' = m /\ Goto(t, IF xfer[t].completed THEN "unlock" ELSE "rebuild")
      \/ Goto(t, "waiters") /\ UNCHANGED lock
  BY <1>1 DEF TryLock
<1> QED
  BY <1>2, <1>3

\* A close takes the events lock.
LEMMA LockEventsEffect ==
  ASSUME lock \in LockType, NEW t \in Threads, LockEvents(t)
  PROVE  lock' \in LockType /\ lock'.events = t /\ lock'.flying = lock.flying
<1>0. 0 \in 0 .. 2 /\ 1 \in 0 .. 2 /\ 2 \in 0 .. 2
  OBVIOUS
<1>1. PICK m : m = [lock EXCEPT !.events = t, !.depth = 2, !.active = TRUE]
  OBVIOUS
<1>2. m \in LockType /\ m.events = t /\ m.flying = lock.flying
  BY <1>1, <1>0 DEF LockType
<1> QED
  BY <1>1, <1>2 DEF LockEvents

\* libusb_unlock_events
LEMMA ReleaseEventsEffect ==
  ASSUME lock \in LockType, NEW t \in Threads, ReleaseEvents(t)
  PROVE  lock' \in LockType /\ lock'.events = Nobody /\ lock'.flying = lock.flying
<1>0. 0 \in 0 .. 2 /\ 1 \in 0 .. 2 /\ 2 \in 0 .. 2
  OBVIOUS
<1>1. PICK m : m = [lock EXCEPT !.active = FALSE, !.depth = 0, !.events = Nobody]
  OBVIOUS
<1>2. m \in LockType /\ m.events = Nobody /\ m.flying = lock.flying
  BY <1>1, <1>0 DEF LockType
<1> QED
  BY <1>1, <1>2 DEF ReleaseEvents

\* do_close releases the lock once: libusb_close still has it.
LEMMA SweepEffect ==
  ASSUME lock \in LockType, NEW t \in Threads, Sweep(t)
  PROVE  lock' \in LockType /\ lock'.events = lock.events /\ lock'.flying = lock.flying
<1>0. 0 \in 0 .. 2 /\ 1 \in 0 .. 2 /\ 2 \in 0 .. 2
  OBVIOUS
<1>1. PICK m : m = [lock EXCEPT !.active = FALSE, !.depth = 1]
  OBVIOUS
<1>2. m \in LockType /\ m.events = lock.events /\ m.flying = lock.flying
  BY <1>1, <1>0 DEF LockType
<1> QED
  BY <1>1, <1>2 DEF Sweep

\* handle_timeouts takes the lock of the flying transfers ...
LEMMA LockFlyingEffect ==
  ASSUME lock \in LockType, NEW t \in Threads, LockFlying(t)
  PROVE  lock' \in LockType /\ lock'.events = lock.events /\ lock'.flying = t
BY DEF LockFlying, LockType

\* ... and releases it at the end of the search.
LEMMA NextFlyingEffect ==
  ASSUME lock \in LockType, NEW t \in Threads, loc[t].at \in Nat, Len(flying) \in Nat, NextFlying(t)
  PROVE  /\ lock' \in LockType /\ lock'.events = lock.events
         /\ \/ /\ lock'.flying = Nobody
               /\ Goto(t, IF lock.events = t THEN "unlock" ELSE "wait")
            \/ /\ lock'.flying = lock.flying /\ loc[t].at <= Len(flying)
               /\ \/ UNCHANGED pc /\ loc' = [loc EXCEPT ![t].at = @ + 1]
                  \/ /\ loc' = [loc EXCEPT ![t].seen = xfer[flying[loc[t].at]].flags]
                     /\ Goto(t, "mark")
<1> DEFINE i == loc[t].at
           x == flying[i]
           Over == i > Len(flying) \/ x \notin Timed \/ ("TIMED_OUT" \notin xfer[x].flags /\ x \notin expired)
<1>1. CASE Over
  <2>1. lock' = [lock EXCEPT !.flying = Nobody] /\ Goto(t, IF lock.events = t THEN "unlock" ELSE "wait")
    BY <1>1 DEF NextFlying
  <2> QED
    BY <2>1 DEF LockType
<1>2. CASE ~Over
  <2>1. /\ UNCHANGED lock
        /\ \/ UNCHANGED pc /\ loc' = [loc EXCEPT ![t].at = @ + 1]
           \/ loc' = [loc EXCEPT ![t].seen = xfer[x].flags] /\ Goto(t, "mark")
    BY <1>2 DEF NextFlying
  <2> QED
    BY <1>2, <2>1
<1> QED
  BY <1>1, <1>2

\* The other locks are neither of the two.
LEMMA OtherLocksEffect ==
  ASSUME lock \in LockType, NEW t \in Threads,
         LockWaiters(t) \/ CheckActive(t) \/ Sleep(t) \/ Dispatch(t) \/ HandlesServed(t)
  PROVE  lock' \in LockType /\ lock'.events = lock.events /\ lock'.flying = lock.flying
BY DEF LockWaiters, CheckActive, Sleep, Dispatch, HandlesServed, LockType

\* One thread's variables change at a time.
LEMMA LocAt ==
  ASSUME loc \in [Threads -> Locals], NEW t \in Threads, NEW r \in Locals,
         loc' = [loc EXCEPT ![t] = r]
  PROVE  /\ loc' \in [Threads -> Locals] /\ loc'[t] = r
         /\ \A u \in Threads : u # t => loc'[u] = loc[u]
OBVIOUS

\* A thread outside the loop has nothing to poll, and no transfer to end.
LEMMA NoLocalsFields ==
  /\ NoLocals \in Locals /\ NoLocals.fds = {} /\ NoLocals.ready = {} /\ ~NoLocals.gone
  /\ NoLocals.cur = Nobody /\ NoLocals.at = 0 /\ NoLocals.seen = {}
BY DEF NoLocals, Locals, None, Nobody

\* handle_events takes the descriptors to poll.
LEMMA RebuildLocals ==
  ASSUME loc \in [Threads -> Locals], NEW t \in Threads, data \in DataType, Rebuild(t)
  PROVE  /\ loc' \in [Threads -> Locals]
         /\ \A u \in Threads : u # t => loc'[u] = loc[u]
         /\ loc'[t].ready = loc[t].ready /\ loc'[t].gone = loc[t].gone /\ loc'[t].cur = loc[t].cur
         /\ loc'[t].at = loc[t].at /\ loc'[t].seen = loc[t].seen /\ loc'[t].fds = data.pollfds
<1>1. PICK r : r = [loc[t] EXCEPT !.fds = data.pollfds]
  OBVIOUS
<1>2. /\ r \in Locals /\ r.ready = loc[t].ready /\ r.gone = loc[t].gone /\ r.cur = loc[t].cur
      /\ r.at = loc[t].at /\ r.seen = loc[t].seen /\ r.fds = data.pollfds
  BY <1>1 DEF Locals, DataType
<1>3. loc' = [loc EXCEPT ![t] = r]
  BY <1>1 DEF Rebuild
<1> QED
  BY <1>2, <1>3, LocAt

\* What is ready is polled, and without the device all is.
LEMMA ReadyFdsFacts ==
  ASSUME NEW S
  PROVE  ReadyFds(S) \subseteq S /\ (~plugged => ReadyFds(S) = S)
BY DEF ReadyFds

\* poll tells what is ready, and whether the device is gone.
LEMMA PollEffect ==
  ASSUME loc \in [Threads -> Locals], NEW t \in Threads, plugged \in BOOLEAN, Poll(t)
  PROVE  /\ loc' \in [Threads -> Locals]
         /\ \A u \in Threads : u # t => loc'[u] = loc[u]
         /\ loc'[t].fds = loc[t].fds /\ loc'[t].cur = loc[t].cur
         /\ loc'[t].ready \subseteq loc[t].fds /\ loc'[t].gone = ~plugged
<1>1. PICK l, g, R : l = loc[t] /\ l \in Locals /\ g = ~plugged /\ g \in BOOLEAN /\ R = ReadyFds(loc[t].fds)
  OBVIOUS
<1>2. l.fds \in SUBSET Threads
  BY <1>1 DEF Locals
<1>3. R \subseteq l.fds /\ R \in SUBSET Threads
  BY <1>1, <1>2, ReadyFdsFacts
<1>4. PICK r : r = [l EXCEPT !.ready = R, !.gone = g, !.special = FALSE]
  OBVIOUS
<1>5. r \in Locals /\ r.fds = l.fds /\ r.cur = l.cur /\ r.ready = R /\ r.gone = g
  BY <1>1, <1>3, <1>4 DEF Locals
<1>6. loc' = [loc EXCEPT ![t] = r]
  BY <1>1, <1>4 DEF Poll
<1> QED
  BY <1>1, <1>3, <1>5, <1>6, LocAt

\* The event pipe is read: another poll, the descriptors, or the end.
LEMMA PipeLocals ==
  ASSUME data \in DataType, loc \in [Threads -> Locals], NEW t \in Threads, Pipe(t)
  PROVE  /\ loc' \in [Threads -> Locals]
         /\ \A u \in Threads : u # t => loc'[u] = loc[u]
         /\ \/ Goto(t, "unlock") /\ ~loc'[t].gone
            \/ /\ Goto(t, "dispatch") \/ Goto(t, "poll")
               /\ loc'[t].fds = loc[t].fds /\ loc'[t].ready = loc[t].ready
               /\ loc'[t].gone = loc[t].gone /\ loc'[t].cur = loc[t].cur
<1>0. (data.msgs > 0) \in BOOLEAN
  BY DEF DataType
<1>1. PICK special \in BOOLEAN : special = (data.msgs > 0)
  BY <1>0
<1> DEFINE next == IF loc[t].ready # {} THEN "dispatch" ELSE IF special THEN "poll" ELSE "unlock"
           until == IF special THEN "now" ELSE loc[t].until
<1>2. PICK l, r : l \in Locals /\ l = loc[t] /\ r = [l EXCEPT !.special = special, !.until = until]
  OBVIOUS
<1>3. Goto(t, next) /\ loc' = [loc EXCEPT ![t] = IF next = "unlock" THEN NoLocals ELSE r]
  <2>1. r = [loc[t] EXCEPT !.special = special, !.until = IF special THEN "now" ELSE @]
    BY <1>2
  <2>2. Goto(t, next)
    BY <1>1 DEF Pipe
  <2>3. loc' = [loc EXCEPT ![t] = IF next = "unlock" THEN NoLocals
                                  ELSE [loc[t] EXCEPT !.special = special, !.until = IF special THEN "now" ELSE @]]
    BY <1>1 DEF Pipe
  <2> QED
    BY <2>1, <2>2, <2>3
<1>4. /\ r \in Locals /\ r.fds = loc[t].fds /\ r.ready = loc[t].ready
      /\ r.gone = loc[t].gone /\ r.cur = loc[t].cur
  <2>1. until \in Threads \cup {"never", "now"}
    BY <1>2 DEF Locals
  <2> HIDE DEF until
  <2> QED
    BY <1>2, <2>1 DEF Locals
<1>5. CASE next = "unlock"
  BY <1>3, <1>5, LocAt, NoLocalsFields
<1>6. CASE next # "unlock"
  <2>1. loc' = [loc EXCEPT ![t] = r] /\ (Goto(t, "dispatch") \/ Goto(t, "poll"))
    BY <1>3, <1>6
  <2> QED
    BY <1>4, <2>1, LocAt
<1> QED
  BY <1>5, <1>6

\* op_handle_events takes one of the descriptors that are ready.
LEMMA NextHandleLocals ==
  ASSUME loc \in [Threads -> Locals], NEW t \in Threads, NextHandle(t)
  PROVE  /\ loc' \in [Threads -> Locals]
         /\ \A u \in Threads : u # t => loc'[u] = loc[u]
         /\ loc'[t].fds = loc[t].fds /\ loc'[t].gone = loc[t].gone
         /\ \E f \in loc[t].ready :
              /\ loc'[t].ready = loc[t].ready \ {f} /\ loc'[t].cur = f
              /\ \/ UNCHANGED <<data, pc>>
                 \/ f \in openDevs /\ loc[t].gone /\ RemovePollfd(f) /\ Goto(t, "scan")
                 \/ f \in openDevs /\ ~loc[t].gone /\ UNCHANGED data /\ Goto(t, "reap")
<1>1. PICK f \in loc[t].ready :
        /\ loc' = [loc EXCEPT ![t].ready = @ \ {f}, ![t].cur = f]
        /\ IF f \notin openDevs THEN UNCHANGED <<data, pc>>
           ELSE IF loc[t].gone THEN RemovePollfd(f) /\ Goto(t, "scan")
           ELSE UNCHANGED data /\ Goto(t, "reap")
  BY DEF NextHandle
<1>2. PICK l, R, r : l \in Locals /\ l = loc[t] /\ R = l.ready \ {f} /\ r = [l EXCEPT !.ready = R, !.cur = f]
  OBVIOUS
<1>3. /\ r \in Locals /\ r.fds = loc[t].fds /\ r.gone = loc[t].gone
      /\ r.ready = loc[t].ready \ {f} /\ r.cur = f
  <2>1. R \in SUBSET Threads /\ f \in Threads
    BY <1>2 DEF Locals
  <2> QED
    BY <1>2, <2>1 DEF Locals
<1>4. loc' = [loc EXCEPT ![t] = r]
  <2>1. r = [loc[t] EXCEPT !.ready = @ \ {f}, !.cur = f]
    BY <1>2
  <2> QED
    BY <1>1, <2>1
<1>5. /\ loc' \in [Threads -> Locals] /\ loc'[t] = r
      /\ \A u \in Threads : u # t => loc'[u] = loc[u]
  BY <1>3, <1>4, LocAt
<1> QED
  BY <1>1, <1>3, <1>5

\* After the descriptors: another poll of the same, or the end.
LEMMA HandlesServedLocals ==
  ASSUME loc \in [Threads -> Locals], NEW t \in Threads, HandlesServed(t)
  PROVE  /\ loc' \in [Threads -> Locals]
         /\ \A u \in Threads : u # t => loc'[u] = loc[u]
         /\ loc'[t].ready = {} /\ ~loc'[t].gone
         /\ \/ Goto(t, "poll") /\ loc'[t].fds = loc[t].fds
            \/ Goto(t, "unlock")
<1>1. CASE loc[t].special
  <2>1. PICK r : r = [NoLocals EXCEPT !.fds = loc[t].fds, !.until = "now"]
    OBVIOUS
  <2>2. r \in Locals /\ r.ready = {} /\ ~r.gone /\ r.fds = loc[t].fds
    BY <2>1, NoLocalsFields DEF Locals
  <2>3. loc' = [loc EXCEPT ![t] = r] /\ Goto(t, "poll")
    BY <1>1, <2>1 DEF HandlesServed
  <2> QED
    BY <2>2, <2>3, LocAt
<1>2. CASE ~loc[t].special
  <2>1. loc' = [loc EXCEPT ![t] = NoLocals] /\ Goto(t, "unlock")
    BY <1>2 DEF HandlesServed
  <2> QED
    BY <2>1, LocAt, NoLocalsFields
<1> QED
  BY <1>1, <1>2

\* Most of a thread's variables are forgotten when it handles no events.
LEMMA ForgetLocals ==
  ASSUME loc \in [Threads -> Locals], NEW t \in Threads,
         Return(t) \/ Wake(t) \/ PollTimeout(t) \/ PollFails(t) \/ Broadcast(t)
  PROVE  /\ loc' \in [Threads -> Locals]
         /\ \A u \in Threads : u # t => loc'[u] = loc[u]
         /\ loc'[t].ready = {} /\ ~loc'[t].gone
<1>1. PICK b \in BOOLEAN : loc' = [loc EXCEPT ![t] = [NoLocals EXCEPT !.failed = b]]
  <2>1. loc[t].failed \in BOOLEAN
    BY DEF Locals
  <2>2. NoLocals = [NoLocals EXCEPT !.failed = FALSE]
    BY NoLocalsFields DEF Locals, NoLocals
  <2> QED
    BY <2>1, <2>2 DEF Return, Wake, PollTimeout, PollFails, Broadcast, AfterUnlock
<1>2. PICK r : r = [NoLocals EXCEPT !.failed = b]
  OBVIOUS
<1>3. r \in Locals /\ r.ready = {} /\ ~r.gone
  BY <1>2, NoLocalsFields DEF Locals
<1> QED
  BY <1>1, <1>2, <1>3, LocAt

\* libusb_get_next_timeout names a transfer or none.
LEMMA NextTimeoutType ==
  ASSUME TypeInv
  PROVE  NextTimeout \in Threads \cup {"never"}
<1> DEFINE live == {i \in DOMAIN flying : "TIMED_OUT" \notin xfer[flying[i]].flags}
<1>1. CASE live = {}
  BY <1>1 DEF NextTimeout
<1>2. CASE live # {}
  <2> DEFINE first == flying[Min(live)]
  <2>1. NextTimeout = IF first \in Timed THEN first ELSE "never"
    BY <1>2 DEF NextTimeout
  <2> QED
    BY <2>1, UsbIoAssumption
<1> QED
  BY <1>1, <1>2

\* A caller looks for the next timeout, or begins anew.
LEMMA LookForTimeoutLocals ==
  ASSUME TypeInv, NEW t \in Threads, LookForTimeout(t) \/ LockWaiters(t)
  PROVE  /\ loc' \in [Threads -> Locals]
         /\ \A u \in Threads : u # t => loc'[u] = loc[u]
         /\ loc'[t].gone => loc[t].gone
<1> USE DEF TypeInv
<1>1. CASE LookForTimeout(t)
  <2>1. PICK r : r = [loc[t] EXCEPT !.until = NextTimeout]
    OBVIOUS
  <2>2. r \in Locals /\ r.gone = loc[t].gone
    <3>1. PICK l \in Locals, n \in Threads \cup {"never"} : l = loc[t] /\ n = NextTimeout
      BY NextTimeoutType
    <3> QED
      BY <2>1, <3>1 DEF Locals
  <2>3. loc' = loc \/ loc' = [loc EXCEPT ![t] = r]
    BY <1>1, <2>1 DEF LookForTimeout
  <2> QED
    BY <2>2, <2>3, LocAt
<1>2. CASE LockWaiters(t)
  <2>1. loc' = loc \/ loc' = [loc EXCEPT ![t] = NoLocals]
    BY <1>2 DEF LockWaiters
  <2> QED
    BY <2>1, LocAt, NoLocalsFields
<1> QED
  BY <1>1, <1>2

\* usbi_handle_transfer_cancellation
LEMMA ReasonEffect ==
  ASSUME loc \in [Threads -> Locals], NEW t \in Threads, Reason(t)
  PROVE  /\ loc' \in [Threads -> Locals]
         /\ \A u \in Threads : u # t => loc'[u] = loc[u]
         /\ loc'[t].fds = loc[t].fds /\ loc'[t].ready = loc[t].ready /\ loc'[t].gone = loc[t].gone
         /\ loc'[t].cur = loc[t].cur /\ loc'[t].at = loc[t].at /\ loc'[t].seen = loc[t].seen
<1>1. PICK r : r = [loc[t] EXCEPT !.why = IF "TIMED_OUT" \in xfer[loc[t].cur].flags THEN "TIMED_OUT" ELSE "CANCELLED"]
  OBVIOUS
<1>2. /\ r \in Locals /\ r.fds = loc[t].fds /\ r.ready = loc[t].ready /\ r.gone = loc[t].gone
      /\ r.cur = loc[t].cur /\ r.at = loc[t].at /\ r.seen = loc[t].seen
  BY <1>1 DEF Locals, None
<1>3. loc' = [loc EXCEPT ![t] = r]
  BY <1>1 DEF Reason
<1> QED
  BY <1>2, <1>3, LocAt

\* handle_timeouts starts at the head of the list.
LEMMA LockFlyingLocals ==
  ASSUME loc \in [Threads -> Locals], NEW t \in Threads, LockFlying(t)
  PROVE  /\ loc' \in [Threads -> Locals]
         /\ \A u \in Threads : u # t => loc'[u] = loc[u]
         /\ loc'[t].fds = loc[t].fds /\ loc'[t].ready = loc[t].ready /\ loc'[t].gone = loc[t].gone
         /\ loc'[t].cur = loc[t].cur /\ loc'[t].seen = loc[t].seen /\ loc'[t].at = 1
<1>1. PICK r : r = [loc[t] EXCEPT !.at = 1]
  OBVIOUS
<1>2. /\ r \in Locals /\ r.fds = loc[t].fds /\ r.ready = loc[t].ready /\ r.gone = loc[t].gone
      /\ r.cur = loc[t].cur /\ r.seen = loc[t].seen /\ r.at = 1
  BY <1>1 DEF Locals
<1>3. loc' = [loc EXCEPT ![t] = r]
  BY <1>1 DEF LockFlying
<1> QED
  BY <1>2, <1>3, LocAt

\* One transfer changes at a time.
LEMMA XferAt ==
  ASSUME xfer \in [Threads -> Transfer], NEW x \in Threads, NEW r \in Transfer,
         xfer' = [xfer EXCEPT ![x] = r]
  PROVE  /\ xfer' \in [Threads -> Transfer] /\ xfer'[x] = r
         /\ \A y \in Threads : y # x => xfer'[y] = xfer[y]
OBVIOUS

\* A transfer that is not there has no URB and is not complete.
LEMMA NoTransferFields ==
  /\ NoTransfer \in Transfer /\ NoTransfer.urb = None /\ ~NoTransfer.completed
  /\ NoTransfer.flags = {} /\ NoTransfer.status = None /\ NoTransfer.lock = Nobody
BY DEF NoTransfer, Transfer, None, Nobody

\* libusb_submit_transfer puts the transfer, which it has locked, into the list.
LEMMA SubmitEffect ==
  ASSUME xfer \in [Threads -> Transfer], NEW t \in Threads, Submit(t)
  PROVE  /\ xfer' \in [Threads -> Transfer]
         /\ \A y \in Threads : y # t => xfer'[y] = xfer[y]
         /\ xfer'[t].lock = t /\ xfer'[t].flags = {"SUBMITTING"}
         /\ xfer'[t].urb = None /\ ~xfer'[t].completed /\ xfer'[t].status = None
<1>1. PICK r : r = [NoTransfer EXCEPT !.lock = t, !.flags = {"SUBMITTING"}]
  OBVIOUS
<1>2. /\ r \in Transfer /\ r.lock = t /\ r.flags = {"SUBMITTING"}
      /\ r.urb = None /\ ~r.completed /\ r.status = None
  BY <1>1, NoTransferFields DEF Transfer, Flags
<1>3. xfer' = [xfer EXCEPT ![t] = r]
  BY <1>1 DEF Submit
<1> QED
  BY <1>2, <1>3, XferAt

\* The kernel gets the URB, or there is no device.
LEMMA BackendSubmitEffect ==
  ASSUME xfer \in [Threads -> Transfer], NEW t \in Threads, BackendSubmit(t)
  PROVE  /\ xfer' \in [Threads -> Transfer]
         /\ \A y \in Threads : y # t => xfer'[y] = xfer[y]
         /\ xfer'[t].lock = xfer[t].lock /\ xfer'[t].flags = xfer[t].flags
         /\ xfer'[t].completed = xfer[t].completed
         /\ \/ plugged /\ xfer'[t].urb = "queued" /\ xfer'[t].status = xfer[t].status
            \/ ~plugged /\ xfer'[t].urb = xfer[t].urb /\ xfer'[t].status = "NO_DEVICE"
<1>1. CASE plugged
  <2>1. PICK r : r = [xfer[t] EXCEPT !.urb = "queued", !.urbs = TRUE]
    OBVIOUS
  <2>2. /\ r \in Transfer /\ r.lock = xfer[t].lock /\ r.flags = xfer[t].flags
        /\ r.urb = "queued" /\ r.completed = xfer[t].completed /\ r.status = xfer[t].status
    BY <2>1 DEF Transfer
  <2>3. xfer' = [xfer EXCEPT ![t] = r]
    BY <1>1, <2>1 DEF BackendSubmit
  <2> QED
    BY <1>1, <2>2, <2>3, XferAt
<1>2. CASE ~plugged
  <2>1. PICK r : r = [xfer[t] EXCEPT !.status = "NO_DEVICE"]
    OBVIOUS
  <2>2. /\ r \in Transfer /\ r.lock = xfer[t].lock /\ r.flags = xfer[t].flags
        /\ r.urb = xfer[t].urb /\ r.completed = xfer[t].completed /\ r.status = "NO_DEVICE"
    BY <2>1 DEF Transfer
  <2>3. xfer' = [xfer EXCEPT ![t] = r]
    BY <1>2, <2>1 DEF BackendSubmit
  <2> QED
    BY <1>2, <2>2, <2>3, XferAt
<1> QED
  BY <1>1, <1>2

\* The submission has failed, or the transfer is in flight.
LEMMA SubmittedEffect ==
  ASSUME xfer \in [Threads -> Transfer], NEW t \in Threads, Submitted(t)
  PROVE  /\ xfer' \in [Threads -> Transfer]
         /\ \A y \in Threads : y # t => xfer'[y] = xfer[y]
         /\ xfer'[t].urb = xfer[t].urb /\ xfer'[t].completed = xfer[t].completed
         /\ \/ /\ xfer[t].status = "NO_DEVICE" \/ "DEVICE_DISAPPEARED" \in xfer[t].flags
               /\ xfer'[t].lock = xfer[t].lock /\ xfer'[t].flags = xfer[t].flags \ {"SUBMITTING"}
               /\ refs' = refs - 1 /\ Goto(t, "unsubmit")
            \/ /\ "DEVICE_DISAPPEARED" \notin xfer[t].flags
               /\ xfer'[t].flags \subseteq xfer[t].flags \cup {"IN_FLIGHT"}
               /\ refs' = refs /\ Goto(t, "wait")
<1> DEFINE flags == xfer[t].flags \ {"SUBMITTING"}
           Fails == xfer[t].status = "NO_DEVICE" \/ "DEVICE_DISAPPEARED" \in flags
<1>0. flags \subseteq Flags
  BY DEF Transfer
<1>1. CASE Fails
  <2>1. PICK l \in Transfer, fl \in SUBSET Flags : l = xfer[t] /\ fl = flags
    BY <1>0
  <2>2. PICK r : r = [l EXCEPT !.flags = fl, !.urbs = FALSE, !.status = "NO_DEVICE"]
    OBVIOUS
  <2>3. /\ r \in Transfer /\ r.urb = l.urb /\ r.completed = l.completed
        /\ r.lock = l.lock /\ r.flags = fl
    BY <2>2 DEF Transfer
  <2>4. /\ xfer' = [xfer EXCEPT ![t].flags = flags, ![t].urbs = FALSE, ![t].status = "NO_DEVICE"]
        /\ refs' = refs - 1 /\ Goto(t, "unsubmit")
    BY <1>1 DEF Submitted
  <2>5. xfer' = [xfer EXCEPT ![t] = r]
    BY <2>1, <2>2, <2>4
  <2> QED
    BY <1>1, <2>1, <2>3, <2>4, <2>5, XferAt
<1>2. CASE ~Fails
  <2> DEFINE then == IF "COMPLETED" \in flags THEN flags ELSE flags \cup {"IN_FLIGHT"}
  <2>0. then \subseteq Flags
    BY <1>0 DEF Flags
  <2>1. PICK l \in Transfer, fl \in SUBSET Flags : l = xfer[t] /\ fl = then
    BY <2>0
  <2>2. PICK r : r = [l EXCEPT !.lock = Nobody, !.flags = fl]
    OBVIOUS
  <2>3. r \in Transfer /\ r.urb = l.urb /\ r.completed = l.completed /\ r.flags = fl
    BY <2>2 DEF Transfer
  <2>6. then \subseteq xfer[t].flags \cup {"IN_FLIGHT"}
    OBVIOUS
  <2>4. /\ xfer' = [xfer EXCEPT ![t].lock = Nobody, ![t].flags = then]
        /\ refs' = refs /\ Goto(t, "wait")
    BY <1>2 DEF Submitted
  <2>5. xfer' = [xfer EXCEPT ![t] = r]
    BY <2>1, <2>2, <2>4
  <2> QED
    BY <1>2, <2>1, <2>3, <2>4, <2>5, <2>6, XferAt
<1> QED
  BY <1>1, <1>2

\* A submission that has failed releases its lock.
LEMMA UnsubmitEffect ==
  ASSUME xfer \in [Threads -> Transfer], NEW t \in Threads, Unsubmit(t)
  PROVE  /\ xfer' \in [Threads -> Transfer]
         /\ \A y \in Threads : y # t => xfer'[y] = xfer[y]
         /\ xfer'[t].flags = xfer[t].flags /\ xfer'[t].urb = xfer[t].urb
         /\ xfer'[t].completed = xfer[t].completed /\ xfer'[t].status = xfer[t].status
<1>1. PICK r : r = [xfer[t] EXCEPT !.lock = Nobody]
  OBVIOUS
<1>2. /\ r \in Transfer
      /\ r.flags = xfer[t].flags /\ r.urb = xfer[t].urb /\ r.completed = xfer[t].completed
      /\ r.status = xfer[t].status
  BY <1>1 DEF Transfer, None, Nobody, Flags
<1>3. xfer' = [xfer EXCEPT ![t] = r]
  BY <1>1 DEF Unsubmit
<1> QED
  BY <1>2, <1>3, XferAt

\* The kernel ends a URB.
LEMMA EndUrbEffect ==
  ASSUME xfer \in [Threads -> Transfer], NEW t \in Threads, EndUrb(t)
  PROVE  /\ xfer' \in [Threads -> Transfer]
         /\ \A y \in Threads : y # t => xfer'[y] = xfer[y]
         /\ xfer'[t].lock = xfer[t].lock /\ xfer'[t].flags = xfer[t].flags
         /\ xfer'[t].completed = xfer[t].completed /\ xfer'[t].status = xfer[t].status
         /\ xfer[t].urb = "queued" /\ xfer'[t].urb \in Reapable
<1>1. PICK o \in Outcomes : xfer' = [xfer EXCEPT ![t].urb = o]
  BY DEF EndUrb
<1>2. PICK r : r = [xfer[t] EXCEPT !.urb = o]
  OBVIOUS
<1>3. /\ r \in Transfer /\ r.lock = xfer[t].lock /\ r.flags = xfer[t].flags
      /\ r.urb = o /\ r.completed = xfer[t].completed /\ r.status = xfer[t].status
  BY <1>2 DEF Transfer, Reapable
<1>4. xfer' = [xfer EXCEPT ![t] = r]
  BY <1>1, <1>2
<1> QED
  BY <1>3, <1>4, XferAt DEF EndUrb, Reapable

\* The kernel ends all.
LEMMA UnplugEffect ==
  ASSUME xfer \in [Threads -> Transfer], Unplug
  PROVE  /\ xfer' \in [Threads -> Transfer]
         /\ \A x \in Threads :
              /\ xfer'[x].lock = xfer[x].lock /\ xfer'[x].flags = xfer[x].flags
              /\ xfer'[x].completed = xfer[x].completed /\ xfer'[x].status = xfer[x].status
              /\ IF xfer[x].urb = "queued" THEN xfer'[x].urb = "shutdown" ELSE xfer'[x].urb = xfer[x].urb
<1>1. \A x \in Threads :
        xfer'[x] = IF xfer[x].urb = "queued" THEN [xfer[x] EXCEPT !.urb = "shutdown"] ELSE xfer[x]
  BY DEF Unplug
<1>2. ASSUME NEW x \in Threads
      PROVE  /\ xfer'[x] \in Transfer
             /\ xfer'[x].lock = xfer[x].lock /\ xfer'[x].flags = xfer[x].flags
             /\ xfer'[x].completed = xfer[x].completed /\ xfer'[x].status = xfer[x].status
             /\ IF xfer[x].urb = "queued" THEN xfer'[x].urb = "shutdown" ELSE xfer'[x].urb = xfer[x].urb
  <2>1. PICK r : r = [xfer[x] EXCEPT !.urb = "shutdown"]
    OBVIOUS
  <2>2. /\ r \in Transfer /\ r.lock = xfer[x].lock /\ r.flags = xfer[x].flags
        /\ r.urb = "shutdown" /\ r.completed = xfer[x].completed /\ r.status = xfer[x].status
    BY <2>1 DEF Transfer, Reapable
  <2> QED
    BY <1>1, <2>1, <2>2
<1>3. xfer' \in [Threads -> Transfer]
  BY <1>2 DEF Unplug
<1> QED
  BY <1>2, <1>3

\* The handler learns how the transfer ends.
LEMMA WhyChanges ==
  ASSUME loc \in [Threads -> Locals], NEW t \in Threads,
         NEW w \in {None, "COMPLETED", "STALL", "TIMED_OUT", "CANCELLED", "NO_DEVICE"},
         loc' = [loc EXCEPT ![t].why = w]
  PROVE  /\ loc' \in [Threads -> Locals]
         /\ \A u \in Threads : u # t => loc'[u] = loc[u]
         /\ loc'[t].fds = loc[t].fds /\ loc'[t].ready = loc[t].ready /\ loc'[t].gone = loc[t].gone
         /\ loc'[t].cur = loc[t].cur /\ loc'[t].at = loc[t].at /\ loc'[t].seen = loc[t].seen
<1>1. PICK r : r = [loc[t] EXCEPT !.why = w]
  OBVIOUS
<1>2. /\ r \in Locals /\ r.fds = loc[t].fds /\ r.ready = loc[t].ready /\ r.gone = loc[t].gone
      /\ r.cur = loc[t].cur /\ r.at = loc[t].at /\ r.seen = loc[t].seen
  BY <1>1 DEF Locals
<1>3. loc' = [loc EXCEPT ![t] = r]
  BY <1>1
<1> QED
  BY <1>2, <1>3, LocAt

\* handle_timeouts goes on to the next transfer.
LEMMA AtMoves ==
  ASSUME loc \in [Threads -> Locals], NEW t \in Threads, loc' = [loc EXCEPT ![t].at = @ + 1]
  PROVE  /\ loc' \in [Threads -> Locals]
         /\ \A u \in Threads : u # t => loc'[u] = loc[u]
         /\ loc'[t].fds = loc[t].fds /\ loc'[t].ready = loc[t].ready /\ loc'[t].gone = loc[t].gone
         /\ loc'[t].cur = loc[t].cur /\ loc'[t].seen = loc[t].seen /\ loc'[t].at = loc[t].at + 1
<1>1. PICK r : r = [loc[t] EXCEPT !.at = @ + 1]
  OBVIOUS
<1>2. /\ r \in Locals /\ r.fds = loc[t].fds /\ r.ready = loc[t].ready /\ r.gone = loc[t].gone
      /\ r.cur = loc[t].cur /\ r.seen = loc[t].seen /\ r.at = loc[t].at + 1
  BY <1>1 DEF Locals
<1>3. loc' = [loc EXCEPT ![t] = r]
  BY <1>1
<1> QED
  BY <1>2, <1>3, LocAt

\* handle_timeouts reads the flags.
LEMMA SeenChanges ==
  ASSUME loc \in [Threads -> Locals], NEW t \in Threads, NEW fl \in SUBSET Flags, loc' = [loc EXCEPT ![t].seen = fl]
  PROVE  /\ loc' \in [Threads -> Locals]
         /\ \A u \in Threads : u # t => loc'[u] = loc[u]
         /\ loc'[t].fds = loc[t].fds /\ loc'[t].ready = loc[t].ready /\ loc'[t].gone = loc[t].gone
         /\ loc'[t].cur = loc[t].cur /\ loc'[t].at = loc[t].at /\ loc'[t].seen = fl
<1>1. PICK r : r = [loc[t] EXCEPT !.seen = fl]
  OBVIOUS
<1>2. /\ r \in Locals /\ r.fds = loc[t].fds /\ r.ready = loc[t].ready /\ r.gone = loc[t].gone
      /\ r.cur = loc[t].cur /\ r.at = loc[t].at /\ r.seen = fl
  BY <1>1 DEF Locals
<1>3. loc' = [loc EXCEPT ![t] = r]
  BY <1>1
<1> QED
  BY <1>2, <1>3, LocAt

\* The failure of poll is taken care of.
LEMMA FailedChanges ==
  ASSUME loc \in [Threads -> Locals], NEW t \in Threads, NEW b \in BOOLEAN,
         loc' = [loc EXCEPT ![t].failed = b]
  PROVE  /\ loc' \in [Threads -> Locals]
         /\ \A u \in Threads : u # t => loc'[u] = loc[u]
         /\ loc'[t].fds = loc[t].fds /\ loc'[t].ready = loc[t].ready /\ loc'[t].gone = loc[t].gone
         /\ loc'[t].cur = loc[t].cur /\ loc'[t].at = loc[t].at /\ loc'[t].seen = loc[t].seen
<1>1. PICK r : r = [loc[t] EXCEPT !.failed = b]
  OBVIOUS
<1>2. /\ r \in Locals /\ r.fds = loc[t].fds /\ r.ready = loc[t].ready /\ r.gone = loc[t].gone
      /\ r.cur = loc[t].cur /\ r.at = loc[t].at /\ r.seen = loc[t].seen
  BY <1>1 DEF Locals
<1>3. loc' = [loc EXCEPT ![t] = r]
  BY <1>1
<1> QED
  BY <1>2, <1>3, LocAt

\* handle_timeouts leaves the list.
LEMMA LeavesList ==
  ASSUME loc \in [Threads -> Locals], NEW t \in Threads,
         loc' = [loc EXCEPT ![t].at = 0, ![t].seen = {}]
  PROVE  /\ loc' \in [Threads -> Locals]
         /\ \A u \in Threads : u # t => loc'[u] = loc[u]
         /\ loc'[t].gone = loc[t].gone
<1>0. 0 \in Nat /\ {} \in SUBSET Flags
  OBVIOUS
<1>1. PICK l, r : l \in Locals /\ l = loc[t] /\ r = [l EXCEPT !.at = 0, !.seen = {}]
  OBVIOUS
<1>2. r \in Locals /\ r.gone = l.gone
  BY <1>0, <1>1 DEF Locals
<1>3. loc' = [loc EXCEPT ![t] = r]
  BY <1>1
<1> QED
  BY <1>1, <1>2, <1>3, LocAt

\* A URB is forgotten, by its completion or by a disconnection.
LEMMA UrbForgotten ==
  ASSUME xfer \in [Threads -> Transfer], NEW x \in Threads,
         xfer' = [xfer EXCEPT ![x].urb = None, ![x].urbs = FALSE]
  PROVE  /\ xfer' \in [Threads -> Transfer]
         /\ \A y \in Threads : y # x => xfer'[y] = xfer[y]
         /\ xfer'[x].lock = xfer[x].lock /\ xfer'[x].flags = xfer[x].flags
         /\ xfer'[x].completed = xfer[x].completed /\ xfer'[x].status = xfer[x].status
         /\ xfer'[x].urb = None
<1>1. PICK r : r = [xfer[x] EXCEPT !.urb = None, !.urbs = FALSE]
  OBVIOUS
<1>2. /\ r \in Transfer /\ r.lock = xfer[x].lock /\ r.flags = xfer[x].flags
      /\ r.urb = None /\ r.completed = xfer[x].completed /\ r.status = xfer[x].status
  BY <1>1 DEF Transfer, None
<1>3. xfer' = [xfer EXCEPT ![x] = r]
  BY <1>1
<1> QED
  BY <1>2, <1>3, XferAt

\* handle_control_completion
LEMMA RetireEffect ==
  ASSUME xfer \in [Threads -> Transfer], loc \in [Threads -> Locals], NEW t \in Threads,
         loc[t].cur \in Threads, xfer[loc[t].cur].urb \in Reapable, Retire(t)
  PROVE  LET x == loc[t].cur
         IN /\ xfer[x].lock = Nobody
            /\ xfer' \in [Threads -> Transfer]
            /\ \A y \in Threads : y # x => xfer'[y] = xfer[y]
            /\ xfer'[x].lock = xfer[x].lock /\ xfer'[x].flags = xfer[x].flags
            /\ xfer'[x].completed = xfer[x].completed /\ xfer'[x].status = xfer[x].status
            /\ xfer'[x].urb = None
            /\ loc' \in [Threads -> Locals]
            /\ \A u \in Threads : u # t => loc'[u] = loc[u]
            /\ loc'[t].fds = loc[t].fds /\ loc'[t].ready = loc[t].ready /\ loc'[t].gone = loc[t].gone
            /\ loc'[t].cur = x
            /\ Goto(t, "reason") \/ Goto(t, "complete")
<1> DEFINE x == loc[t].cur
<1>1. /\ xfer[x].lock = Nobody
      /\ xfer' = [xfer EXCEPT ![x].urb = None, ![x].urbs = FALSE]
      /\ Goto(t, "reason") \/ Goto(t, "complete")
  BY DEF Retire
<1>2. PICK w : w = UrbStatus(xfer[x].urb)
  OBVIOUS
<1>3. w \in {None, "COMPLETED", "STALL", "TIMED_OUT", "CANCELLED", "NO_DEVICE"}
  BY <1>2, UsbIoAssumption DEF UrbStatus, Reapable
<1>4. loc' = [loc EXCEPT ![t].why = w]
  BY <1>2 DEF Retire
<1> QED
  BY <1>1, <1>3, <1>4, UrbForgotten, WhyChanges

\* usbi_handle_transfer_completion
LEMMA CompleteEffect ==
  ASSUME xfer \in [Threads -> Transfer], loc \in [Threads -> Locals], NEW t \in Threads,
         loc[t].cur \in Threads, Complete(t)
  PROVE  LET x == loc[t].cur
         IN /\ xfer' \in [Threads -> Transfer]
            /\ \A y \in Threads : y # x => xfer'[y] = xfer[y]
            /\ xfer'[x].urb = xfer[x].urb /\ xfer'[x].completed
            /\ loc' \in [Threads -> Locals]
            /\ \A u \in Threads : u # t => loc'[u] = loc[u]
            /\ loc'[t].fds = loc[t].fds /\ loc'[t].ready = loc[t].ready /\ loc'[t].gone = loc[t].gone
            /\ loc'[t].cur = x
<1>1. PICK l, w : l \in Transfer /\ l = xfer[loc[t].cur] /\ w = loc[t].why
  OBVIOUS
<1>2. w \in {None, "COMPLETED", "STALL", "TIMED_OUT", "CANCELLED", "NO_DEVICE"}
  BY <1>1 DEF Locals
<1>3. PICK fl \in SUBSET Flags : fl = (l.flags \ {"IN_FLIGHT"}) \cup {"COMPLETED"}
  BY <1>1 DEF Transfer, Flags
<1>4. PICK r : r = [l EXCEPT !.flags = fl, !.status = w, !.completed = TRUE]
  OBVIOUS
<1>5. r \in Transfer /\ r.urb = l.urb /\ r.completed
  BY <1>1, <1>2, <1>4 DEF Transfer
<1>6. xfer' = [xfer EXCEPT ![loc[t].cur] = r]
  BY <1>1, <1>3, <1>4 DEF Complete
<1>7. loc' = [loc EXCEPT ![t].why = None]
  BY DEF Complete
<1> QED
  BY <1>1, <1>5, <1>6, <1>7, XferAt, WhyChanges

\* usbi_handle_disconnect looks for a transfer of the handle.
LEMMA ScanEffect ==
  ASSUME xfer \in [Threads -> Transfer], NEW t \in Threads, loc[t].cur \in Threads, Scan(t)
  PROVE  LET x == loc[t].cur
         IN /\ xfer' \in [Threads -> Transfer]
            /\ \A y \in Threads : y # x => xfer'[y] = xfer[y]
            /\ xfer'[x].lock = xfer[x].lock /\ xfer'[x].urb = xfer[x].urb
            /\ xfer'[x].completed = xfer[x].completed /\ xfer'[x].status = xfer[x].status
            /\ \/ Goto(t, "detach") /\ xfer' = xfer
               \/ Goto(t, "clear") /\ xfer' = xfer /\ Flies(x) /\ "IN_FLIGHT" \in xfer[x].flags
               \/ /\ Goto(t, "detach") /\ xfer'[x].flags = xfer[x].flags \cup {"DEVICE_DISAPPEARED"}
                  /\ "IN_FLIGHT" \notin xfer[x].flags
<1>1. PICK l \in Transfer, fl \in SUBSET Flags :
        l = xfer[loc[t].cur] /\ fl = l.flags \cup {"DEVICE_DISAPPEARED"}
  BY DEF Transfer, Flags
<1>2. PICK r : r = [l EXCEPT !.flags = fl]
  OBVIOUS
<1>3. /\ r \in Transfer /\ r.lock = l.lock /\ r.urb = l.urb
      /\ r.completed = l.completed /\ r.status = l.status /\ r.flags = fl
  BY <1>2 DEF Transfer
<1>4. \/ Goto(t, "detach") /\ xfer' = xfer
      \/ Goto(t, "clear") /\ xfer' = xfer /\ Flies(loc[t].cur) /\ "IN_FLIGHT" \in l.flags
      \/ Goto(t, "detach") /\ xfer' = [xfer EXCEPT ![loc[t].cur] = r] /\ "IN_FLIGHT" \notin l.flags
  BY <1>1, <1>2 DEF Scan
<1> QED
  BY <1>1, <1>3, <1>4, XferAt

\* usbi_handle_disconnect ends a transfer that is in flight.
LEMMA ClearPrivEffect ==
  ASSUME xfer \in [Threads -> Transfer], loc \in [Threads -> Locals], NEW t \in Threads,
         loc[t].cur \in Threads, ClearPriv(t)
  PROVE  LET x == loc[t].cur
         IN /\ xfer' \in [Threads -> Transfer]
            /\ \A y \in Threads : y # x => xfer'[y] = xfer[y]
            /\ xfer'[x].lock = xfer[x].lock /\ xfer'[x].flags = xfer[x].flags
            /\ xfer'[x].completed = xfer[x].completed /\ xfer'[x].status = xfer[x].status
            /\ xfer'[x].urb = None
            /\ loc' \in [Threads -> Locals]
            /\ \A u \in Threads : u # t => loc'[u] = loc[u]
            /\ loc'[t].fds = loc[t].fds /\ loc'[t].ready = loc[t].ready /\ loc'[t].gone = loc[t].gone
            /\ loc'[t].cur = x
<1>1. /\ xfer' = [xfer EXCEPT ![loc[t].cur].urb = None, ![loc[t].cur].urbs = FALSE]
      /\ loc' = [loc EXCEPT ![t].why = "NO_DEVICE"]
  BY DEF ClearPriv
<1> QED
  BY <1>1, UrbForgotten, WhyChanges

\* handle_timeout marks the transfer with what it has seen.
LEMMA MarkEffect ==
  ASSUME xfer \in [Threads -> Transfer], loc \in [Threads -> Locals], NEW t \in Threads,
         NEW x \in Threads, x = flying[loc[t].at], Mark(t)
  PROVE  /\ xfer' \in [Threads -> Transfer]
         /\ \A y \in Threads : y # x => xfer'[y] = xfer[y]
         /\ xfer'[x].lock = xfer[x].lock /\ xfer'[x].urb = xfer[x].urb
         /\ xfer'[x].completed = xfer[x].completed /\ xfer'[x].status = xfer[x].status
         /\ xfer'[x].flags = loc[t].seen \cup {"TIMED_OUT"}
<1>1. PICK l \in Transfer, fl \in SUBSET Flags : l = xfer[x] /\ fl = loc[t].seen \cup {"TIMED_OUT"}
  BY DEF Locals, Flags
<1>2. PICK r : r = [l EXCEPT !.flags = fl]
  OBVIOUS
<1>3. /\ r \in Transfer /\ r.lock = l.lock /\ r.urb = l.urb
      /\ r.completed = l.completed /\ r.status = l.status /\ r.flags = fl
  BY <1>2 DEF Transfer
<1>4. xfer' = [xfer EXCEPT ![x] = r]
  BY <1>1, <1>2 DEF Mark
<1> QED
  BY <1>1, <1>3, <1>4, XferAt

\* libusb_cancel_transfer touches a transfer in flight that nobody has locked.
LEMMA CancelTransferEffect ==
  ASSUME xfer \in [Threads -> Transfer], NEW x \in Threads, CancelTransfer(x)
  PROVE  /\ xfer' \in [Threads -> Transfer]
         /\ \A y \in Threads : y # x => xfer'[y] = xfer[y]
         /\ xfer[x].lock = Nobody /\ xfer'[x].lock = xfer[x].lock
         /\ xfer'[x].completed = xfer[x].completed /\ xfer'[x].status = xfer[x].status
         /\ \/ xfer' = xfer
            \/ /\ "IN_FLIGHT" \in xfer[x].flags /\ xfer[x].flags \subseteq xfer'[x].flags
               /\ xfer'[x].urb = IF xfer[x].urb = "queued" THEN "killed" ELSE xfer[x].urb
<1> DEFINE more == {"CANCELLING"} \cup IF xfer[x].urbs /\ ~plugged THEN {"DEVICE_DISAPPEARED"} ELSE {}
           left == IF xfer[x].urb = "queued" THEN "killed" ELSE xfer[x].urb
<1>1. xfer[x].flags \cup more \in SUBSET Flags /\ left \in {None, "queued"} \cup Reapable
  BY DEF Transfer, Flags, Reapable
<1>2. PICK l \in Transfer, fl \in SUBSET Flags, u \in {None, "queued"} \cup Reapable :
        l = xfer[x] /\ fl = xfer[x].flags \cup more /\ u = left
  BY <1>1
<1>3. PICK r : r = [l EXCEPT !.cancelled = TRUE, !.urb = u, !.flags = fl]
  OBVIOUS
<1>4. /\ r \in Transfer /\ r.lock = l.lock /\ r.urb = u
      /\ r.completed = l.completed /\ r.status = l.status /\ r.flags = fl
  BY <1>3 DEF Transfer
<1>5. Discarded(x) = r
  <2>1. Discarded(x) = [xfer[x] EXCEPT !.cancelled = TRUE, !.urb = left, !.flags = xfer[x].flags \cup more]
    BY DEF Discarded
  <2> QED
    BY <2>1, <1>2, <1>3
<1>6. /\ xfer[x].lock = Nobody
      /\ \/ xfer' = xfer
         \/ "IN_FLIGHT" \in xfer[x].flags /\ xfer' = [xfer EXCEPT ![x] = r]
  BY <1>5 DEF CancelTransfer
<1> QED
  BY <1>2, <1>4, <1>6, XferAt

\* op_close: the kernel forgets the URBs of the descriptor.
LEMMA XferReset ==
  ASSUME xfer \in [Threads -> Transfer], NEW t \in Threads, Return(t) \/ DoClose(t)
  PROVE  /\ xfer' \in [Threads -> Transfer]
         /\ \A y \in Threads : y # t => xfer'[y] = xfer[y]
         /\ xfer'[t] = NoTransfer
BY NoTransferFields, XferAt DEF Return, DoClose

-----------------------------------------------------------------------------
(* The inductive invariant. *)

Busy == Waiting \cup Handling \cup TimingOut
Outside == {"idle", "opened", "held"} \cup Closing
CurPlaces == {"reap", "retire", "reason", "complete", "scan", "clear", "detach"}
CloseBegun == {"lockevents", "sweep", "innercast", "closefd", "closed"}
EventsPlaces == (Handling \ {"broadcast"}) \cup (Closing \ {"lockevents", "closecast"})

\* Whoever handles events, or closes, has the events lock.
EventsInv == \A t \in Threads : pc[t] \in EventsPlaces => lock.events = t

\* The closes under way are counted.
CloseInv == data.close = Cardinality({t \in Threads : pc[t] \in CloseBegun})

\* A device has one message at most, which takes it from the context.
MsgInv == data.msgs \in {0, 1} /\ (data.msgs = 1 => ~attached)

\* What is polled is open, what is ready is polled, what is served is polled.
FdsInv ==
  /\ data.pollfds \subseteq OpenHandles
  /\ \A t \in Threads : pc[t] \in Serving => loc[t].fds \subseteq OpenHandles
  /\ \A t \in Threads : pc[t] \in Serving \ {"poll"} => loc[t].ready \subseteq loc[t].fds
  /\ \A t \in Threads : pc[t] \in CurPlaces => loc[t].cur \in loc[t].fds

\* The list of flying transfers has each once, and is read under its lock.
ListInv ==
  /\ IsInjective(flying)
  /\ \A t \in Threads : pc[t] \in {"next", "mark", "cancel"} => lock.flying = t /\ loc[t].at > 0
  /\ \A t \in Threads : pc[t] \in {"mark", "cancel"} => loc[t].at <= Len(flying)

\* Where the transfer of a thread stands, the thread's place tells.
TransferInv ==
  \A x \in Threads :
    /\ pc[x] \in Outside => ~Flies(x) /\ xfer[x].urb = None
    /\ pc[x] = "return" => ~Flies(x)
    /\ pc[x] \in Submitting => /\ Flies(x) /\ xfer[x].lock = x /\ ~xfer[x].completed
                               /\ "IN_FLIGHT" \notin xfer[x].flags
    /\ pc[x] = "submit" => xfer[x].urb = None /\ xfer[x].status = None
    /\ pc[x] \in Busy => (Flies(x) <=> ~xfer[x].completed)
    /\ xfer[x].urb # None => ~xfer[x].completed
    /\ pc[x] \in {"submit", "submitted"} /\ xfer[x].urb # None => xfer[x].status # "NO_DEVICE"

\* The device has disappeared while x was submitted, or before it was.
Lost(x) ==
  \/ pc[x] \in Submitting /\ "DEVICE_DISAPPEARED" \in xfer[x].flags
  \/ pc[x] \in {"unsubmit", "return"} /\ xfer[x].urb # None

\* What handle_timeout has read of the flags still holds of a submission.
SeenInv ==
  \A t, x \in Threads :
    pc[t] = "mark" /\ flying[loc[t].at] = x /\ pc[x] \in Submitting =>
      /\ "IN_FLIGHT" \notin loc[t].seen
      /\ "DEVICE_DISAPPEARED" \in loc[t].seen => Lost(x)

\* A handler that has found the device there reaps, one that has not ends what is in flight.
HandlerInv ==
  \A t \in Threads :
    /\ loc[t].gone => ~plugged
    /\ pc[t] \in {"reap", "retire", "reason"} => ~loc[t].gone
    /\ pc[t] \in {"scan", "clear", "detach"} => loc[t].gone
    /\ pc[t] \in {"scan", "clear", "complete", "detach"} /\ loc[t].gone => loc[t].cur \notin data.pollfds
    /\ pc[t] = "retire" => xfer[loc[t].cur].urb \in Reapable
    /\ pc[t] \in {"reason", "complete", "clear"} => Flies(loc[t].cur) /\ pc[loc[t].cur] \in Busy
    /\ pc[t] \in {"reason", "complete"} => xfer[loc[t].cur].urb = None

\* What is lost is reaped by nobody.
LostInv ==
  \A x \in Threads : Lost(x) =>
    /\ ~plugged /\ x \notin data.pollfds
    /\ \A t \in Threads :
         pc[t] \in Serving \ {"poll"} => \/ loc[t].gone
                                         \/ /\ x \notin loc[t].ready
                                            /\ pc[t] \in CurPlaces => loc[t].cur # x

Inv ==
  /\ TypeInv /\ EventsInv /\ CloseInv /\ MsgInv /\ FdsInv /\ ListInv /\ TransferInv /\ SeenInv
  /\ HandlerInv /\ LostInv /\ PipeAndPollAreTrue /\ RefsMatchHolders

-----------------------------------------------------------------------------
(* Which steps change what. *)

\* The steps that change whether the device is there.
LEMMA PluggedChanges ==
  ASSUME [Next]_vars
  PROVE  \/ UNCHANGED plugged
         \/ Unplug
<1>1. ASSUME NEW t \in Threads,
             Open(t) \/ ListOpen(t) \/ Submit(t) \/ BackendSubmit(t) \/ Submitted(t)
             \/ Unsubmit(t) \/ Return(t) \/ LookForTimeout(t) \/ TryLockEvents(t) \/ TryLock(t)
             \/ LockWaiters(t) \/ CheckActive(t)
      PROVE  UNCHANGED plugged
  BY <1>1 DEF Open, ListOpen, Submit, BackendSubmit, Submitted, Unsubmit, Return, LookForTimeout,
         TryLockEvents, TryLock, LockWaiters, CheckActive, device, time
<1>2. ASSUME NEW t \in Threads,
             Sleep(t) \/ Wake(t) \/ Rebuild(t) \/ Poll(t) \/ PollTimeout(t) \/ PollFails(t)
             \/ Pipe(t) \/ Dispatch(t) \/ NextHandle(t) \/ HandlesServed(t) \/ Reap(t)
             \/ ReapedAll(t)
      PROVE  UNCHANGED plugged
  BY <1>2 DEF Sleep, Wake, Rebuild, Poll, PollTimeout, PollFails, Pipe, Dispatch, NextHandle,
         HandlesServed, Reap, ReapedAll, device, time
<1>3. ASSUME NEW t \in Threads,
             Retire(t) \/ Reason(t) \/ Complete(t) \/ Scan(t) \/ ClearPriv(t) \/ Detach(t)
             \/ LockFlying(t) \/ NextFlying(t) \/ Mark(t) \/ CancelOverdue(t)
             \/ CancelAndRetry(t) \/ ReleaseEvents(t)
      PROVE  UNCHANGED plugged
  BY <1>3 DEF Retire, Reason, Complete, Scan, ClearPriv, Detach, LockFlying, NextFlying, Mark,
         CancelOverdue, CancelAndRetry, ReleaseEvents, device, time
<1>4. ASSUME NEW t \in Threads,
             Broadcast(t) \/ Close(t) \/ LockEvents(t) \/ Sweep(t) \/ DoClose(t)
             \/ Closed(t) \/ EndUrb(t) \/ Expire(t)
      PROVE  UNCHANGED plugged
  BY <1>4 DEF Broadcast, Close, LockEvents, Sweep, DoClose, Closed, EndUrb, Expire, device, time
<1>5. UNCHANGED vars => UNCHANGED plugged
  BY DEF vars
<1> QED
  BY <1>1, <1>2, <1>3, <1>4, <1>5 DEF Next, Proceed

\* The steps that change whether the device is in the context's list.
LEMMA AttachedChanges ==
  ASSUME [Next]_vars
  PROVE  \/ UNCHANGED attached
         \/ \E t \in Threads : Open(t) \/ Detach(t)
<1>1. ASSUME NEW t \in Threads,
             ListOpen(t) \/ Submit(t) \/ BackendSubmit(t) \/ Submitted(t) \/ Unsubmit(t)
             \/ Return(t) \/ LookForTimeout(t) \/ TryLockEvents(t) \/ TryLock(t)
             \/ LockWaiters(t) \/ CheckActive(t) \/ Sleep(t)
      PROVE  UNCHANGED attached
  BY <1>1 DEF ListOpen, Submit, BackendSubmit, Submitted, Unsubmit, Return, LookForTimeout,
         TryLockEvents, TryLock, LockWaiters, CheckActive, Sleep, device, time
<1>2. ASSUME NEW t \in Threads,
             Wake(t) \/ Rebuild(t) \/ Poll(t) \/ PollTimeout(t) \/ PollFails(t) \/ Pipe(t)
             \/ Dispatch(t) \/ NextHandle(t) \/ HandlesServed(t) \/ Reap(t) \/ ReapedAll(t)
             \/ Retire(t)
      PROVE  UNCHANGED attached
  BY <1>2 DEF Wake, Rebuild, Poll, PollTimeout, PollFails, Pipe, Dispatch, NextHandle,
         HandlesServed, Reap, ReapedAll, Retire, device, time
<1>3. ASSUME NEW t \in Threads,
             Reason(t) \/ Complete(t) \/ Scan(t) \/ ClearPriv(t) \/ LockFlying(t)
             \/ NextFlying(t) \/ Mark(t) \/ CancelOverdue(t) \/ CancelAndRetry(t)
             \/ ReleaseEvents(t) \/ Broadcast(t) \/ Close(t)
      PROVE  UNCHANGED attached
  BY <1>3 DEF Reason, Complete, Scan, ClearPriv, LockFlying, NextFlying, Mark, CancelOverdue,
         CancelAndRetry, ReleaseEvents, Broadcast, Close, device, time
<1>4. ASSUME NEW t \in Threads,
             LockEvents(t) \/ Sweep(t) \/ DoClose(t) \/ Closed(t) \/ EndUrb(t) \/ Expire(t)
      PROVE  UNCHANGED attached
  BY <1>4 DEF LockEvents, Sweep, DoClose, Closed, EndUrb, Expire, device, time
<1>5. UNCHANGED vars => UNCHANGED attached
  BY DEF vars
<1>6. Unplug => UNCHANGED attached
  BY DEF Unplug, time
<1> QED
  BY <1>1, <1>2, <1>3, <1>4, <1>5, <1>6 DEF Next, Proceed

\* The steps that change the references to the device.
LEMMA RefsChanges ==
  ASSUME [Next]_vars
  PROVE  \/ UNCHANGED refs
         \/ \E t \in Threads : Open(t) \/ BackendSubmit(t) \/ Submitted(t) \/ Pipe(t) \/ Complete(t)
              \/ DoClose(t)
<1>1. ASSUME NEW t \in Threads,
             ListOpen(t) \/ Submit(t) \/ Unsubmit(t) \/ Return(t) \/ LookForTimeout(t)
             \/ TryLockEvents(t) \/ TryLock(t) \/ LockWaiters(t) \/ CheckActive(t) \/ Sleep(t)
             \/ Wake(t) \/ Rebuild(t)
      PROVE  UNCHANGED refs
  BY <1>1 DEF ListOpen, Submit, Unsubmit, Return, LookForTimeout, TryLockEvents, TryLock,
         LockWaiters, CheckActive, Sleep, Wake, Rebuild, device, time
<1>2. ASSUME NEW t \in Threads,
             Poll(t) \/ PollTimeout(t) \/ PollFails(t) \/ Dispatch(t) \/ NextHandle(t)
             \/ HandlesServed(t) \/ Reap(t) \/ ReapedAll(t) \/ Retire(t) \/ Reason(t)
             \/ Scan(t) \/ ClearPriv(t)
      PROVE  UNCHANGED refs
  BY <1>2 DEF Poll, PollTimeout, PollFails, Dispatch, NextHandle, HandlesServed, Reap, ReapedAll,
         Retire, Reason, Scan, ClearPriv, device, time
<1>3. ASSUME NEW t \in Threads,
             Detach(t) \/ LockFlying(t) \/ NextFlying(t) \/ Mark(t) \/ CancelOverdue(t)
             \/ CancelAndRetry(t) \/ ReleaseEvents(t) \/ Broadcast(t) \/ Close(t)
             \/ LockEvents(t) \/ Sweep(t) \/ Closed(t)
      PROVE  UNCHANGED refs
  BY <1>3 DEF Detach, LockFlying, NextFlying, Mark, CancelOverdue, CancelAndRetry, ReleaseEvents,
         Broadcast, Close, LockEvents, Sweep, Closed, device, time
<1>4. ASSUME NEW t \in Threads,
             EndUrb(t) \/ Expire(t)
      PROVE  UNCHANGED refs
  BY <1>4 DEF EndUrb, Expire, device, time
<1>5. UNCHANGED vars => UNCHANGED refs
  BY DEF vars
<1>6. Unplug => UNCHANGED refs
  BY DEF Unplug, time
<1> QED
  BY <1>1, <1>2, <1>3, <1>4, <1>5, <1>6 DEF Next, Proceed

\* The steps that change what event_data_lock protects.
LEMMA DataChanges ==
  ASSUME [Next]_vars
  PROVE  \/ UNCHANGED data
         \/ \E t \in Threads : Open(t) \/ Rebuild(t) \/ Pipe(t) \/ NextHandle(t) \/ Detach(t) \/ Close(t)
              \/ DoClose(t) \/ Closed(t)
<1>1. ASSUME NEW t \in Threads,
             ListOpen(t) \/ Submit(t) \/ BackendSubmit(t) \/ Submitted(t) \/ Unsubmit(t)
             \/ Return(t) \/ LookForTimeout(t) \/ TryLockEvents(t) \/ TryLock(t)
             \/ LockWaiters(t) \/ CheckActive(t) \/ Sleep(t)
      PROVE  UNCHANGED data
  BY <1>1 DEF ListOpen, Submit, BackendSubmit, Submitted, Unsubmit, Return, LookForTimeout,
         TryLockEvents, TryLock, LockWaiters, CheckActive, Sleep, device, time
<1>2. ASSUME NEW t \in Threads,
             Wake(t) \/ Poll(t) \/ PollTimeout(t) \/ PollFails(t) \/ Dispatch(t)
             \/ HandlesServed(t) \/ Reap(t) \/ ReapedAll(t) \/ Retire(t) \/ Reason(t)
             \/ Complete(t) \/ Scan(t)
      PROVE  UNCHANGED data
  BY <1>2 DEF Wake, Poll, PollTimeout, PollFails, Dispatch, HandlesServed, Reap, ReapedAll,
         Retire, Reason, Complete, Scan, device, time
<1>3. ASSUME NEW t \in Threads,
             ClearPriv(t) \/ LockFlying(t) \/ NextFlying(t) \/ Mark(t) \/ CancelOverdue(t)
             \/ CancelAndRetry(t) \/ ReleaseEvents(t) \/ Broadcast(t) \/ LockEvents(t)
             \/ Sweep(t) \/ EndUrb(t) \/ Expire(t)
      PROVE  UNCHANGED data
  BY <1>3 DEF ClearPriv, LockFlying, NextFlying, Mark, CancelOverdue, CancelAndRetry,
         ReleaseEvents, Broadcast, LockEvents, Sweep, EndUrb, Expire, device, time
<1>4. UNCHANGED vars => UNCHANGED data
  BY DEF vars
<1>5. Unplug => UNCHANGED data
  BY DEF Unplug, time
<1> QED
  BY <1>1, <1>2, <1>3, <1>4, <1>5 DEF Next, Proceed

\* The steps that change the locks.
LEMMA LockChanges ==
  ASSUME [Next]_vars
  PROVE  \/ UNCHANGED lock
         \/ \E t \in Threads : TryLock(t) \/ LockWaiters(t) \/ CheckActive(t) \/ Sleep(t) \/ Dispatch(t)
              \/ HandlesServed(t) \/ LockFlying(t) \/ NextFlying(t) \/ ReleaseEvents(t)
              \/ LockEvents(t) \/ Sweep(t)
<1>1. ASSUME NEW t \in Threads,
             Open(t) \/ ListOpen(t) \/ Submit(t) \/ BackendSubmit(t) \/ Submitted(t)
             \/ Unsubmit(t) \/ Return(t) \/ LookForTimeout(t) \/ TryLockEvents(t) \/ Wake(t)
             \/ Rebuild(t) \/ Poll(t)
      PROVE  UNCHANGED lock
  BY <1>1 DEF Open, ListOpen, Submit, BackendSubmit, Submitted, Unsubmit, Return, LookForTimeout,
         TryLockEvents, Wake, Rebuild, Poll, device, time
<1>2. ASSUME NEW t \in Threads,
             PollTimeout(t) \/ PollFails(t) \/ Pipe(t) \/ NextHandle(t) \/ Reap(t)
             \/ ReapedAll(t) \/ Retire(t) \/ Reason(t) \/ Complete(t) \/ Scan(t)
             \/ ClearPriv(t) \/ Detach(t)
      PROVE  UNCHANGED lock
  BY <1>2 DEF PollTimeout, PollFails, Pipe, NextHandle, Reap, ReapedAll, Retire, Reason, Complete,
         Scan, ClearPriv, Detach, device, time
<1>3. ASSUME NEW t \in Threads,
             Mark(t) \/ CancelOverdue(t) \/ CancelAndRetry(t) \/ Broadcast(t) \/ Close(t)
             \/ DoClose(t) \/ Closed(t) \/ EndUrb(t) \/ Expire(t)
      PROVE  UNCHANGED lock
  BY <1>3 DEF Mark, CancelOverdue, CancelAndRetry, Broadcast, Close, DoClose, Closed, EndUrb,
         Expire, device, time
<1>4. UNCHANGED vars => UNCHANGED lock
  BY DEF vars
<1>5. Unplug => UNCHANGED lock
  BY DEF Unplug, time
<1> QED
  BY <1>1, <1>2, <1>3, <1>4, <1>5 DEF Next, Proceed

\* The steps that change who sleeps.
LEMMA SleepingChanges ==
  ASSUME [Next]_vars
  PROVE  \/ UNCHANGED sleeping
         \/ \E t \in Threads : Sleep(t) \/ Wake(t) \/ Broadcast(t)
<1>1. ASSUME NEW t \in Threads,
             Open(t) \/ ListOpen(t) \/ Submit(t) \/ BackendSubmit(t) \/ Submitted(t)
             \/ Unsubmit(t) \/ Return(t) \/ LookForTimeout(t) \/ TryLockEvents(t) \/ TryLock(t)
             \/ LockWaiters(t) \/ CheckActive(t)
      PROVE  UNCHANGED sleeping
  BY <1>1 DEF Open, ListOpen, Submit, BackendSubmit, Submitted, Unsubmit, Return, LookForTimeout,
         TryLockEvents, TryLock, LockWaiters, CheckActive, device, time
<1>2. ASSUME NEW t \in Threads,
             Rebuild(t) \/ Poll(t) \/ PollTimeout(t) \/ PollFails(t) \/ Pipe(t)
             \/ Dispatch(t) \/ NextHandle(t) \/ HandlesServed(t) \/ Reap(t) \/ ReapedAll(t)
             \/ Retire(t) \/ Reason(t)
      PROVE  UNCHANGED sleeping
  BY <1>2 DEF Rebuild, Poll, PollTimeout, PollFails, Pipe, Dispatch, NextHandle, HandlesServed,
         Reap, ReapedAll, Retire, Reason, device, time
<1>3. ASSUME NEW t \in Threads,
             Complete(t) \/ Scan(t) \/ ClearPriv(t) \/ Detach(t) \/ LockFlying(t)
             \/ NextFlying(t) \/ Mark(t) \/ CancelOverdue(t) \/ CancelAndRetry(t)
             \/ ReleaseEvents(t) \/ Close(t) \/ LockEvents(t)
      PROVE  UNCHANGED sleeping
  BY <1>3 DEF Complete, Scan, ClearPriv, Detach, LockFlying, NextFlying, Mark, CancelOverdue,
         CancelAndRetry, ReleaseEvents, Close, LockEvents, device, time
<1>4. ASSUME NEW t \in Threads,
             Sweep(t) \/ DoClose(t) \/ Closed(t) \/ EndUrb(t) \/ Expire(t)
      PROVE  UNCHANGED sleeping
  BY <1>4 DEF Sweep, DoClose, Closed, EndUrb, Expire, device, time
<1>5. UNCHANGED vars => UNCHANGED sleeping
  BY DEF vars
<1>6. Unplug => UNCHANGED sleeping
  BY DEF Unplug, time
<1> QED
  BY <1>1, <1>2, <1>3, <1>4, <1>5, <1>6 DEF Next, Proceed

\* The steps that change the list of flying transfers.
LEMMA FlyingChanges ==
  ASSUME [Next]_vars
  PROVE  \/ UNCHANGED flying
         \/ \E t \in Threads : Submit(t) \/ Unsubmit(t) \/ Complete(t) \/ Sweep(t)
<1>1. ASSUME NEW t \in Threads,
             Open(t) \/ ListOpen(t) \/ BackendSubmit(t) \/ Submitted(t) \/ Return(t)
             \/ LookForTimeout(t) \/ TryLockEvents(t) \/ TryLock(t) \/ LockWaiters(t)
             \/ CheckActive(t) \/ Sleep(t) \/ Wake(t)
      PROVE  UNCHANGED flying
  BY <1>1 DEF Open, ListOpen, BackendSubmit, Submitted, Return, LookForTimeout, TryLockEvents,
         TryLock, LockWaiters, CheckActive, Sleep, Wake, device, time
<1>2. ASSUME NEW t \in Threads,
             Rebuild(t) \/ Poll(t) \/ PollTimeout(t) \/ PollFails(t) \/ Pipe(t)
             \/ Dispatch(t) \/ NextHandle(t) \/ HandlesServed(t) \/ Reap(t) \/ ReapedAll(t)
             \/ Retire(t) \/ Reason(t)
      PROVE  UNCHANGED flying
  BY <1>2 DEF Rebuild, Poll, PollTimeout, PollFails, Pipe, Dispatch, NextHandle, HandlesServed,
         Reap, ReapedAll, Retire, Reason, device, time
<1>3. ASSUME NEW t \in Threads,
             Scan(t) \/ ClearPriv(t) \/ Detach(t) \/ LockFlying(t) \/ NextFlying(t)
             \/ Mark(t) \/ CancelOverdue(t) \/ CancelAndRetry(t) \/ ReleaseEvents(t)
             \/ Broadcast(t) \/ Close(t) \/ LockEvents(t)
      PROVE  UNCHANGED flying
  BY <1>3 DEF Scan, ClearPriv, Detach, LockFlying, NextFlying, Mark, CancelOverdue,
         CancelAndRetry, ReleaseEvents, Broadcast, Close, LockEvents, device, time
<1>4. ASSUME NEW t \in Threads,
             DoClose(t) \/ Closed(t) \/ EndUrb(t) \/ Expire(t)
      PROVE  UNCHANGED flying
  BY <1>4 DEF DoClose, Closed, EndUrb, Expire, device, time
<1>5. UNCHANGED vars => UNCHANGED flying
  BY DEF vars
<1>6. Unplug => UNCHANGED flying
  BY DEF Unplug, time
<1> QED
  BY <1>1, <1>2, <1>3, <1>4, <1>5, <1>6 DEF Next, Proceed

\* The steps that change the list of open handles.
LEMMA OpenDevsChanges ==
  ASSUME [Next]_vars
  PROVE  \/ UNCHANGED openDevs
         \/ \E t \in Threads : ListOpen(t) \/ DoClose(t)
<1>1. ASSUME NEW t \in Threads,
             Open(t) \/ Submit(t) \/ BackendSubmit(t) \/ Submitted(t) \/ Unsubmit(t)
             \/ Return(t) \/ LookForTimeout(t) \/ TryLockEvents(t) \/ TryLock(t)
             \/ LockWaiters(t) \/ CheckActive(t) \/ Sleep(t)
      PROVE  UNCHANGED openDevs
  BY <1>1 DEF Open, Submit, BackendSubmit, Submitted, Unsubmit, Return, LookForTimeout,
         TryLockEvents, TryLock, LockWaiters, CheckActive, Sleep, device, time
<1>2. ASSUME NEW t \in Threads,
             Wake(t) \/ Rebuild(t) \/ Poll(t) \/ PollTimeout(t) \/ PollFails(t) \/ Pipe(t)
             \/ Dispatch(t) \/ NextHandle(t) \/ HandlesServed(t) \/ Reap(t) \/ ReapedAll(t)
             \/ Retire(t)
      PROVE  UNCHANGED openDevs
  BY <1>2 DEF Wake, Rebuild, Poll, PollTimeout, PollFails, Pipe, Dispatch, NextHandle,
         HandlesServed, Reap, ReapedAll, Retire, device, time
<1>3. ASSUME NEW t \in Threads,
             Reason(t) \/ Complete(t) \/ Scan(t) \/ ClearPriv(t) \/ Detach(t)
             \/ LockFlying(t) \/ NextFlying(t) \/ Mark(t) \/ CancelOverdue(t)
             \/ CancelAndRetry(t) \/ ReleaseEvents(t) \/ Broadcast(t)
      PROVE  UNCHANGED openDevs
  BY <1>3 DEF Reason, Complete, Scan, ClearPriv, Detach, LockFlying, NextFlying, Mark,
         CancelOverdue, CancelAndRetry, ReleaseEvents, Broadcast, device, time
<1>4. ASSUME NEW t \in Threads,
             Close(t) \/ LockEvents(t) \/ Sweep(t) \/ Closed(t) \/ EndUrb(t) \/ Expire(t)
      PROVE  UNCHANGED openDevs
  BY <1>4 DEF Close, LockEvents, Sweep, Closed, EndUrb, Expire, device, time
<1>5. UNCHANGED vars => UNCHANGED openDevs
  BY DEF vars
<1>6. Unplug => UNCHANGED openDevs
  BY DEF Unplug, time
<1> QED
  BY <1>1, <1>2, <1>3, <1>4, <1>5, <1>6 DEF Next, Proceed

\* The steps that change the timeouts.
LEMMA DueChanges ==
  ASSUME [Next]_vars
  PROVE  \/ UNCHANGED due
         \/ \E t \in Threads : Submit(t) \/ Return(t)
<1>1. ASSUME NEW t \in Threads,
             Open(t) \/ ListOpen(t) \/ BackendSubmit(t) \/ Submitted(t) \/ Unsubmit(t)
             \/ LookForTimeout(t) \/ TryLockEvents(t) \/ TryLock(t) \/ LockWaiters(t)
             \/ CheckActive(t) \/ Sleep(t) \/ Wake(t)
      PROVE  UNCHANGED due
  BY <1>1 DEF Open, ListOpen, BackendSubmit, Submitted, Unsubmit, LookForTimeout, TryLockEvents,
         TryLock, LockWaiters, CheckActive, Sleep, Wake, device, time
<1>2. ASSUME NEW t \in Threads,
             Rebuild(t) \/ Poll(t) \/ PollTimeout(t) \/ PollFails(t) \/ Pipe(t)
             \/ Dispatch(t) \/ NextHandle(t) \/ HandlesServed(t) \/ Reap(t) \/ ReapedAll(t)
             \/ Retire(t) \/ Reason(t)
      PROVE  UNCHANGED due
  BY <1>2 DEF Rebuild, Poll, PollTimeout, PollFails, Pipe, Dispatch, NextHandle, HandlesServed,
         Reap, ReapedAll, Retire, Reason, device, time
<1>3. ASSUME NEW t \in Threads,
             Complete(t) \/ Scan(t) \/ ClearPriv(t) \/ Detach(t) \/ LockFlying(t)
             \/ NextFlying(t) \/ Mark(t) \/ CancelOverdue(t) \/ CancelAndRetry(t)
             \/ ReleaseEvents(t) \/ Broadcast(t) \/ Close(t)
      PROVE  UNCHANGED due
  BY <1>3 DEF Complete, Scan, ClearPriv, Detach, LockFlying, NextFlying, Mark, CancelOverdue,
         CancelAndRetry, ReleaseEvents, Broadcast, Close, device, time
<1>4. ASSUME NEW t \in Threads,
             LockEvents(t) \/ Sweep(t) \/ DoClose(t) \/ Closed(t) \/ EndUrb(t) \/ Expire(t)
      PROVE  UNCHANGED due
  BY <1>4 DEF LockEvents, Sweep, DoClose, Closed, EndUrb, Expire, device, time
<1>5. UNCHANGED vars => UNCHANGED due
  BY DEF vars
<1>6. Unplug => UNCHANGED due
  BY DEF Unplug, time
<1> QED
  BY <1>1, <1>2, <1>3, <1>4, <1>5, <1>6 DEF Next, Proceed

\* The steps that change what is over time.
LEMMA ExpiredChanges ==
  ASSUME [Next]_vars
  PROVE  \/ UNCHANGED expired
         \/ \E t \in Threads : Return(t) \/ Expire(t)
<1>1. ASSUME NEW t \in Threads,
             Open(t) \/ ListOpen(t) \/ Submit(t) \/ BackendSubmit(t) \/ Submitted(t)
             \/ Unsubmit(t) \/ LookForTimeout(t) \/ TryLockEvents(t) \/ TryLock(t)
             \/ LockWaiters(t) \/ CheckActive(t) \/ Sleep(t)
      PROVE  UNCHANGED expired
  BY <1>1 DEF Open, ListOpen, Submit, BackendSubmit, Submitted, Unsubmit, LookForTimeout,
         TryLockEvents, TryLock, LockWaiters, CheckActive, Sleep, device, time
<1>2. ASSUME NEW t \in Threads,
             Wake(t) \/ Rebuild(t) \/ Poll(t) \/ PollTimeout(t) \/ PollFails(t) \/ Pipe(t)
             \/ Dispatch(t) \/ NextHandle(t) \/ HandlesServed(t) \/ Reap(t) \/ ReapedAll(t)
             \/ Retire(t)
      PROVE  UNCHANGED expired
  BY <1>2 DEF Wake, Rebuild, Poll, PollTimeout, PollFails, Pipe, Dispatch, NextHandle,
         HandlesServed, Reap, ReapedAll, Retire, device, time
<1>3. ASSUME NEW t \in Threads,
             Reason(t) \/ Complete(t) \/ Scan(t) \/ ClearPriv(t) \/ Detach(t)
             \/ LockFlying(t) \/ NextFlying(t) \/ Mark(t) \/ CancelOverdue(t)
             \/ CancelAndRetry(t) \/ ReleaseEvents(t) \/ Broadcast(t)
      PROVE  UNCHANGED expired
  BY <1>3 DEF Reason, Complete, Scan, ClearPriv, Detach, LockFlying, NextFlying, Mark,
         CancelOverdue, CancelAndRetry, ReleaseEvents, Broadcast, device, time
<1>4. ASSUME NEW t \in Threads,
             Close(t) \/ LockEvents(t) \/ Sweep(t) \/ DoClose(t) \/ Closed(t) \/ EndUrb(t)
      PROVE  UNCHANGED expired
  BY <1>4 DEF Close, LockEvents, Sweep, DoClose, Closed, EndUrb, device, time
<1>5. UNCHANGED vars => UNCHANGED expired
  BY DEF vars
<1>6. Unplug => UNCHANGED expired
  BY DEF Unplug, time
<1> QED
  BY <1>1, <1>2, <1>3, <1>4, <1>5, <1>6 DEF Next, Proceed

\* The steps that change the transfers.
LEMMA XferChanges ==
  ASSUME [Next]_vars
  PROVE  \/ UNCHANGED xfer
         \/ Unplug
         \/ \E t \in Threads : Submit(t) \/ BackendSubmit(t) \/ Submitted(t) \/ Unsubmit(t) \/ Return(t)
              \/ EndUrb(t) \/ Retire(t) \/ Complete(t) \/ Scan(t) \/ ClearPriv(t) \/ Mark(t)
              \/ CancelOverdue(t) \/ CancelAndRetry(t) \/ DoClose(t)
<1>1. ASSUME NEW t \in Threads,
             Open(t) \/ ListOpen(t) \/ LookForTimeout(t) \/ TryLockEvents(t) \/ TryLock(t)
             \/ LockWaiters(t) \/ CheckActive(t) \/ Sleep(t) \/ Wake(t) \/ Rebuild(t)
             \/ Poll(t) \/ PollTimeout(t)
      PROVE  UNCHANGED xfer
  BY <1>1 DEF Open, ListOpen, LookForTimeout, TryLockEvents, TryLock, LockWaiters, CheckActive,
         Sleep, Wake, Rebuild, Poll, PollTimeout, device, time
<1>2. ASSUME NEW t \in Threads,
             PollFails(t) \/ Pipe(t) \/ Dispatch(t) \/ NextHandle(t) \/ HandlesServed(t)
             \/ Reap(t) \/ ReapedAll(t) \/ Reason(t) \/ Detach(t) \/ LockFlying(t)
             \/ NextFlying(t) \/ ReleaseEvents(t)
      PROVE  UNCHANGED xfer
  BY <1>2 DEF PollFails, Pipe, Dispatch, NextHandle, HandlesServed, Reap, ReapedAll, Reason,
         Detach, LockFlying, NextFlying, ReleaseEvents, device, time
<1>3. ASSUME NEW t \in Threads,
             Broadcast(t) \/ Close(t) \/ LockEvents(t) \/ Sweep(t) \/ Closed(t) \/ Expire(t)
      PROVE  UNCHANGED xfer
  BY <1>3 DEF Broadcast, Close, LockEvents, Sweep, Closed, Expire, device, time
<1>4. UNCHANGED vars => UNCHANGED xfer
  BY DEF vars
<1> QED
  BY <1>1, <1>2, <1>3, <1>4 DEF Next, Proceed

\* The steps that change the threads' variables.
LEMMA LocChanges ==
  ASSUME [Next]_vars
  PROVE  \/ UNCHANGED loc
         \/ \E t \in Threads : Return(t) \/ LookForTimeout(t) \/ LockWaiters(t) \/ Wake(t) \/ Rebuild(t)
              \/ Poll(t) \/ PollTimeout(t) \/ PollFails(t) \/ Pipe(t) \/ NextHandle(t)
              \/ HandlesServed(t) \/ Retire(t) \/ Reason(t) \/ Complete(t) \/ ClearPriv(t)
              \/ LockFlying(t) \/ NextFlying(t) \/ CancelOverdue(t) \/ CancelAndRetry(t)
              \/ Broadcast(t)
<1>1. ASSUME NEW t \in Threads,
             Open(t) \/ ListOpen(t) \/ Submit(t) \/ BackendSubmit(t) \/ Submitted(t)
             \/ Unsubmit(t) \/ TryLockEvents(t) \/ TryLock(t) \/ CheckActive(t) \/ Sleep(t)
             \/ Dispatch(t) \/ Reap(t)
      PROVE  UNCHANGED loc
  BY <1>1 DEF Open, ListOpen, Submit, BackendSubmit, Submitted, Unsubmit, TryLockEvents, TryLock,
         CheckActive, Sleep, Dispatch, Reap, device, time
<1>2. ASSUME NEW t \in Threads,
             ReapedAll(t) \/ Scan(t) \/ Detach(t) \/ Mark(t) \/ ReleaseEvents(t) \/ Close(t)
             \/ LockEvents(t) \/ Sweep(t) \/ DoClose(t) \/ Closed(t) \/ EndUrb(t) \/ Expire(t)
      PROVE  UNCHANGED loc
  BY <1>2 DEF ReapedAll, Scan, Detach, Mark, ReleaseEvents, Close, LockEvents, Sweep, DoClose,
         Closed, EndUrb, Expire, device, time
<1>3. UNCHANGED vars => UNCHANGED loc
  BY DEF vars
<1>4. Unplug => UNCHANGED loc
  BY DEF Unplug, time
<1> QED
  BY <1>1, <1>2, <1>3, <1>4 DEF Next, Proceed

-----------------------------------------------------------------------------
(* Where the steps lead. *)

\* A thread goes from one place to another, and the others stay.
Leads(t, p, q) ==
  /\ pc[t] \in p /\ pc'[t] \in q
  /\ \A u \in Threads : u # t => pc'[u] = pc[u]

\* The steps of a thread, with their places.
Moves(t) ==
  \/ Open(t) /\ Leads(t, {"idle"}, {"idle", "opened"})
  \/ ListOpen(t) /\ Leads(t, {"opened"}, {"held"})
  \/ Submit(t) /\ Leads(t, {"held"}, {"submit"})
  \/ BackendSubmit(t) /\ Leads(t, {"submit"}, {"submitted"})
  \/ Submitted(t) /\ Leads(t, {"submitted"}, {"unsubmit", "wait"})
  \/ Unsubmit(t) /\ Leads(t, {"unsubmit"}, {"return"})
  \/ Return(t) /\ Leads(t, {"return", "wait"}, {"held"})
  \/ LookForTimeout(t) /\ Leads(t, {"wait"}, {"timeouts", "try"})
  \/ TryLockEvents(t) /\ Leads(t, {"try"}, {"waiters", "trylock"})
  \/ TryLock(t) /\ Leads(t, {"trylock"}, {"unlock", "rebuild", "waiters"})
  \/ LockWaiters(t) /\ Leads(t, {"waiters"}, {"wait", "check"})
  \/ CheckActive(t) /\ Leads(t, {"check"}, {"sleep", "try"})
  \/ Sleep(t) /\ Leads(t, {"sleep"}, {"asleep"})
  \/ Wake(t) /\ Leads(t, {"asleep"}, {"wait", "timeouts"})
  \/ Rebuild(t) /\ Leads(t, {"rebuild"}, {"poll"})
  \/ Poll(t) /\ Leads(t, {"poll"}, {"pipe", "dispatch"})
  \/ PollTimeout(t) /\ Leads(t, {"poll"}, {"timeouts"})
  \/ PollFails(t) /\ Leads(t, {"poll"}, {"unlock"})
  \/ Pipe(t) /\ Leads(t, {"pipe"}, {"dispatch", "poll", "unlock"})
  \/ Dispatch(t) /\ Leads(t, {"dispatch"}, {"handles"})
  \/ NextHandle(t) /\ Leads(t, {"handles"}, {"handles", "scan", "reap"})
  \/ HandlesServed(t) /\ Leads(t, {"handles"}, {"poll", "unlock"})
  \/ Reap(t) /\ Leads(t, {"reap"}, {"retire"})
  \/ ReapedAll(t) /\ Leads(t, {"reap"}, {"handles"})
  \/ Retire(t) /\ Leads(t, {"retire"}, {"reason", "complete"})
  \/ Reason(t) /\ Leads(t, {"reason"}, {"complete"})
  \/ Complete(t) /\ Leads(t, {"complete"}, {"scan", "reap"})
  \/ Scan(t) /\ Leads(t, {"scan"}, {"detach", "clear"})
  \/ ClearPriv(t) /\ Leads(t, {"clear"}, {"complete"})
  \/ Detach(t) /\ Leads(t, {"detach"}, {"handles"})
  \/ LockFlying(t) /\ Leads(t, {"timeouts"}, {"next"})
  \/ NextFlying(t) /\ Leads(t, {"next"}, {"next", "unlock", "wait", "mark"})
  \/ Mark(t) /\ Leads(t, {"mark"}, {"cancel"})
  \/ CancelOverdue(t) /\ Leads(t, {"cancel"}, {"next"})
  \/ CancelAndRetry(t) /\ Leads(t, {"failed"}, {"wait"})
  \/ ReleaseEvents(t) /\ (Leads(t, {"unlock"}, {"broadcast"}) \/ Leads(t, {"closeunlock"}, {"closecast"}))
  \/ Broadcast(t) /\ (Leads(t, {"broadcast"}, {"failed", "wait"})
                      \/ Leads(t, {"innercast"}, {"closefd"})
                      \/ Leads(t, {"closecast"}, {"idle"}))
  \/ Close(t) /\ Leads(t, {"held"}, {"lockevents"})
  \/ LockEvents(t) /\ Leads(t, {"lockevents"}, {"sweep"})
  \/ Sweep(t) /\ Leads(t, {"sweep"}, {"innercast"})
  \/ DoClose(t) /\ Leads(t, {"closefd"}, {"closed"})
  \/ Closed(t) /\ Leads(t, {"closed"}, {"closeunlock"})

\* A thread goes to a place, and the others stay.
LEMMA GotoEffect ==
  ASSUME pc \in [Threads -> Places], NEW t \in Threads, NEW p \in Places, Goto(t, p)
  PROVE  /\ pc' \in [Threads -> Places] /\ pc'[t] = p
         /\ \A u \in Threads : u # t => pc'[u] = pc[u]
BY DEF Goto

\* Nobody goes anywhere.
LEMMA StayEffect ==
  ASSUME pc \in [Threads -> Places], NEW t \in Threads, UNCHANGED pc
  PROVE  /\ pc' \in [Threads -> Places] /\ pc'[t] = pc[t]
         /\ \A u \in Threads : u # t => pc'[u] = pc[u]
OBVIOUS

\* Every step is one of a thread between its places, or moves nobody.
LEMMA PcChanges ==
  ASSUME TypeInv, [Next]_vars
  PROVE  /\ pc' \in [Threads -> Places]
         /\ UNCHANGED <<pc, loc>> \/ \E t \in Threads : Moves(t)
<1> USE DEF TypeInv
<1> DEFINE P == pc' \in [Threads -> Places]
<1>1. ASSUME NEW t \in Threads, Open(t) PROVE P /\ Moves(t)
  <2>1. pc[t] = "idle" /\ (UNCHANGED pc \/ Goto(t, "opened"))
    BY <1>1 DEF Open, At
  <2>2. P /\ Leads(t, {"idle"}, {"idle", "opened"})
    BY <2>1, GotoEffect, StayEffect DEF Leads, Places, Submitting, Waiting, Handling, TimingOut, Closing
  <2> QED
    BY <1>1, <2>2 DEF Moves
<1>2. ASSUME NEW t \in Threads, ListOpen(t) PROVE P /\ Moves(t)
  <2>1. pc[t] \in {"opened"} /\ (Goto(t, "held"))
    BY <1>2 DEF ListOpen, At
  <2>2. P /\ Leads(t, {"opened"}, {"held"})
    BY <2>1, GotoEffect DEF Leads, Places, Submitting, Waiting, Handling, TimingOut, Closing
  <2> QED
    BY <1>2, <2>2 DEF Moves
<1>3. ASSUME NEW t \in Threads, Submit(t) PROVE P /\ Moves(t)
  <2>1. pc[t] \in {"held"} /\ (Goto(t, "submit"))
    BY <1>3 DEF Submit, At
  <2>2. P /\ Leads(t, {"held"}, {"submit"})
    BY <2>1, GotoEffect DEF Leads, Places, Submitting, Waiting, Handling, TimingOut, Closing
  <2> QED
    BY <1>3, <2>2 DEF Moves
<1>4. ASSUME NEW t \in Threads, BackendSubmit(t) PROVE P /\ Moves(t)
  <2>1. pc[t] \in {"submit"} /\ (Goto(t, "submitted"))
    BY <1>4 DEF BackendSubmit, At
  <2>2. P /\ Leads(t, {"submit"}, {"submitted"})
    BY <2>1, GotoEffect DEF Leads, Places, Submitting, Waiting, Handling, TimingOut, Closing
  <2> QED
    BY <1>4, <2>2 DEF Moves
<1>5. ASSUME NEW t \in Threads, Submitted(t) PROVE P /\ Moves(t)
  <2>1. pc[t] \in {"submitted"} /\ (Goto(t, "unsubmit") \/ Goto(t, "wait"))
    BY <1>5 DEF Submitted, At
  <2>2. P /\ Leads(t, {"submitted"}, {"unsubmit", "wait"})
    BY <2>1, GotoEffect DEF Leads, Places, Submitting, Waiting, Handling, TimingOut, Closing
  <2> QED
    BY <1>5, <2>2 DEF Moves
<1>6. ASSUME NEW t \in Threads, Unsubmit(t) PROVE P /\ Moves(t)
  <2>1. pc[t] \in {"unsubmit"} /\ (Goto(t, "return"))
    BY <1>6 DEF Unsubmit, At
  <2>2. P /\ Leads(t, {"unsubmit"}, {"return"})
    BY <2>1, GotoEffect DEF Leads, Places, Submitting, Waiting, Handling, TimingOut, Closing
  <2> QED
    BY <1>6, <2>2 DEF Moves
<1>7. ASSUME NEW t \in Threads, Return(t) PROVE P /\ Moves(t)
  <2>1. pc[t] \in {"return", "wait"} /\ (Goto(t, "held"))
    BY <1>7 DEF Return, At
  <2>2. P /\ Leads(t, {"return", "wait"}, {"held"})
    BY <2>1, GotoEffect DEF Leads, Places, Submitting, Waiting, Handling, TimingOut, Closing
  <2> QED
    BY <1>7, <2>2 DEF Moves
<1>8. ASSUME NEW t \in Threads, LookForTimeout(t) PROVE P /\ Moves(t)
  <2>1. pc[t] \in {"wait"} /\ (Goto(t, "timeouts") \/ Goto(t, "try"))
    BY <1>8 DEF LookForTimeout, At
  <2>2. P /\ Leads(t, {"wait"}, {"timeouts", "try"})
    BY <2>1, GotoEffect DEF Leads, Places, Submitting, Waiting, Handling, TimingOut, Closing
  <2> QED
    BY <1>8, <2>2 DEF Moves
<1>9. ASSUME NEW t \in Threads, TryLockEvents(t) PROVE P /\ Moves(t)
  <2>1. pc[t] \in {"try"} /\ (Goto(t, "waiters") \/ Goto(t, "trylock"))
    BY <1>9 DEF TryLockEvents, At
  <2>2. P /\ Leads(t, {"try"}, {"waiters", "trylock"})
    BY <2>1, GotoEffect DEF Leads, Places, Submitting, Waiting, Handling, TimingOut, Closing
  <2> QED
    BY <1>9, <2>2 DEF Moves
<1>10. ASSUME NEW t \in Threads, TryLock(t) PROVE P /\ Moves(t)
  <2>1. pc[t] \in {"trylock"} /\ (Goto(t, "unlock") \/ Goto(t, "rebuild") \/ Goto(t, "waiters"))
    BY <1>10 DEF TryLock, At
  <2>2. P /\ Leads(t, {"trylock"}, {"unlock", "rebuild", "waiters"})
    BY <2>1, GotoEffect DEF Leads, Places, Submitting, Waiting, Handling, TimingOut, Closing
  <2> QED
    BY <1>10, <2>2 DEF Moves
<1>11. ASSUME NEW t \in Threads, LockWaiters(t) PROVE P /\ Moves(t)
  <2>1. pc[t] \in {"waiters"} /\ (Goto(t, "wait") \/ Goto(t, "check"))
    BY <1>11 DEF LockWaiters, At
  <2>2. P /\ Leads(t, {"waiters"}, {"wait", "check"})
    BY <2>1, GotoEffect DEF Leads, Places, Submitting, Waiting, Handling, TimingOut, Closing
  <2> QED
    BY <1>11, <2>2 DEF Moves
<1>12. ASSUME NEW t \in Threads, CheckActive(t) PROVE P /\ Moves(t)
  <2>1. pc[t] \in {"check"} /\ (Goto(t, "sleep") \/ Goto(t, "try"))
    BY <1>12 DEF CheckActive, At
  <2>2. P /\ Leads(t, {"check"}, {"sleep", "try"})
    BY <2>1, GotoEffect DEF Leads, Places, Submitting, Waiting, Handling, TimingOut, Closing
  <2> QED
    BY <1>12, <2>2 DEF Moves
<1>13. ASSUME NEW t \in Threads, Sleep(t) PROVE P /\ Moves(t)
  <2>1. pc[t] \in {"sleep"} /\ (Goto(t, "asleep"))
    BY <1>13 DEF Sleep, At
  <2>2. P /\ Leads(t, {"sleep"}, {"asleep"})
    BY <2>1, GotoEffect DEF Leads, Places, Submitting, Waiting, Handling, TimingOut, Closing
  <2> QED
    BY <1>13, <2>2 DEF Moves
<1>14. ASSUME NEW t \in Threads, Wake(t) PROVE P /\ Moves(t)
  <2>1. pc[t] \in {"asleep"} /\ (Goto(t, "wait") \/ Goto(t, "timeouts"))
    BY <1>14 DEF Wake, At
  <2>2. P /\ Leads(t, {"asleep"}, {"wait", "timeouts"})
    BY <2>1, GotoEffect DEF Leads, Places, Submitting, Waiting, Handling, TimingOut, Closing
  <2> QED
    BY <1>14, <2>2 DEF Moves
<1>15. ASSUME NEW t \in Threads, Rebuild(t) PROVE P /\ Moves(t)
  <2>1. pc[t] \in {"rebuild"} /\ (Goto(t, "poll"))
    BY <1>15 DEF Rebuild, At
  <2>2. P /\ Leads(t, {"rebuild"}, {"poll"})
    BY <2>1, GotoEffect DEF Leads, Places, Submitting, Waiting, Handling, TimingOut, Closing
  <2> QED
    BY <1>15, <2>2 DEF Moves
<1>16. ASSUME NEW t \in Threads, Poll(t) PROVE P /\ Moves(t)
  <2>1. pc[t] \in {"poll"} /\ (Goto(t, "pipe") \/ Goto(t, "dispatch"))
    BY <1>16 DEF Poll, At
  <2>2. P /\ Leads(t, {"poll"}, {"pipe", "dispatch"})
    BY <2>1, GotoEffect DEF Leads, Places, Submitting, Waiting, Handling, TimingOut, Closing
  <2> QED
    BY <1>16, <2>2 DEF Moves
<1>17. ASSUME NEW t \in Threads, PollTimeout(t) PROVE P /\ Moves(t)
  <2>1. pc[t] \in {"poll"} /\ (Goto(t, "timeouts"))
    BY <1>17 DEF PollTimeout, At
  <2>2. P /\ Leads(t, {"poll"}, {"timeouts"})
    BY <2>1, GotoEffect DEF Leads, Places, Submitting, Waiting, Handling, TimingOut, Closing
  <2> QED
    BY <1>17, <2>2 DEF Moves
<1>18. ASSUME NEW t \in Threads, PollFails(t) PROVE P /\ Moves(t)
  <2>1. pc[t] \in {"poll"} /\ (Goto(t, "unlock"))
    BY <1>18 DEF PollFails, At
  <2>2. P /\ Leads(t, {"poll"}, {"unlock"})
    BY <2>1, GotoEffect DEF Leads, Places, Submitting, Waiting, Handling, TimingOut, Closing
  <2> QED
    BY <1>18, <2>2 DEF Moves
<1>19. ASSUME NEW t \in Threads, Pipe(t) PROVE P /\ Moves(t)
  <2>1. pc[t] \in {"pipe"} /\ (Goto(t, "dispatch") \/ Goto(t, "poll") \/ Goto(t, "unlock"))
    BY <1>19 DEF Pipe, At
  <2>2. P /\ Leads(t, {"pipe"}, {"dispatch", "poll", "unlock"})
    BY <2>1, GotoEffect DEF Leads, Places, Submitting, Waiting, Handling, TimingOut, Closing
  <2> QED
    BY <1>19, <2>2 DEF Moves
<1>20. ASSUME NEW t \in Threads, Dispatch(t) PROVE P /\ Moves(t)
  <2>1. pc[t] \in {"dispatch"} /\ (Goto(t, "handles"))
    BY <1>20 DEF Dispatch, At
  <2>2. P /\ Leads(t, {"dispatch"}, {"handles"})
    BY <2>1, GotoEffect DEF Leads, Places, Submitting, Waiting, Handling, TimingOut, Closing
  <2> QED
    BY <1>20, <2>2 DEF Moves
<1>21. ASSUME NEW t \in Threads, NextHandle(t) PROVE P /\ Moves(t)
  <2>1. pc[t] = "handles" /\ (UNCHANGED pc \/ Goto(t, "scan") \/ Goto(t, "reap"))
    BY <1>21 DEF NextHandle, At
  <2>2. P /\ Leads(t, {"handles"}, {"handles", "scan", "reap"})
    BY <2>1, GotoEffect, StayEffect DEF Leads, Places, Submitting, Waiting, Handling, TimingOut, Closing
  <2> QED
    BY <1>21, <2>2 DEF Moves
<1>22. ASSUME NEW t \in Threads, HandlesServed(t) PROVE P /\ Moves(t)
  <2>1. pc[t] \in {"handles"} /\ (Goto(t, "poll") \/ Goto(t, "unlock"))
    BY <1>22 DEF HandlesServed, At
  <2>2. P /\ Leads(t, {"handles"}, {"poll", "unlock"})
    BY <2>1, GotoEffect DEF Leads, Places, Submitting, Waiting, Handling, TimingOut, Closing
  <2> QED
    BY <1>22, <2>2 DEF Moves
<1>23. ASSUME NEW t \in Threads, Reap(t) PROVE P /\ Moves(t)
  <2>1. pc[t] \in {"reap"} /\ (Goto(t, "retire"))
    BY <1>23 DEF Reap, At
  <2>2. P /\ Leads(t, {"reap"}, {"retire"})
    BY <2>1, GotoEffect DEF Leads, Places, Submitting, Waiting, Handling, TimingOut, Closing
  <2> QED
    BY <1>23, <2>2 DEF Moves
<1>24. ASSUME NEW t \in Threads, ReapedAll(t) PROVE P /\ Moves(t)
  <2>1. pc[t] \in {"reap"} /\ (Goto(t, "handles"))
    BY <1>24 DEF ReapedAll, At
  <2>2. P /\ Leads(t, {"reap"}, {"handles"})
    BY <2>1, GotoEffect DEF Leads, Places, Submitting, Waiting, Handling, TimingOut, Closing
  <2> QED
    BY <1>24, <2>2 DEF Moves
<1>25. ASSUME NEW t \in Threads, Retire(t) PROVE P /\ Moves(t)
  <2>1. pc[t] \in {"retire"} /\ (Goto(t, "reason") \/ Goto(t, "complete"))
    BY <1>25 DEF Retire, At
  <2>2. P /\ Leads(t, {"retire"}, {"reason", "complete"})
    BY <2>1, GotoEffect DEF Leads, Places, Submitting, Waiting, Handling, TimingOut, Closing
  <2> QED
    BY <1>25, <2>2 DEF Moves
<1>26. ASSUME NEW t \in Threads, Reason(t) PROVE P /\ Moves(t)
  <2>1. pc[t] \in {"reason"} /\ (Goto(t, "complete"))
    BY <1>26 DEF Reason, At
  <2>2. P /\ Leads(t, {"reason"}, {"complete"})
    BY <2>1, GotoEffect DEF Leads, Places, Submitting, Waiting, Handling, TimingOut, Closing
  <2> QED
    BY <1>26, <2>2 DEF Moves
<1>27. ASSUME NEW t \in Threads, Complete(t) PROVE P /\ Moves(t)
  <2>1. pc[t] \in {"complete"} /\ (Goto(t, "scan") \/ Goto(t, "reap"))
    BY <1>27 DEF Complete, At
  <2>2. P /\ Leads(t, {"complete"}, {"scan", "reap"})
    BY <2>1, GotoEffect DEF Leads, Places, Submitting, Waiting, Handling, TimingOut, Closing
  <2> QED
    BY <1>27, <2>2 DEF Moves
<1>28. ASSUME NEW t \in Threads, Scan(t) PROVE P /\ Moves(t)
  <2>1. pc[t] \in {"scan"} /\ (Goto(t, "detach") \/ Goto(t, "clear"))
    BY <1>28 DEF Scan, At
  <2>2. P /\ Leads(t, {"scan"}, {"detach", "clear"})
    BY <2>1, GotoEffect DEF Leads, Places, Submitting, Waiting, Handling, TimingOut, Closing
  <2> QED
    BY <1>28, <2>2 DEF Moves
<1>29. ASSUME NEW t \in Threads, ClearPriv(t) PROVE P /\ Moves(t)
  <2>1. pc[t] \in {"clear"} /\ (Goto(t, "complete"))
    BY <1>29 DEF ClearPriv, At
  <2>2. P /\ Leads(t, {"clear"}, {"complete"})
    BY <2>1, GotoEffect DEF Leads, Places, Submitting, Waiting, Handling, TimingOut, Closing
  <2> QED
    BY <1>29, <2>2 DEF Moves
<1>30. ASSUME NEW t \in Threads, Detach(t) PROVE P /\ Moves(t)
  <2>1. pc[t] \in {"detach"} /\ (Goto(t, "handles"))
    BY <1>30 DEF Detach, At
  <2>2. P /\ Leads(t, {"detach"}, {"handles"})
    BY <2>1, GotoEffect DEF Leads, Places, Submitting, Waiting, Handling, TimingOut, Closing
  <2> QED
    BY <1>30, <2>2 DEF Moves
<1>31. ASSUME NEW t \in Threads, LockFlying(t) PROVE P /\ Moves(t)
  <2>1. pc[t] \in {"timeouts"} /\ (Goto(t, "next"))
    BY <1>31 DEF LockFlying, At
  <2>2. P /\ Leads(t, {"timeouts"}, {"next"})
    BY <2>1, GotoEffect DEF Leads, Places, Submitting, Waiting, Handling, TimingOut, Closing
  <2> QED
    BY <1>31, <2>2 DEF Moves
<1>32. ASSUME NEW t \in Threads, NextFlying(t) PROVE P /\ Moves(t)
  <2>1. pc[t] = "next" /\ (UNCHANGED pc \/ Goto(t, "unlock") \/ Goto(t, "wait") \/ Goto(t, "mark"))
    BY <1>32 DEF NextFlying, At
  <2>2. P /\ Leads(t, {"next"}, {"next", "unlock", "wait", "mark"})
    BY <2>1, GotoEffect, StayEffect DEF Leads, Places, Submitting, Waiting, Handling, TimingOut, Closing
  <2> QED
    BY <1>32, <2>2 DEF Moves
<1>33. ASSUME NEW t \in Threads, Mark(t) PROVE P /\ Moves(t)
  <2>1. pc[t] \in {"mark"} /\ (Goto(t, "cancel"))
    BY <1>33 DEF Mark, At
  <2>2. P /\ Leads(t, {"mark"}, {"cancel"})
    BY <2>1, GotoEffect DEF Leads, Places, Submitting, Waiting, Handling, TimingOut, Closing
  <2> QED
    BY <1>33, <2>2 DEF Moves
<1>34. ASSUME NEW t \in Threads, CancelOverdue(t) PROVE P /\ Moves(t)
  <2>1. pc[t] \in {"cancel"} /\ (Goto(t, "next"))
    BY <1>34 DEF CancelOverdue, At
  <2>2. P /\ Leads(t, {"cancel"}, {"next"})
    BY <2>1, GotoEffect DEF Leads, Places, Submitting, Waiting, Handling, TimingOut, Closing
  <2> QED
    BY <1>34, <2>2 DEF Moves
<1>35. ASSUME NEW t \in Threads, CancelAndRetry(t) PROVE P /\ Moves(t)
  <2>1. pc[t] \in {"failed"} /\ (Goto(t, "wait"))
    BY <1>35 DEF CancelAndRetry, At
  <2>2. P /\ Leads(t, {"failed"}, {"wait"})
    BY <2>1, GotoEffect DEF Leads, Places, Submitting, Waiting, Handling, TimingOut, Closing
  <2> QED
    BY <1>35, <2>2 DEF Moves
<1>36. ASSUME NEW t \in Threads, ReleaseEvents(t) PROVE P /\ Moves(t)
  <2>0. pc[t] = "unlock" \/ pc[t] = "closeunlock"
    BY <1>36 DEF ReleaseEvents, At
  <2>1. CASE pc[t] = "unlock"
    <3>1. Goto(t, "broadcast")
      BY <1>36, <2>1 DEF ReleaseEvents, At
    <3>2. P /\ Leads(t, {"unlock"}, {"broadcast"})
      BY <2>1, <3>1, GotoEffect DEF Leads, Places, Submitting, Waiting, Handling, TimingOut, Closing
    <3> QED
      BY <1>36, <3>2 DEF Moves
  <2>2. CASE pc[t] = "closeunlock"
    <3>1. Goto(t, "closecast")
      BY <1>36, <2>2 DEF ReleaseEvents, At
    <3>2. P /\ Leads(t, {"closeunlock"}, {"closecast"})
      BY <2>2, <3>1, GotoEffect DEF Leads, Places, Submitting, Waiting, Handling, TimingOut, Closing
    <3> QED
      BY <1>36, <3>2 DEF Moves
  <2> QED
    BY <2>0, <2>1, <2>2
<1>37. ASSUME NEW t \in Threads, Broadcast(t) PROVE P /\ Moves(t)
  <2>0. pc[t] = "broadcast" \/ pc[t] = "innercast" \/ pc[t] = "closecast"
    BY <1>37 DEF Broadcast, At
  <2>1. CASE pc[t] = "broadcast"
    <3>1. Goto(t, "failed") \/ Goto(t, "wait")
      BY <1>37, <2>1 DEF Broadcast, At, AfterUnlock
    <3>2. P /\ Leads(t, {"broadcast"}, {"failed", "wait"})
      BY <2>1, <3>1, GotoEffect DEF Leads, Places, Submitting, Waiting, Handling, TimingOut, Closing
    <3> QED
      BY <1>37, <3>2 DEF Moves
  <2>2. CASE pc[t] = "innercast"
    <3>1. Goto(t, "closefd")
      BY <1>37, <2>2 DEF Broadcast, At, AfterUnlock
    <3>2. P /\ Leads(t, {"innercast"}, {"closefd"})
      BY <2>2, <3>1, GotoEffect DEF Leads, Places, Submitting, Waiting, Handling, TimingOut, Closing
    <3> QED
      BY <1>37, <3>2 DEF Moves
  <2>3. CASE pc[t] = "closecast"
    <3>1. Goto(t, "idle")
      BY <1>37, <2>3 DEF Broadcast, At, AfterUnlock
    <3>2. P /\ Leads(t, {"closecast"}, {"idle"})
      BY <2>3, <3>1, GotoEffect DEF Leads, Places, Submitting, Waiting, Handling, TimingOut, Closing
    <3> QED
      BY <1>37, <3>2 DEF Moves
  <2> QED
    BY <2>0, <2>1, <2>2, <2>3
<1>38. ASSUME NEW t \in Threads, Close(t) PROVE P /\ Moves(t)
  <2>1. pc[t] \in {"held"} /\ (Goto(t, "lockevents"))
    BY <1>38 DEF Close, At
  <2>2. P /\ Leads(t, {"held"}, {"lockevents"})
    BY <2>1, GotoEffect DEF Leads, Places, Submitting, Waiting, Handling, TimingOut, Closing
  <2> QED
    BY <1>38, <2>2 DEF Moves
<1>39. ASSUME NEW t \in Threads, LockEvents(t) PROVE P /\ Moves(t)
  <2>1. pc[t] \in {"lockevents"} /\ (Goto(t, "sweep"))
    BY <1>39 DEF LockEvents, At
  <2>2. P /\ Leads(t, {"lockevents"}, {"sweep"})
    BY <2>1, GotoEffect DEF Leads, Places, Submitting, Waiting, Handling, TimingOut, Closing
  <2> QED
    BY <1>39, <2>2 DEF Moves
<1>40. ASSUME NEW t \in Threads, Sweep(t) PROVE P /\ Moves(t)
  <2>1. pc[t] \in {"sweep"} /\ (Goto(t, "innercast"))
    BY <1>40 DEF Sweep, At
  <2>2. P /\ Leads(t, {"sweep"}, {"innercast"})
    BY <2>1, GotoEffect DEF Leads, Places, Submitting, Waiting, Handling, TimingOut, Closing
  <2> QED
    BY <1>40, <2>2 DEF Moves
<1>41. ASSUME NEW t \in Threads, DoClose(t) PROVE P /\ Moves(t)
  <2>1. pc[t] \in {"closefd"} /\ (Goto(t, "closed"))
    BY <1>41 DEF DoClose, At
  <2>2. P /\ Leads(t, {"closefd"}, {"closed"})
    BY <2>1, GotoEffect DEF Leads, Places, Submitting, Waiting, Handling, TimingOut, Closing
  <2> QED
    BY <1>41, <2>2 DEF Moves
<1>42. ASSUME NEW t \in Threads, Closed(t) PROVE P /\ Moves(t)
  <2>1. pc[t] \in {"closed"} /\ (Goto(t, "closeunlock"))
    BY <1>42 DEF Closed, At
  <2>2. P /\ Leads(t, {"closed"}, {"closeunlock"})
    BY <2>1, GotoEffect DEF Leads, Places, Submitting, Waiting, Handling, TimingOut, Closing
  <2> QED
    BY <1>42, <2>2 DEF Moves
<1>43. UNCHANGED vars \/ Unplug \/ (\E t \in Threads : EndUrb(t) \/ Expire(t)) => P /\ UNCHANGED <<pc, loc>>
  BY DEF vars, Unplug, EndUrb, Expire
<1> HIDE DEF P
<1> QED
  BY <1>1, <1>2, <1>3, <1>4, <1>5, <1>6, <1>7, <1>8, <1>9, <1>10, <1>11, <1>12, <1>13, <1>14,
     <1>15, <1>16, <1>17, <1>18, <1>19, <1>20, <1>21, <1>22, <1>23, <1>24, <1>25, <1>26,
     <1>27, <1>28, <1>29, <1>30, <1>31, <1>32, <1>33, <1>34, <1>35, <1>36, <1>37, <1>38,
     <1>39, <1>40, <1>41, <1>42, <1>43 DEF Next, Proceed, P

\* The transfer that a handler is about is one.
LEMMA CurIsThread ==
  ASSUME Inv, NEW t \in Threads, pc[t] \in CurPlaces
  PROVE  loc[t].cur \in Threads /\ loc[t].cur \in OpenHandles
BY DEF Inv, FdsInv, CurPlaces, Serving, Handling, OpenHandles

\* So is the one that handle_timeouts is at.
LEMMA AtIsThread ==
  ASSUME Inv, NEW t \in Threads, pc[t] \in {"mark", "cancel"}
  PROVE  flying[loc[t].at] \in Threads /\ Flies(flying[loc[t].at])
<1>1. loc[t].at \in 1 .. Len(flying)
  BY LenProperties DEF Inv, ListInv, TypeInv, Locals
<1> QED
  BY <1>1, ElementOfSeq, LenProperties DEF Inv, TypeInv, Flies, Range

\* add_to_flying_list finds a place in the list or after it.
LEMMA PlaceInList ==
  ASSUME TypeInv, NEW x \in Threads
  PROVE  Place(x) \in 1 .. Len(flying) + 1
<1> DEFINE later == {i \in DOMAIN flying : x \in Timed /\ (flying[i] \notin Timed \/ Before(x, flying[i]))}
<1>1. Len(flying) \in Nat /\ DOMAIN flying = 1 .. Len(flying)
  BY LenProperties DEF TypeInv
<1>2. Place(x) = IF later = {} THEN Len(flying) + 1 ELSE Min(later)
  BY DEF Place
<1>3. later \in SUBSET Nat /\ later \subseteq 1 .. Len(flying)
  BY <1>1
<1> HIDE DEF later
<1>4. later # {} => Min(later) \in later
  BY <1>3, MinIsLeast
<1>5. Place(x) \in 1 .. Len(flying) \/ Place(x) = Len(flying) + 1
  BY <1>2, <1>3, <1>4
<1> QED
  BY <1>1, <1>5

\* What becomes of the list of flying transfers.
LEMMA SubmitList ==
  ASSUME TypeInv, NEW t \in Threads, Submit(t)
  PROVE  /\ flying' \in Seq(Threads) /\ Range(flying') = Range(flying) \cup {t}
         /\ IsInjective(flying) /\ ~Flies(t) => IsInjective(flying')
<1>1. flying' = InsertAt(flying, Place(t), t)
  BY DEF Submit
<1> QED
  BY <1>1, PlaceInList, InsertFacts DEF TypeInv, Flies

\* A failed submission and a close take their transfer from the list ...
LEMMA RemovedFromList ==
  ASSUME TypeInv, NEW t \in Threads, Unsubmit(t) \/ Sweep(t)
  PROVE  /\ flying' \in Seq(Threads)
         /\ IsInjective(flying) => IsInjective(flying') /\ Range(flying') = Range(flying) \ {t}
<1>1. flying' = Without(flying, t)
  BY DEF Unsubmit, Sweep
<1> QED
  BY <1>1, WithoutFacts DEF TypeInv

\* ... and a handler the one that it completes.
LEMMA CompletedList ==
  ASSUME TypeInv, NEW t \in Threads, Complete(t)
  PROVE  /\ flying' \in Seq(Threads)
         /\ IsInjective(flying) => /\ IsInjective(flying')
                                   /\ Range(flying') = Range(flying) \ {loc[t].cur}
<1>1. flying' = Without(flying, loc[t].cur)
  BY DEF Complete
<1> QED
  BY <1>1, WithoutFacts DEF TypeInv

\* calculate_timeout: the list of timeouts.
LEMMA ScheduleType ==
  ASSUME TypeInv, NEW t \in Threads, Schedule(t)
  PROVE  due' \in Seq(Timed)
<1>1. CASE t \in Timed
  <2>1. PICK i \in Cardinality(expired) + 1 .. Len(due) + 1 : due' = InsertAt(due, i, t)
    BY <1>1 DEF Schedule
  <2>2. Cardinality(expired) \in Nat /\ Len(due) \in Nat
    <3>1. expired \subseteq Threads /\ IsFiniteSet(Threads)
      BY UsbIoAssumption DEF TypeInv
    <3>2. IsFiniteSet(expired)
      BY <3>1, FS_Subset
    <3> QED
      BY <3>2, FS_CardinalityType, LenProperties DEF TypeInv
  <2>3. i \in 1 .. Len(due) + 1
    BY <2>2
  <2> QED
    BY <1>1, <2>1, <2>3, InsertFacts DEF TypeInv
<1>2. CASE t \notin Timed
  BY <1>2 DEF Schedule, TypeInv
<1> QED
  BY <1>1, <1>2

\* The lists are lists.
LEMMA ListsTyped ==
  ASSUME TypeInv, [Next]_vars
  PROVE  flying' \in Seq(Threads) /\ due' \in Seq(Timed)
<1>1. ASSUME NEW t \in Threads, Submit(t) PROVE flying' \in Seq(Threads) /\ due' \in Seq(Timed)
  BY <1>1, SubmitList, ScheduleType DEF Submit
<1>2. ASSUME NEW t \in Threads, Unsubmit(t) \/ Sweep(t) PROVE flying' \in Seq(Threads)
  BY <1>2, RemovedFromList
<1>3. ASSUME NEW t \in Threads, Complete(t) PROVE flying' \in Seq(Threads)
  BY <1>3, CompletedList
<1>4. ASSUME NEW t \in Threads, Return(t) PROVE due' \in Seq(Timed)
  BY <1>4, WithoutFacts DEF Return, TypeInv
<1>5. flying' \in Seq(Threads)
  BY <1>1, <1>2, <1>3, FlyingChanges DEF TypeInv
<1>6. due' \in Seq(Timed)
  BY <1>1, <1>4, DueChanges DEF TypeInv
<1> QED
  BY <1>5, <1>6

\* Sets of threads are sets of threads.
LEMMA SetsTyped ==
  ASSUME TypeInv, [Next]_vars
  PROVE  /\ plugged' \in BOOLEAN /\ attached' \in BOOLEAN /\ refs' \in Int
         /\ sleeping' \subseteq Threads /\ openDevs' \subseteq Threads /\ expired' \subseteq Timed
<1>1. plugged' \in BOOLEAN
  BY PluggedChanges DEF Unplug, TypeInv
<1>2. attached' \in BOOLEAN
  BY AttachedChanges DEF Open, Detach, DeviceLeaves, TypeInv
<1>3. refs' \in Int
  <2>1. ASSUME NEW t \in Threads, Open(t) \/ BackendSubmit(t) \/ Submitted(t)
        PROVE  refs' = refs \/ refs' = refs + 1 \/ refs' = refs - 1
    BY <2>1 DEF Open, BackendSubmit, Submitted
  <2>2. ASSUME NEW t \in Threads, Pipe(t) \/ Complete(t) \/ DoClose(t)
        PROVE  refs' = refs \/ refs' = refs - 1
    BY <2>2 DEF Pipe, Complete, DoClose
  <2>3. refs' = refs \/ refs' = refs + 1 \/ refs' = refs - 1
    BY <2>1, <2>2, RefsChanges
  <2> QED
    BY <2>3 DEF TypeInv
<1>4. sleeping' \subseteq Threads
  BY SleepingChanges DEF Sleep, Wake, Broadcast, TypeInv
<1>5. openDevs' \subseteq Threads
  BY OpenDevsChanges DEF ListOpen, DoClose, TypeInv
<1>6. expired' \subseteq Timed
  <2>1. ASSUME NEW t \in Threads, Expire(t) PROVE expired' \subseteq Timed
    <3>1. t \in Range(due) /\ expired' = expired \cup {t}
      BY <2>1 DEF Expire
    <3>2. t \in Timed
      <4>1. PICK i \in DOMAIN due : due[i] = t
        BY <3>1 DEF Range
      <4> QED
        BY <4>1, ElementOfSeq, LenProperties DEF TypeInv
    <3> QED
      BY <3>1, <3>2 DEF TypeInv
  <2> QED
    BY <2>1, ExpiredChanges DEF Return, TypeInv
<1> QED
  BY <1>1, <1>2, <1>3, <1>4, <1>5, <1>6

\* handle_timeouts, the variables of the thread.
LEMMA NextFlyingLocals ==
  ASSUME Inv, NEW t \in Threads, NextFlying(t)
  PROVE  /\ loc' \in [Threads -> Locals]
         /\ \A u \in Threads : u # t => loc'[u] = loc[u]
         /\ loc'[t].gone = loc[t].gone
         /\ pc'[t] \in {"next", "mark"} => loc'[t].at > 0
         /\ pc'[t] = "mark" => /\ loc'[t].at <= Len(flying) /\ flying[loc'[t].at] \in Threads
                               /\ loc'[t].seen = xfer[flying[loc'[t].at]].flags
<1>0. TypeInv
  BY DEF Inv
<1> USE <1>0 DEF TypeInv
<1> DEFINE i == loc[t].at
           x == flying[i]
           Over == i > Len(flying) \/ x \notin Timed \/ ("TIMED_OUT" \notin xfer[x].flags /\ x \notin expired)
<1>1. /\ i \in Nat /\ i > 0 /\ Len(flying) \in Nat /\ pc[t] = "next"
      /\ ("mark" # "next" /\ "mark" # "unlock" /\ "mark" # "wait")
  BY LenProperties DEF Locals, NextFlying, At, Inv, ListInv
<1>2. CASE Over
  <2>1. /\ loc' = [loc EXCEPT ![t].at = 0, ![t].seen = {}]
        /\ Goto(t, "unlock") \/ Goto(t, "wait")
    BY <1>2 DEF NextFlying
  <2>2. pc'[t] \notin {"next", "mark"}
    BY <2>1 DEF Goto
  <2> QED
    BY <2>1, <2>2, LeavesList
<1>3. CASE ~Over
  <2>1. x \in Threads /\ i <= Len(flying)
    BY <1>1, <1>3, UsbIoAssumption
  <2>2. \/ UNCHANGED pc /\ loc' = [loc EXCEPT ![t].at = @ + 1]
        \/ loc' = [loc EXCEPT ![t].seen = xfer[x].flags] /\ Goto(t, "mark")
    BY <1>3 DEF NextFlying
  <2> HIDE DEF Over
  <2>3. CASE UNCHANGED pc /\ loc' = [loc EXCEPT ![t].at = @ + 1]
    <3>1. /\ loc' \in [Threads -> Locals]
          /\ \A u \in Threads : u # t => loc'[u] = loc[u]
          /\ loc'[t].gone = loc[t].gone /\ loc'[t].at = i + 1
      BY <2>3, AtMoves
    <3>2. pc'[t] # "mark" /\ i + 1 > 0
      BY <1>1, <2>3
    <3> QED
      BY <3>1, <3>2
  <2>4. CASE loc' = [loc EXCEPT ![t].seen = xfer[x].flags]
    <3>1. PICK fl \in SUBSET Flags : fl = xfer[x].flags
      BY <2>1 DEF Transfer
    <3>0. loc' = [loc EXCEPT ![t].seen = fl] /\ loc \in [Threads -> Locals]
      BY <2>4, <3>1
    <3>6. /\ loc' \in [Threads -> Locals]
          /\ \A u \in Threads : u # t => loc'[u] = loc[u]
          /\ loc'[t].gone = loc[t].gone /\ loc'[t].at = loc[t].at /\ loc'[t].seen = fl
      BY ONLY <3>0, SeenChanges
    <3>2. /\ loc' \in [Threads -> Locals]
          /\ \A u \in Threads : u # t => loc'[u] = loc[u]
          /\ loc'[t].gone = loc[t].gone /\ loc'[t].at = i /\ loc'[t].seen = xfer[x].flags
      BY <3>1, <3>6
    <3>3. loc'[t].gone = loc[t].gone /\ loc'[t].at > 0 /\ loc'[t].at <= Len(flying)
      BY <1>1, <2>1, <3>2
    <3>4. flying[loc'[t].at] = x
      BY <3>2
    <3> HIDE DEF x, i
    <3>5. flying[loc'[t].at] \in Threads /\ loc'[t].seen = xfer[flying[loc'[t].at]].flags
      BY <2>1, <3>2, <3>4
    <3> QED
      BY <3>2, <3>3, <3>5
  <2> QED
    BY <2>2, <2>3, <2>4
<1> QED
  BY <1>2, <1>3

\* The data under event_data_lock keeps its type.
LEMMA DataTyped ==
  ASSUME Inv, [Next]_vars
  PROVE  (data \in DataType)'
<1>0. TypeInv
  BY DEF Inv
<1> USE <1>0 DEF TypeInv
<1>1. ASSUME NEW t \in Threads, Open(t) PROVE (data \in DataType)'
  BY <1>1, AddPollfdEffect, DeviceLeavesEffect DEF Open
<1>2. ASSUME NEW t \in Threads, Rebuild(t) PROVE (data \in DataType)'
  BY <1>2, RebuildEffect
<1>3. ASSUME NEW t \in Threads, Pipe(t) PROVE (data \in DataType)'
  BY <1>3, PipeEffect
<1>4. ASSUME NEW t \in Threads, NextHandle(t) PROVE (data \in DataType)'
  BY <1>4, NextHandleLocals, RemovePollfdEffect
<1>5. ASSUME NEW t \in Threads, Detach(t) PROVE (data \in DataType)'
  BY <1>5, DeviceLeavesEffect DEF Detach
<1>6. ASSUME NEW t \in Threads, Close(t) PROVE (data \in DataType)'
  BY <1>6, CloseEffect
<1>7. ASSUME NEW t \in Threads, DoClose(t) PROVE (data \in DataType)'
  BY <1>7, RemovePollfdEffect DEF DoClose
<1>8. ASSUME NEW t \in Threads, Closed(t) PROVE (data \in DataType)'
  BY <1>8, ClosedEffect
<1> QED
  BY <1>1, <1>2, <1>3, <1>4, <1>5, <1>6, <1>7, <1>8, DataChanges

\* The locks keep their type.
LEMMA LockTyped ==
  ASSUME Inv, [Next]_vars
  PROVE  (lock \in LockType)'
<1>0. TypeInv
  BY DEF Inv
<1> USE <1>0 DEF TypeInv
<1>1. ASSUME NEW t \in Threads, TryLock(t) PROVE (lock \in LockType)'
  BY <1>1, TryLockEffect
<1>2. ASSUME NEW t \in Threads, LockWaiters(t) PROVE (lock \in LockType)'
  BY <1>2, OtherLocksEffect
<1>3. ASSUME NEW t \in Threads, CheckActive(t) PROVE (lock \in LockType)'
  BY <1>3, OtherLocksEffect
<1>4. ASSUME NEW t \in Threads, Sleep(t) PROVE (lock \in LockType)'
  BY <1>4, OtherLocksEffect
<1>5. ASSUME NEW t \in Threads, Dispatch(t) PROVE (lock \in LockType)'
  BY <1>5, OtherLocksEffect
<1>6. ASSUME NEW t \in Threads, HandlesServed(t) PROVE (lock \in LockType)'
  BY <1>6, OtherLocksEffect
<1>7. ASSUME NEW t \in Threads, LockFlying(t) PROVE (lock \in LockType)'
  BY <1>7, LockFlyingEffect
<1>8. ASSUME NEW t \in Threads, NextFlying(t) PROVE (lock \in LockType)'
  <2>1. loc[t].at \in Nat /\ Len(flying) \in Nat
    BY LenProperties DEF Locals
  <2> QED
    BY <1>8, <2>1, NextFlyingEffect
<1>9. ASSUME NEW t \in Threads, ReleaseEvents(t) PROVE (lock \in LockType)'
  BY <1>9, ReleaseEventsEffect
<1>10. ASSUME NEW t \in Threads, LockEvents(t) PROVE (lock \in LockType)'
  BY <1>10, LockEventsEffect
<1>11. ASSUME NEW t \in Threads, Sweep(t) PROVE (lock \in LockType)'
  BY <1>11, SweepEffect
<1> QED
  BY <1>1, <1>2, <1>3, <1>4, <1>5, <1>6, <1>7, <1>8, <1>9, <1>10, <1>11, LockChanges

\* The transfers keep their type.
LEMMA XferTyped ==
  ASSUME Inv, [Next]_vars
  PROVE  (xfer \in [Threads -> Transfer])'
<1>0. TypeInv
  BY DEF Inv
<1> USE <1>0 DEF TypeInv
<1>1. ASSUME NEW t \in Threads, Submit(t) PROVE (xfer \in [Threads -> Transfer])'
  BY <1>1, SubmitEffect
<1>2. ASSUME NEW t \in Threads, BackendSubmit(t) PROVE (xfer \in [Threads -> Transfer])'
  BY <1>2, BackendSubmitEffect
<1>3. ASSUME NEW t \in Threads, Submitted(t) PROVE (xfer \in [Threads -> Transfer])'
  BY <1>3, SubmittedEffect
<1>4. ASSUME NEW t \in Threads, Unsubmit(t) PROVE (xfer \in [Threads -> Transfer])'
  BY <1>4, UnsubmitEffect
<1>5. ASSUME NEW t \in Threads, Return(t) PROVE (xfer \in [Threads -> Transfer])'
  BY <1>5, XferReset
<1>6. ASSUME NEW t \in Threads, EndUrb(t) PROVE (xfer \in [Threads -> Transfer])'
  BY <1>6, EndUrbEffect
<1>7. ASSUME NEW t \in Threads, Retire(t) PROVE (xfer \in [Threads -> Transfer])'
  <2>1. loc[t].cur \in Threads
    BY <1>7, CurIsThread DEF Retire, At, CurPlaces
  <2>2. xfer[loc[t].cur].urb \in Reapable
    BY <1>7 DEF Inv, HandlerInv, Retire, At
  <2> QED
    BY <1>7, <2>1, <2>2, RetireEffect
<1>8. ASSUME NEW t \in Threads, Complete(t) PROVE (xfer \in [Threads -> Transfer])'
  <2>1. loc[t].cur \in Threads
    BY <1>8, CurIsThread DEF Complete, At, CurPlaces
  <2> QED
    BY <1>8, <2>1, CompleteEffect
<1>9. ASSUME NEW t \in Threads, Scan(t) PROVE (xfer \in [Threads -> Transfer])'
  <2>1. loc[t].cur \in Threads
    BY <1>9, CurIsThread DEF Scan, At, CurPlaces
  <2> QED
    BY <1>9, <2>1, ScanEffect
<1>10. ASSUME NEW t \in Threads, ClearPriv(t) PROVE (xfer \in [Threads -> Transfer])'
  <2>1. loc[t].cur \in Threads
    BY <1>10, CurIsThread DEF ClearPriv, At, CurPlaces
  <2> QED
    BY <1>10, <2>1, ClearPrivEffect
<1>11. ASSUME NEW t \in Threads, Mark(t) PROVE (xfer \in [Threads -> Transfer])'
  <2>1. flying[loc[t].at] \in Threads
    BY <1>11, AtIsThread DEF Mark, At
  <2> QED
    BY <1>11, <2>1, MarkEffect
<1>12. ASSUME NEW t \in Threads, CancelOverdue(t) PROVE (xfer \in [Threads -> Transfer])'
  <2>1. flying[loc[t].at] \in Threads
    BY <1>12, AtIsThread DEF CancelOverdue, At
  <2> QED
    BY <1>12, <2>1, CancelTransferEffect DEF CancelOverdue
<1>13. ASSUME NEW t \in Threads, CancelAndRetry(t) PROVE (xfer \in [Threads -> Transfer])'
  BY <1>13, CancelTransferEffect DEF CancelAndRetry
<1>14. ASSUME NEW t \in Threads, DoClose(t) PROVE (xfer \in [Threads -> Transfer])'
  BY <1>14, XferReset DEF DoClose
<1>15. Unplug => (xfer \in [Threads -> Transfer])'
  BY UnplugEffect
<1> QED
  BY <1>1, <1>2, <1>3, <1>4, <1>5, <1>6, <1>7, <1>8, <1>9, <1>10, <1>11, <1>12, <1>13, <1>14,
     <1>15, XferChanges

\* The threads' variables keep theirs.
LEMMA LocTyped ==
  ASSUME Inv, [Next]_vars
  PROVE  (loc \in [Threads -> Locals])'
<1>0. TypeInv
  BY DEF Inv
<1> USE <1>0 DEF TypeInv
<1>1. ASSUME NEW t \in Threads, Return(t) PROVE (loc \in [Threads -> Locals])'
  BY <1>1, ForgetLocals
<1>2. ASSUME NEW t \in Threads, LookForTimeout(t) PROVE (loc \in [Threads -> Locals])'
  BY <1>2, LookForTimeoutLocals
<1>3. ASSUME NEW t \in Threads, LockWaiters(t) PROVE (loc \in [Threads -> Locals])'
  BY <1>3, LookForTimeoutLocals
<1>4. ASSUME NEW t \in Threads, Wake(t) PROVE (loc \in [Threads -> Locals])'
  BY <1>4, ForgetLocals
<1>5. ASSUME NEW t \in Threads, Rebuild(t) PROVE (loc \in [Threads -> Locals])'
  BY <1>5, RebuildLocals
<1>6. ASSUME NEW t \in Threads, Poll(t) PROVE (loc \in [Threads -> Locals])'
  BY <1>6, PollEffect
<1>7. ASSUME NEW t \in Threads, PollTimeout(t) PROVE (loc \in [Threads -> Locals])'
  BY <1>7, ForgetLocals
<1>8. ASSUME NEW t \in Threads, PollFails(t) PROVE (loc \in [Threads -> Locals])'
  BY <1>8, ForgetLocals
<1>9. ASSUME NEW t \in Threads, Pipe(t) PROVE (loc \in [Threads -> Locals])'
  BY <1>9, PipeLocals
<1>10. ASSUME NEW t \in Threads, NextHandle(t) PROVE (loc \in [Threads -> Locals])'
  BY <1>10, NextHandleLocals
<1>11. ASSUME NEW t \in Threads, HandlesServed(t) PROVE (loc \in [Threads -> Locals])'
  BY <1>11, HandlesServedLocals
<1>12. ASSUME NEW t \in Threads, Retire(t) PROVE (loc \in [Threads -> Locals])'
  <2>1. loc[t].cur \in Threads
    BY <1>12, CurIsThread DEF Retire, At, CurPlaces
  <2>2. xfer[loc[t].cur].urb \in Reapable
    BY <1>12 DEF Inv, HandlerInv, Retire, At
  <2> QED
    BY <1>12, <2>1, <2>2, RetireEffect
<1>13. ASSUME NEW t \in Threads, Reason(t) PROVE (loc \in [Threads -> Locals])'
  BY <1>13, ReasonEffect
<1>14. ASSUME NEW t \in Threads, Complete(t) PROVE (loc \in [Threads -> Locals])'
  <2>1. loc[t].cur \in Threads
    BY <1>14, CurIsThread DEF Complete, At, CurPlaces
  <2> QED
    BY <1>14, <2>1, CompleteEffect
<1>15. ASSUME NEW t \in Threads, ClearPriv(t) PROVE (loc \in [Threads -> Locals])'
  <2>1. loc[t].cur \in Threads
    BY <1>15, CurIsThread DEF ClearPriv, At, CurPlaces
  <2> QED
    BY <1>15, <2>1, ClearPrivEffect
<1>16. ASSUME NEW t \in Threads, LockFlying(t) PROVE (loc \in [Threads -> Locals])'
  BY <1>16, LockFlyingLocals
<1>17. ASSUME NEW t \in Threads, NextFlying(t) PROVE (loc \in [Threads -> Locals])'
  BY <1>17, NextFlyingLocals
<1>18. ASSUME NEW t \in Threads, CancelOverdue(t) PROVE (loc \in [Threads -> Locals])'
  BY <1>18, AtMoves DEF CancelOverdue
<1>19. ASSUME NEW t \in Threads, CancelAndRetry(t) PROVE (loc \in [Threads -> Locals])'
  BY <1>19, FailedChanges DEF CancelAndRetry
<1>20. ASSUME NEW t \in Threads, Broadcast(t) PROVE (loc \in [Threads -> Locals])'
  BY <1>20, ForgetLocals
<1> QED
  BY <1>1, <1>2, <1>3, <1>4, <1>5, <1>6, <1>7, <1>8, <1>9, <1>10, <1>11, <1>12, <1>13, <1>14,
     <1>15, <1>16, <1>17, <1>18, <1>19, <1>20, LocChanges

\* TypeInv is kept.
LEMMA TypeNext ==
  ASSUME Inv, [Next]_vars
  PROVE  TypeInv'
<1>0. TypeInv
  BY DEF Inv
<1> QED
  BY <1>0, DataTyped, LockTyped, XferTyped, LocTyped, ListsTyped, SetsTyped, PcChanges DEF TypeInv

-----------------------------------------------------------------------------
(* Who has the events lock. *)

\* It is taken when nobody has it.
LEMMA EventsLockChanges ==
  ASSUME Inv, [Next]_vars
  PROVE  \/ lock'.events = lock.events
         \/ \E t \in Threads :
              \/ TryLock(t) /\ lock.events = Nobody /\ lock'.events = t
              \/ LockEvents(t) /\ lock.events = Nobody /\ lock'.events = t
              \/ ReleaseEvents(t) /\ lock'.events = Nobody
<1>1. lock \in LockType /\ loc \in [Threads -> Locals] /\ flying \in Seq(Threads)
  BY DEF Inv, TypeInv
<1>2. ASSUME NEW t \in Threads, NextFlying(t) PROVE lock'.events = lock.events
  <2>1. loc[t].at \in Nat /\ Len(flying) \in Nat
    BY <1>1, LenProperties DEF Locals
  <2> QED
    BY <1>1, <1>2, <2>1, NextFlyingEffect
<1>3. ASSUME NEW t \in Threads, LockEvents(t) PROVE lock.events = Nobody
  BY <1>3 DEF LockEvents
<1> QED
  BY <1>1, <1>2, <1>3, LockChanges, TryLockEffect, LockEventsEffect, ReleaseEventsEffect, OtherLocksEffect,
     LockFlyingEffect, SweepEffect

\* Who begins to handle events, or to close, has the lock.
LEMMA EntersEvents ==
  ASSUME Inv, [Next]_vars, NEW u \in Threads, pc[u] \notin EventsPlaces, pc'[u] \in EventsPlaces
  PROVE  lock'.events = u
<1>1. TypeInv
  BY DEF Inv
<1>2. PICK t \in Threads : Moves(t)
  BY <1>1, PcChanges
<1>3. \A v \in Threads : v # t => pc'[v] = pc[v]
  BY <1>2 DEF Moves, Leads
<1>4. u = t
  BY <1>3
<1>5. TryLock(t) \/ LockEvents(t) \/ NextFlying(t)
  BY <1>2, <1>4 DEF Moves, Leads, EventsPlaces, Handling, Closing
<1>6. CASE TryLock(t)
  <2>1. Goto(t, "waiters") => pc'[t] = "waiters"
    BY <1>1 DEF Goto, TypeInv
  <2> QED
    BY <1>1, <1>4, <1>6, <2>1, TryLockEffect DEF TypeInv, EventsPlaces, Handling, Closing
<1>7. CASE LockEvents(t)
  BY <1>1, <1>4, <1>7, LockEventsEffect DEF TypeInv
<1>8. CASE NextFlying(t)
  <2>1. loc[t].at \in Nat /\ Len(flying) \in Nat /\ lock \in LockType
    BY <1>1, LenProperties DEF Locals, TypeInv
  <2>2. /\ lock'.events = lock.events
        /\ Goto(t, IF lock.events = t THEN "unlock" ELSE "wait") \/ UNCHANGED pc \/ Goto(t, "mark")
    BY <1>8, <2>1, NextFlyingEffect
  <2>3. /\ Goto(t, "mark") => pc'[t] = "mark"
        /\ Goto(t, IF lock.events = t THEN "unlock" ELSE "wait") /\ lock.events # t => pc'[t] = "wait"
    BY <1>1 DEF Goto, TypeInv
  <2> QED
    BY <1>4, <2>2, <2>3 DEF EventsPlaces, Handling, Closing
<1> QED
  BY <1>5, <1>6, <1>7, <1>8

\* EventsInv is kept: nobody takes the lock, or releases it, from another.
LEMMA EventsNext ==
  ASSUME Inv, [Next]_vars
  PROVE  EventsInv'
<1>1. TypeInv /\ EventsInv
  BY DEF Inv
<1>2. SUFFICES ASSUME NEW u \in Threads, pc'[u] \in EventsPlaces, pc[u] \in EventsPlaces
               PROVE  lock'.events = u
  BY EntersEvents DEF EventsInv
<1>3. lock.events = u /\ u # Nobody
  BY <1>1, <1>2, UsbIoAssumption DEF EventsInv
<1>4. ASSUME NEW t \in Threads, ReleaseEvents(t) PROVE FALSE
  <2>1. pc[t] \in {"unlock", "closeunlock"}
    BY <1>4 DEF ReleaseEvents, At
  <2>2. t = u
    BY <1>1, <1>3, <2>1 DEF EventsInv, EventsPlaces, Handling, Closing
  <2>3. pc'[t] \in {"broadcast", "closecast"}
    BY <1>1, <1>4 DEF ReleaseEvents, Goto, TypeInv
  <2> QED
    BY <1>2, <2>2, <2>3 DEF EventsPlaces, Handling, Closing
<1> QED
  BY <1>3, <1>4, EventsLockChanges

\* One thread at a time does.
LEMMA OneHandler ==
  ASSUME Inv, NEW t \in Threads, NEW u \in Threads, pc[t] \in EventsPlaces, pc[u] \in EventsPlaces
  PROVE  t = u
BY DEF Inv, EventsInv

-----------------------------------------------------------------------------
(* The data under event_data_lock. *)

\* Sets of threads are finite.
LEMMA ThreadSetsFinite ==
  ASSUME NEW S \in SUBSET Threads
  PROVE  IsFiniteSet(S) /\ Cardinality(S) \in Nat
BY FS_Subset, FS_CardinalityType, UsbIoAssumption

\* Closes are counted by their beginning and their end.
LEMMA CloseCountChanges ==
  ASSUME Inv, [Next]_vars
  PROVE  \/ data'.close = data.close
         \/ \E t \in Threads : \/ Close(t) /\ data'.close = data.close + 1
                               \/ Closed(t) /\ data'.close = data.close - 1
<1>1. data \in DataType /\ attached \in BOOLEAN /\ loc \in [Threads -> Locals]
  BY DEF Inv, TypeInv
<1>2. ASSUME NEW t \in Threads, Open(t) PROVE data'.close = data.close
  BY <1>1, <1>2, AddPollfdEffect, DeviceLeavesEffect DEF Open
<1>3. ASSUME NEW t \in Threads, NextHandle(t) PROVE data'.close = data.close
  BY <1>1, <1>3, NextHandleLocals, RemovePollfdEffect
<1>4. ASSUME NEW t \in Threads, Detach(t) \/ DoClose(t) PROVE data'.close = data.close
  BY <1>1, <1>4, DeviceLeavesEffect, RemovePollfdEffect DEF Detach, DoClose
<1>5. ASSUME NEW t \in Threads, Rebuild(t) \/ Pipe(t) PROVE data'.close = data.close
  BY <1>1, <1>5, RebuildEffect, PipeEffect
<1> QED
  BY <1>1, <1>2, <1>3, <1>4, <1>5, DataChanges, CloseEffect, ClosedEffect

\* Only these lead in and out.
LEMMA CloseBegunChanges ==
  ASSUME Inv, [Next]_vars, NEW u \in Threads, ~Close(u), ~Closed(u)
  PROVE  pc'[u] \in CloseBegun <=> pc[u] \in CloseBegun
<1>1. TypeInv
  BY DEF Inv
<1>2. CASE UNCHANGED pc
  BY <1>2
<1>3. ASSUME NEW t \in Threads, Moves(t) PROVE pc'[u] \in CloseBegun <=> pc[u] \in CloseBegun
  <2>1. CASE u # t
    BY <1>3, <2>1 DEF Moves, Leads
  <2>2. CASE u = t
    BY <1>3, <2>2 DEF Moves, Leads, CloseBegun
  <2> QED
    BY <2>1, <2>2
<1> QED
  BY <1>1, <1>2, <1>3, PcChanges

\* CloseInv is kept: the closes under way are counted.
LEMMA CloseNext ==
  ASSUME Inv, [Next]_vars
  PROVE  CloseInv'
<1> DEFINE S == {t \in Threads : pc[t] \in CloseBegun}
           R == {t \in Threads : pc'[t] \in CloseBegun}
<1>1. /\ TypeInv /\ data.close = Cardinality(S)
      /\ S \subseteq Threads /\ R \subseteq Threads /\ IsFiniteSet(S)
  BY ThreadSetsFinite DEF Inv, CloseInv
<1>2. SUFFICES data'.close = Cardinality(R)
  BY DEF CloseInv
<1>3. ASSUME NEW t \in Threads, Close(t)
      PROVE  t \notin S /\ R = S \cup {t} /\ data'.close = data.close + 1
  <2>1. pc[t] = "held" /\ pc' = [pc EXCEPT ![t] = "lockevents"] /\ pc \in [Threads -> Places]
    BY <1>1, <1>3 DEF Close, At, Goto, TypeInv
  <2>2. t \notin S /\ R = S \cup {t}
    BY <2>1 DEF CloseBegun
  <2> QED
    BY <1>1, <1>3, <2>2, CloseEffect DEF TypeInv
<1>4. ASSUME NEW t \in Threads, Closed(t)
      PROVE  t \in S /\ R = S \ {t} /\ data'.close = data.close - 1
  <2>1. pc[t] = "closed" /\ pc' = [pc EXCEPT ![t] = "closeunlock"] /\ pc \in [Threads -> Places]
    BY <1>1, <1>4 DEF Closed, At, Goto, TypeInv
  <2>2. t \in S /\ R = S \ {t}
    BY <2>1 DEF CloseBegun
  <2> QED
    BY <1>1, <1>4, <2>2, ClosedEffect DEF TypeInv
<1>5. CASE \E t \in Threads : Close(t)
  <2>1. PICK t \in Threads : Close(t)
    BY <1>5
  <2>2. t \notin S /\ R = S \cup {t} /\ data'.close = data.close + 1
    BY <1>3, <2>1
  <2> HIDE DEF S, R
  <2> QED
    BY <1>1, <2>2, FS_AddElement
<1>6. CASE \E t \in Threads : Closed(t)
  <2>1. PICK t \in Threads : Closed(t)
    BY <1>6
  <2>2. t \in S /\ R = S \ {t} /\ data'.close = data.close - 1
    BY <1>4, <2>1
  <2> HIDE DEF S, R
  <2> QED
    BY <1>1, <2>2, FS_RemoveElement
<1>7. CASE \A t \in Threads : ~Close(t) /\ ~Closed(t)
  <2>1. R = S
    BY <1>7, CloseBegunChanges
  <2>2. data'.close = data.close
    BY <1>7, CloseCountChanges
  <2> QED
    BY <1>1, <2>1, <2>2
<1> QED
  BY <1>5, <1>6, <1>7

\* A device has one message at most: it leaves the list of the context once.
LEMMA MsgNext ==
  ASSUME Inv, [Next]_vars
  PROVE  MsgInv'
<1>1. /\ TypeInv /\ MsgInv /\ data \in DataType /\ attached \in BOOLEAN /\ loc \in [Threads -> Locals]
  BY DEF Inv, TypeInv
<1>2. ASSUME attached' = attached, data'.msgs = data.msgs PROVE MsgInv'
  BY <1>1, <1>2 DEF MsgInv
<1>3. ASSUME NEW t \in Threads, DeviceLeaves PROVE MsgInv'
  BY <1>1, <1>3, DeviceLeavesEffect DEF MsgInv, DataType
<1>4. ASSUME NEW t \in Threads, Open(t) PROVE MsgInv'
  BY <1>1, <1>2, <1>3, <1>4, AddPollfdEffect DEF Open
<1>5. ASSUME NEW t \in Threads, Detach(t) PROVE MsgInv'
  BY <1>3, <1>5 DEF Detach
<1>6. ASSUME NEW t \in Threads, Pipe(t) PROVE MsgInv'
  <2>1. UNCHANGED attached
    BY <1>6 DEF Pipe
  <2> QED
    BY <1>1, <1>6, <2>1, PipeEffect DEF MsgInv
<1>7. ASSUME NEW t \in Threads, Rebuild(t) \/ NextHandle(t) \/ Close(t) \/ DoClose(t) \/ Closed(t)
      PROVE  MsgInv'
  <2>1. UNCHANGED attached
    BY <1>7 DEF Rebuild, NextHandle, Close, DoClose, Closed, device
  <2>2. NextHandle(t) => data' = data \/ \E f : RemovePollfd(f)
    BY <1>1, NextHandleLocals
  <2>3. DoClose(t) => RemovePollfd(t)
    BY DEF DoClose
  <2>4. data'.msgs = data.msgs
    BY <1>1, <1>7, <2>2, <2>3, RebuildEffect, RemovePollfdEffect, CloseEffect, ClosedEffect
  <2> QED
    BY <1>2, <2>1, <2>4
<1>8. CASE UNCHANGED data /\ \A t \in Threads : ~Open(t) /\ ~Detach(t)
  BY <1>2, <1>8, AttachedChanges
<1> QED
  BY <1>4, <1>5, <1>6, <1>7, <1>8, DataChanges

\* The pipe has a byte when there is a reason for one.
LEMMA SignalledNext ==
  ASSUME Inv, [Next]_vars
  PROVE  SignalledIffPending'
<1>1. /\ TypeInv /\ data \in DataType /\ attached \in BOOLEAN /\ loc \in [Threads -> Locals]
      /\ SignalledIffPending /\ ReadsNoEmptyPipe /\ MsgInv
  BY DEF Inv, TypeInv, PipeAndPollAreTrue
<1>2. data.close \in Nat /\ data.msgs \in Nat /\ data.modified \in BOOLEAN /\ data.pipe \in {0, 1}
  <2>1. data.close \in Nat
    BY ThreadSetsFinite DEF Inv, CloseInv
  <2> QED
    BY <1>1, <2>1 DEF DataType, SignalledIffPending
<1>3. data'.close \in Nat /\ data' \in DataType
  <2>1. CloseInv' /\ TypeInv'
    BY CloseNext, TypeNext
  <2>2. {t \in Threads : pc'[t] \in CloseBegun} \in SUBSET Threads
    OBVIOUS
  <2> QED
    BY <2>1, <2>2, ThreadSetsFinite DEF CloseInv, TypeInv
<1> DEFINE Up == data'.pipe = IF Pending(data) THEN data.pipe ELSE data.pipe + 1
           More == data'.close > 0 \/ data'.modified \/ data'.msgs > 0
<1>4. ASSUME Up, More PROVE SignalledIffPending'
  BY <1>1, <1>2, <1>3, <1>4 DEF SignalledIffPending, Pending, DataType
<1>5. ASSUME data' = data PROVE SignalledIffPending'
  BY <1>1, <1>5 DEF SignalledIffPending, Pending
<1>6. ASSUME NEW t \in Threads, Open(t) \/ Detach(t) PROVE SignalledIffPending'
  <2>1. CASE DeviceLeaves
    BY <1>1, <1>2, <1>4, <1>5, <2>1, DeviceLeavesEffect
  <2>2. CASE AddPollfd(t)
    BY <1>1, <1>4, <2>2, AddPollfdEffect
  <2>3. DeviceLeaves \/ AddPollfd(t) \/ UNCHANGED data
    BY <1>6 DEF Open, Detach
  <2> QED
    BY <1>5, <2>1, <2>2, <2>3
<1>7. ASSUME NEW f, RemovePollfd(f) PROVE SignalledIffPending'
  BY <1>1, <1>4, <1>5, <1>7, RemovePollfdEffect
<1>8. ASSUME NEW t \in Threads, NextHandle(t) \/ DoClose(t) PROVE SignalledIffPending'
  BY <1>1, <1>5, <1>7, <1>8, NextHandleLocals DEF DoClose
<1>9. ASSUME NEW t \in Threads, Close(t) PROVE SignalledIffPending'
  BY <1>1, <1>2, <1>4, <1>9, CloseEffect
<1>10. ASSUME NEW t \in Threads, Closed(t) PROVE SignalledIffPending'
  <2>1. data.close - 1 = data'.close
    BY <1>1, <1>10, ClosedEffect
  <2>2. data.close > 0
    BY <1>2, <1>3, <2>1
  <2>3. data.pipe = 1
    BY <1>1, <2>2 DEF SignalledIffPending, Pending
  <2> QED
    BY <1>1, <1>2, <1>10, <2>1, <2>3, ClosedEffect DEF SignalledIffPending, Pending
<1>11. ASSUME NEW t \in Threads, Rebuild(t) PROVE SignalledIffPending'
  <2>1. /\ data'.close = data.close /\ ~data'.modified /\ data'.msgs = data.msgs
        /\ data'.pipe = IF ~data.modified \/ data.close > 0 \/ data.msgs > 0
                        THEN data.pipe ELSE data.pipe - 1
    BY <1>1, <1>11, RebuildEffect
  <2> QED
    BY <1>1, <1>2, <2>1 DEF SignalledIffPending, Pending
<1>12. ASSUME NEW t \in Threads, Pipe(t) PROVE SignalledIffPending'
  <2>1. data.pipe = 1
    BY <1>1, <1>2, <1>12 DEF ReadsNoEmptyPipe, Pipe
  <2>2. /\ data'.close = data.close /\ data'.modified = data.modified
        /\ data'.msgs = IF data.msgs = 0 THEN 0 ELSE data.msgs - 1
        /\ data'.pipe = IF data.close > 0 \/ data.modified \/ data'.msgs > 0
                        THEN data.pipe ELSE data.pipe - 1
    BY <1>1, <1>12, PipeEffect
  <2> QED
    BY <1>1, <1>2, <2>1, <2>2 DEF SignalledIffPending, Pending
<1> QED
  BY <1>5, <1>6, <1>8, <1>9, <1>10, <1>11, <1>12, DataChanges

\* Only the handler, and who closes, reads the pipe.
LEMMA PipeReadNext ==
  ASSUME Inv, [Next]_vars
  PROVE  ReadsNoEmptyPipe'
<1>1. /\ TypeInv /\ data \in DataType /\ attached \in BOOLEAN /\ loc \in [Threads -> Locals]
      /\ SignalledIffPending /\ ReadsNoEmptyPipe
  BY DEF Inv, TypeInv, PipeAndPollAreTrue
<1>2. SUFFICES ASSUME NEW u \in Threads, pc'[u] = "pipe"
               PROVE  data'.pipe > 0
  BY DEF ReadsNoEmptyPipe, At
<1>3. CASE pc[u] = "pipe"
  <2>1. data.pipe > 0 /\ data.pipe \in Int
    BY <1>1, <1>3 DEF ReadsNoEmptyPipe, At, DataType
  <2>2. pc[u] \in EventsPlaces
    BY <1>3 DEF EventsPlaces, Handling
  <2>3. ASSUME NEW t \in Threads, Rebuild(t) \/ Pipe(t) \/ Closed(t) PROVE FALSE
    <3>1. pc[t] \in {"rebuild", "pipe", "closed"} /\ pc[t] \in EventsPlaces
      BY <2>3 DEF Rebuild, Pipe, Closed, At, EventsPlaces, Handling, Closing
    <3>2. t = u
      BY <2>2, <3>1, OneHandler
    <3>3. Pipe(t)
      BY <1>3, <2>3, <3>2 DEF Rebuild, Closed, At
    <3>4. pc'[t] \in {"dispatch", "poll", "unlock"}
      BY <1>1, <3>3 DEF Pipe, Goto, TypeInv
    <3> QED
      BY <1>2, <3>2, <3>4
  <2>4. ASSUME NEW f, RemovePollfd(f) PROVE data'.pipe > 0
    BY <1>1, <2>1, <2>4, RemovePollfdEffect
  <2>5. ASSUME NEW t \in Threads, NextHandle(t) \/ DoClose(t) PROVE data'.pipe > 0
    BY <1>1, <2>1, <2>4, <2>5, NextHandleLocals DEF DoClose
  <2>6. ASSUME NEW t \in Threads, Open(t) \/ Detach(t) PROVE data'.pipe > 0
    <3>1. DeviceLeaves \/ AddPollfd(t) \/ UNCHANGED data
      BY <2>6 DEF Open, Detach
    <3> QED
      BY <1>1, <2>1, <3>1, DeviceLeavesEffect, AddPollfdEffect
  <2>7. ASSUME NEW t \in Threads, Close(t) PROVE data'.pipe > 0
    BY <1>1, <2>1, <2>7, CloseEffect
  <2> QED
    BY <2>1, <2>3, <2>5, <2>6, <2>7, DataChanges
<1>4. CASE pc[u] # "pipe"
  <2>1. PICK t \in Threads : Moves(t)
    BY <1>1, <1>2, <1>4, PcChanges
  <2>2. u = t
    BY <1>2, <1>4, <2>1 DEF Moves, Leads
  <2>3. Poll(u)
    BY <1>2, <2>1, <2>2 DEF Moves, Leads
  <2>4. pc' = [pc EXCEPT ![u] = IF data.pipe > 0 THEN "pipe" ELSE "dispatch"] /\ UNCHANGED data
    BY <2>3 DEF Poll, Goto
  <2> QED
    BY <1>1, <1>2, <2>4 DEF TypeInv
<1> QED
  BY <1>3, <1>4

-----------------------------------------------------------------------------
(* The descriptors that are polled. *)

\* A handle is open from libusb_open to do_close.
LEMMA OpenHandlesChanges ==
  ASSUME Inv, [Next]_vars
  PROVE  \/ OpenHandles' = OpenHandles
         \/ \E t \in Threads :
              \/ /\ Open(t) /\ pc[t] = "idle" /\ pc'[t] = "opened"
                 /\ t \notin OpenHandles /\ OpenHandles' = OpenHandles \cup {t}
              \/ /\ DoClose(t) /\ pc[t] = "closefd" /\ pc'[t] = "closed"
                 /\ t \in OpenHandles /\ OpenHandles' = OpenHandles \ {t}
<1>1. TypeInv
  BY DEF Inv
<1>2. CASE UNCHANGED pc
  BY <1>2 DEF OpenHandles
<1>3. ASSUME NEW t \in Threads, Moves(t)
      PROVE  \/ OpenHandles' = OpenHandles
             \/ /\ Open(t) /\ pc[t] = "idle" /\ pc'[t] = "opened"
                /\ t \notin OpenHandles /\ OpenHandles' = OpenHandles \cup {t}
             \/ /\ DoClose(t) /\ pc[t] = "closefd" /\ pc'[t] = "closed"
                /\ t \in OpenHandles /\ OpenHandles' = OpenHandles \ {t}
  <2>1. \A u \in Threads : u # t => pc'[u] = pc[u]
    BY <1>3 DEF Moves, Leads
  <2>2. \/ Open(t) /\ pc[t] = "idle" /\ pc'[t] = "opened"
        \/ DoClose(t) /\ pc[t] = "closefd" /\ pc'[t] = "closed"
        \/ pc[t] \in OpenPlaces <=> pc'[t] \in OpenPlaces
    <3>1. pc[t] \in Places /\ pc'[t] \in Places
      BY <1>1, PcChanges DEF TypeInv
    <3> QED
      BY <1>3, <3>1 DEF Moves, Leads, OpenPlaces
  <2>3. CASE pc[t] \in OpenPlaces <=> pc'[t] \in OpenPlaces
    BY <2>1, <2>3 DEF OpenHandles
  <2>4. CASE Open(t) /\ pc[t] = "idle" /\ pc'[t] = "opened"
    BY <2>1, <2>4 DEF OpenHandles, OpenPlaces, Places
  <2>5. CASE DoClose(t) /\ pc[t] = "closefd" /\ pc'[t] = "closed"
    BY <2>1, <2>5 DEF OpenHandles, OpenPlaces, Places, Closing
  <2> QED
    BY <2>2, <2>3, <2>4, <2>5
<1> QED
  BY <1>1, <1>2, <1>3, PcChanges

\* The polled descriptors change with the open handles, and when a device is found to
\* have left.
LEMMA PollfdsChanges ==
  ASSUME Inv, [Next]_vars
  PROVE  \/ data'.pollfds = data.pollfds
         \/ \E t \in Threads :
              \/ Open(t) /\ pc'[t] = "opened" /\ data'.pollfds = data.pollfds \cup {t}
              \/ DoClose(t) /\ data'.pollfds = data.pollfds \ {t}
              \/ /\ NextHandle(t) /\ pc'[t] = "scan" /\ loc[t].gone
                 /\ data'.pollfds = data.pollfds \ {loc'[t].cur}
<1>1. data \in DataType /\ attached \in BOOLEAN /\ loc \in [Threads -> Locals] /\ pc \in [Threads -> Places]
  BY DEF Inv, TypeInv
<1>2. ASSUME NEW t \in Threads, Open(t)
      PROVE  \/ data'.pollfds = data.pollfds
             \/ pc'[t] = "opened" /\ data'.pollfds = data.pollfds \cup {t}
  <2>1. CASE AddPollfd(t) /\ Goto(t, "opened")
    BY <1>1, <2>1, AddPollfdEffect DEF Goto
  <2>2. CASE DeviceLeaves \/ UNCHANGED data
    BY <1>1, <2>2, DeviceLeavesEffect
  <2> QED
    BY <1>2, <2>1, <2>2 DEF Open
<1>3. ASSUME NEW t \in Threads, NextHandle(t)
      PROVE  \/ data'.pollfds = data.pollfds
             \/ /\ pc'[t] = "scan" /\ loc[t].gone
                /\ data'.pollfds = data.pollfds \ {loc'[t].cur}
  <2>1. PICK f \in loc[t].ready :
          /\ loc'[t].cur = f
          /\ UNCHANGED data \/ (loc[t].gone /\ RemovePollfd(f) /\ Goto(t, "scan"))
    BY <1>1, <1>3, NextHandleLocals
  <2>2. RemovePollfd(f) => data'.pollfds = data.pollfds \ {f}
    BY <1>1, RemovePollfdEffect
  <2>3. Goto(t, "scan") => pc'[t] = "scan"
    BY <1>1 DEF Goto
  <2> QED
    BY <2>1, <2>2, <2>3
<1>4. ASSUME NEW t \in Threads, DoClose(t) PROVE data'.pollfds = data.pollfds \ {t}
  BY <1>1, <1>4, RemovePollfdEffect DEF DoClose
<1>5. ASSUME NEW t \in Threads, Detach(t) \/ Rebuild(t) \/ Pipe(t) \/ Close(t) \/ Closed(t)
      PROVE  data'.pollfds = data.pollfds
  BY <1>1, <1>5, DeviceLeavesEffect, RebuildEffect, PipeEffect, CloseEffect, ClosedEffect DEF Detach
<1> QED
  BY <1>2, <1>3, <1>4, <1>5, DataChanges

-----------------------------------------------------------------------------
(* One thread at a time. *)

\* A step of one thread leaves the variables of the others.
LEMMA LocOthers ==
  ASSUME Inv, NEW t \in Threads, Moves(t), NEW u \in Threads, u # t
  PROVE  loc'[u] = loc[u]
<1>1. TypeInv /\ loc \in [Threads -> Locals] /\ data \in DataType /\ plugged \in BOOLEAN
  BY DEF Inv, TypeInv
<1>2. CASE Return(t) \/ Wake(t) \/ PollTimeout(t) \/ PollFails(t) \/ Broadcast(t)
  BY <1>1, <1>2, ForgetLocals
<1>3. CASE LookForTimeout(t) \/ LockWaiters(t)
  BY <1>1, <1>3, LookForTimeoutLocals
<1>4. CASE Rebuild(t) \/ Poll(t) \/ Pipe(t) \/ NextHandle(t) \/ HandlesServed(t)
  BY <1>1, <1>4, RebuildLocals, PollEffect, PipeLocals, NextHandleLocals, HandlesServedLocals
<1>5. CASE Retire(t) \/ Complete(t) \/ ClearPriv(t)
  BY <1>1, <1>5 DEF Retire, Complete, ClearPriv
<1>6. CASE Reason(t) \/ LockFlying(t) \/ NextFlying(t)
  BY <1>1, <1>6, ReasonEffect, LockFlyingLocals, NextFlyingLocals
<1>7. CASE CancelOverdue(t) \/ CancelAndRetry(t)
  BY <1>1, <1>7 DEF CancelOverdue, CancelAndRetry
<1>8. CASE \/ Open(t) \/ ListOpen(t) \/ Submit(t) \/ BackendSubmit(t) \/ Submitted(t) \/ Unsubmit(t)
           \/ TryLockEvents(t) \/ TryLock(t) \/ CheckActive(t) \/ Sleep(t) \/ Dispatch(t)
  BY <1>8 DEF Open, ListOpen, Submit, BackendSubmit, Submitted, Unsubmit, TryLockEvents, TryLock,
     CheckActive, Sleep, Dispatch
<1>9. CASE \/ Reap(t) \/ ReapedAll(t) \/ Scan(t) \/ Detach(t) \/ Mark(t) \/ ReleaseEvents(t)
           \/ Close(t) \/ LockEvents(t) \/ Sweep(t) \/ DoClose(t) \/ Closed(t)
  BY <1>9 DEF Reap, ReapedAll, Scan, Detach, Mark, ReleaseEvents, Close, LockEvents, Sweep, DoClose, Closed
<1> QED
  BY <1>2, <1>3, <1>4, <1>5, <1>6, <1>7, <1>8, <1>9 DEF Moves

\* A thread stays as it is, or takes a step.
LEMMA ThreadSteps ==
  ASSUME Inv, [Next]_vars, NEW u \in Threads
  PROVE  (pc'[u] = pc[u] /\ loc'[u] = loc[u]) \/ Moves(u)
<1>1. TypeInv
  BY DEF Inv
<1>2. ASSUME NEW t \in Threads, Moves(t), t # u PROVE pc'[u] = pc[u] /\ loc'[u] = loc[u]
  BY <1>2, LocOthers DEF Moves, Leads
<1> QED
  BY <1>1, <1>2, PcChanges

\* What a thread that serves the descriptors has from before.
LEMMA ServingChanges ==
  ASSUME Inv, [Next]_vars, NEW u \in Threads, pc'[u] \in Serving
  PROVE  \/ Rebuild(u) /\ pc'[u] = "poll" /\ loc'[u].fds = data.pollfds
         \/ /\ pc[u] \in Serving /\ loc'[u].fds = loc[u].fds
            /\ pc'[u] # "poll" =>
                 \/ /\ Poll(u) /\ pc'[u] \in {"pipe", "dispatch"}
                    /\ loc'[u].ready \subseteq loc[u].fds /\ loc'[u].gone = ~plugged
                 \/ pc[u] # "poll" /\ loc'[u].ready \subseteq loc[u].ready /\ loc'[u].gone = loc[u].gone
            /\ pc'[u] \in CurPlaces =>
                 \/ NextHandle(u) /\ loc'[u].cur \in loc[u].ready /\ pc'[u] = IF loc[u].gone THEN "scan" ELSE "reap"
                 \/ pc[u] \in CurPlaces /\ loc'[u].cur = loc[u].cur
<1>1. TypeInv /\ loc \in [Threads -> Locals] /\ data \in DataType /\ plugged \in BOOLEAN
      /\ pc \in [Threads -> Places]
  BY DEF Inv, TypeInv
<1>2. CASE pc'[u] = pc[u] /\ loc'[u] = loc[u]
  BY <1>2
<1>3. CASE Rebuild(u)
  BY <1>1, <1>3, RebuildLocals DEF Rebuild, Goto
<1>4. CASE Poll(u)
  <2>1. pc[u] = "poll" /\ pc'[u] \in {"pipe", "dispatch"}
    BY <1>1, <1>4 DEF Poll, At, Goto
  <2> QED
    BY <1>1, <1>4, <2>1, PollEffect DEF Serving, Handling, CurPlaces
<1>5. CASE Pipe(u)
  <2>1. pc[u] = "pipe" /\ pc'[u] \in {"dispatch", "poll"}
    BY <1>1, <1>5 DEF Pipe, At, Goto, Serving, Handling
  <2>2. ~Goto(u, "unlock")
    BY <1>1, <2>1 DEF Goto
  <2> QED
    BY <1>1, <1>5, <2>1, <2>2, PipeLocals DEF Serving, Handling, CurPlaces
<1>6. CASE NextHandle(u)
  <2>1. pc[u] = "handles"
    BY <1>6 DEF NextHandle, At
  <2>2. PICK f \in loc[u].ready :
          /\ loc'[u].ready = loc[u].ready \ {f} /\ loc'[u].cur = f
          /\ \/ UNCHANGED <<data, pc>>
             \/ f \in openDevs /\ loc[u].gone /\ RemovePollfd(f) /\ Goto(u, "scan")
             \/ f \in openDevs /\ ~loc[u].gone /\ UNCHANGED data /\ Goto(u, "reap")
    BY <1>1, <1>6, NextHandleLocals
  <2>3. pc'[u] = "handles" \/ pc'[u] = IF loc[u].gone THEN "scan" ELSE "reap"
    BY <1>1, <2>1, <2>2 DEF Goto
  <2>4. loc'[u].fds = loc[u].fds /\ loc'[u].gone = loc[u].gone
    BY <1>1, <1>6, NextHandleLocals
  <2> QED
    BY <1>6, <2>1, <2>2, <2>3, <2>4 DEF Serving, Handling, CurPlaces
<1>7. CASE HandlesServed(u)
  <2>1. pc[u] = "handles"
    BY <1>7 DEF HandlesServed, At
  <2>2. Goto(u, "unlock") => pc'[u] = "unlock"
    BY <1>1 DEF Goto
  <2>3. Goto(u, "poll") => pc'[u] = "poll"
    BY <1>1 DEF Goto
  <2> QED
    BY <1>1, <1>7, <2>1, <2>2, <2>3, HandlesServedLocals DEF Serving, Handling, CurPlaces
<1>8. CASE Dispatch(u) \/ Reap(u) \/ ReapedAll(u) \/ Scan(u) \/ Detach(u)
  <2>1. loc'[u] = loc[u]
    BY <1>8 DEF Dispatch, Reap, ReapedAll, Scan, Detach
  <2>2. \/ pc[u] = "dispatch" /\ pc'[u] = "handles"
        \/ pc[u] = "reap" /\ pc'[u] \in {"retire", "handles"}
        \/ pc[u] = "scan" /\ pc'[u] \in {"detach", "clear"}
        \/ pc[u] = "detach" /\ pc'[u] = "handles"
    BY <1>1, <1>8 DEF Dispatch, Reap, ReapedAll, Scan, Detach, At, Goto
  <2> QED
    BY <2>1, <2>2 DEF Serving, Handling, CurPlaces
<1>9. CASE Retire(u) \/ Reason(u) \/ Complete(u) \/ ClearPriv(u)
  <2>1. pc[u] \in {"retire", "reason", "complete", "clear"}
        /\ pc'[u] \in {"reason", "complete", "scan", "reap"}
    BY <1>1, <1>9 DEF Retire, Reason, Complete, ClearPriv, At, Goto
  <2>2. loc[u].cur \in Threads
    BY <2>1, CurIsThread DEF CurPlaces
  <2>3. Retire(u) => xfer \in [Threads -> Transfer] /\ xfer[loc[u].cur].urb \in Reapable
    BY <1>1 DEF Inv, HandlerInv, Retire, At, TypeInv
  <2>4. /\ loc'[u].fds = loc[u].fds /\ loc'[u].ready = loc[u].ready /\ loc'[u].gone = loc[u].gone
        /\ loc'[u].cur = loc[u].cur
    BY <1>1, <1>9, <2>2, <2>3, RetireEffect, ReasonEffect, CompleteEffect, ClearPrivEffect DEF TypeInv
  <2> QED
    BY <2>1, <2>4 DEF Serving, Handling, CurPlaces
<1>10. \/ pc'[u] = pc[u] /\ loc'[u] = loc[u]
       \/ Rebuild(u) \/ Poll(u) \/ Pipe(u) \/ NextHandle(u) \/ HandlesServed(u) \/ Dispatch(u) \/ Reap(u)
       \/ ReapedAll(u) \/ Scan(u) \/ Detach(u) \/ Retire(u) \/ Reason(u) \/ Complete(u) \/ ClearPriv(u)
  BY ThreadSteps DEF Moves, Leads, Serving, Handling
<1> QED
  BY <1>2, <1>3, <1>4, <1>5, <1>6, <1>7, <1>8, <1>9, <1>10

\* FdsInv is kept: nothing is closed while a thread handles events.
LEMMA FdsNext ==
  ASSUME Inv, [Next]_vars
  PROVE  FdsInv'
<1>1. FdsInv /\ data.pollfds \subseteq OpenHandles
  BY DEF Inv, FdsInv
<1>2. data'.pollfds \subseteq OpenHandles'
  <2>1. ASSUME NEW t \in Threads, Open(t), pc'[t] = "opened" PROVE t \in OpenHandles'
    BY <2>1 DEF OpenHandles, OpenPlaces, Places
  <2>2. ASSUME NEW t \in Threads, DoClose(t) PROVE t \notin data'.pollfds
    <3>1. data \in DataType
      BY DEF Inv, TypeInv
    <3> QED
      BY <2>2, <3>1, RemovePollfdEffect DEF DoClose
  <2>3. \A x \in data'.pollfds : x \in data.pollfds \/ (\E t \in Threads : x = t /\ Open(t) /\ pc'[t] = "opened")
    BY PollfdsChanges
  <2>4. \A x \in OpenHandles : x \in OpenHandles' \/ (\E t \in Threads : x = t /\ DoClose(t))
    BY OpenHandlesChanges
  <2> QED
    BY <1>1, <2>1, <2>2, <2>3, <2>4
<1>3. ASSUME NEW u \in Threads, pc'[u] \in Serving
      PROVE  loc'[u].fds \subseteq OpenHandles'
  <2>1. pc[u] \in EventsPlaces \ {"closefd"}
    BY <1>3, ServingChanges DEF Rebuild, At, Serving, Handling, EventsPlaces
  <2>2. ASSUME NEW t \in Threads, DoClose(t) PROVE FALSE
    BY <2>1, <2>2, OneHandler DEF DoClose, At, EventsPlaces, Closing
  <2>3. OpenHandles \subseteq OpenHandles'
    BY <2>2, OpenHandlesChanges
  <2>4. loc'[u].fds \subseteq OpenHandles
    BY <1>1, <1>3, ServingChanges DEF FdsInv
  <2> QED
    BY <2>3, <2>4
<1>4. ASSUME NEW u \in Threads, pc'[u] \in Serving \ {"poll"}
      PROVE  loc'[u].ready \subseteq loc'[u].fds
  BY <1>1, <1>4, ServingChanges DEF FdsInv
<1>5. ASSUME NEW u \in Threads, pc'[u] \in CurPlaces
      PROVE  loc'[u].cur \in loc'[u].fds
  <2>1. pc'[u] \in Serving /\ pc'[u] # "poll"
    BY <1>5 DEF CurPlaces, Serving, Handling
  <2>2. NextHandle(u) => pc[u] \in Serving \ {"poll"}
    BY DEF NextHandle, At, Serving, Handling
  <2>3. pc'[u] # "poll" /\ CurPlaces \cap {"pipe", "dispatch"} = {}
    BY <2>1 DEF CurPlaces
  <2> QED
    BY <1>1, <1>5, <2>1, <2>2, <2>3, ServingChanges DEF FdsInv, Rebuild
<1> QED
  BY <1>2, <1>3, <1>4, <1>5 DEF FdsInv

\* So is that a handler polls open descriptors.
LEMMA PollsOpenNext ==
  ASSUME Inv, [Next]_vars
  PROVE  HandlerPollsOpenFds'
BY FdsNext DEF FdsInv, HandlerPollsOpenFds, OpenHandles

-----------------------------------------------------------------------------
(* The transfers, field by field. *)

\* Who touches a transfer.
LEMMA XferSteps ==
  ASSUME Inv, [Next]_vars, NEW x \in Threads
  PROVE  \/ xfer'[x] = xfer[x]
         \/ Submit(x) \/ BackendSubmit(x) \/ Submitted(x) \/ Unsubmit(x) \/ Return(x) \/ DoClose(x)
         \/ EndUrb(x) \/ Unplug \/ CancelAndRetry(x)
         \/ \E t \in Threads : /\ Retire(t) \/ Complete(t) \/ Scan(t) \/ ClearPriv(t)
                               /\ loc[t].cur = x
         \/ \E t \in Threads : (Mark(t) \/ CancelOverdue(t)) /\ flying[loc[t].at] = x
<1>1. xfer \in [Threads -> Transfer] /\ loc \in [Threads -> Locals]
  BY DEF Inv, TypeInv
<1>2. ASSUME NEW t \in Threads, Submit(t) \/ BackendSubmit(t) \/ Submitted(t) \/ Unsubmit(t), t # x
      PROVE  xfer'[x] = xfer[x]
  BY <1>1, <1>2, SubmitEffect, BackendSubmitEffect, SubmittedEffect, UnsubmitEffect
<1>3. ASSUME NEW t \in Threads, Return(t) \/ DoClose(t) \/ EndUrb(t), t # x
      PROVE  xfer'[x] = xfer[x]
  BY <1>1, <1>3, XferReset, EndUrbEffect
<1>4. ASSUME NEW t \in Threads, CancelAndRetry(t), t # x PROVE xfer'[x] = xfer[x]
  BY <1>1, <1>4, CancelTransferEffect DEF CancelAndRetry
<1>5. ASSUME NEW t \in Threads, Retire(t) \/ Complete(t) \/ Scan(t) \/ ClearPriv(t), loc[t].cur # x
      PROVE  xfer'[x] = xfer[x]
  <2>1. pc[t] \in CurPlaces
    BY <1>5 DEF Retire, Complete, Scan, ClearPriv, At, CurPlaces
  <2>2. loc[t].cur \in Threads
    BY <2>1, CurIsThread
  <2>3. Retire(t) => xfer[loc[t].cur].urb \in Reapable
    BY DEF Inv, HandlerInv, Retire, At
  <2>4. CASE Retire(t)
    BY <1>1, <1>5, <2>2, <2>3, <2>4, RetireEffect
  <2>5. CASE Complete(t)
    BY <1>1, <1>5, <2>2, <2>5, CompleteEffect
  <2>6. CASE Scan(t)
    BY <1>1, <1>5, <2>2, <2>6, ScanEffect
  <2>7. CASE ClearPriv(t)
    BY <1>1, <1>5, <2>2, <2>7, ClearPrivEffect
  <2> QED
    BY <1>5, <2>4, <2>5, <2>6, <2>7
<1>6. ASSUME NEW t \in Threads, Mark(t) \/ CancelOverdue(t), flying[loc[t].at] # x
      PROVE  xfer'[x] = xfer[x]
  <2>1. pc[t] \in {"mark", "cancel"}
    BY <1>6 DEF Mark, CancelOverdue, At
  <2>2. flying[loc[t].at] \in Threads
    BY <2>1, AtIsThread
  <2> QED
    BY <1>1, <1>6, <2>2, MarkEffect, CancelTransferEffect DEF CancelOverdue
<1> QED
  BY <1>2, <1>3, <1>4, <1>5, <1>6, XferChanges

\* What a handler has, of a transfer it ends.
LEMMA HandlerHas ==
  ASSUME Inv, NEW t \in Threads, Retire(t) \/ Complete(t) \/ Scan(t) \/ ClearPriv(t)
  PROVE  /\ loc[t].cur \in Threads /\ pc[t] \in CurPlaces
         /\ Retire(t) => xfer[loc[t].cur].urb \in Reapable
<1>1. pc[t] \in CurPlaces
  BY DEF Retire, Complete, Scan, ClearPriv, At, CurPlaces
<1> QED
  BY <1>1, CurIsThread DEF Inv, HandlerInv, Retire, At

\* A transfer is completed by a handler, or anew.
CompletedSteps(x) ==
  \/ xfer'[x].completed = xfer[x].completed
  \/ Submit(x) /\ ~xfer'[x].completed /\ xfer'[x].urb = None
  \/ (Return(x) \/ DoClose(x)) /\ ~xfer'[x].completed /\ xfer'[x].urb = None
  \/ \E t \in Threads : Complete(t) /\ loc[t].cur = x /\ xfer'[x].completed

\* Its URB is queued by its submission, ended by the kernel and forgotten by a handler.
UrbSteps(x) ==
  \/ xfer'[x].urb = xfer[x].urb
  \/ BackendSubmit(x) /\ plugged /\ xfer'[x].urb = "queued" /\ xfer'[x].status = xfer[x].status
  \/ xfer[x].urb = "queued" /\ xfer'[x].urb \in Reapable
  \/ xfer'[x].urb = None /\ (Submit(x) \/ Return(x) \/ DoClose(x))
  \/ xfer'[x].urb = None /\ \E t \in Threads : (Retire(t) \/ ClearPriv(t)) /\ loc[t].cur = x

\* It is locked for its submission.
LockSteps(x) ==
  \/ xfer'[x].lock = xfer[x].lock
  \/ Submit(x) /\ xfer'[x].lock = x
  \/ Submitted(x) /\ pc'[x] = "wait"
  \/ Unsubmit(x) \/ Return(x) \/ DoClose(x)

\* Its status is that of its submission, or of its end.
StatusSteps(x) ==
  \/ xfer'[x].status = xfer[x].status
  \/ Submit(x) /\ xfer'[x].status = None
  \/ BackendSubmit(x) \/ Submitted(x) \/ Return(x) \/ DoClose(x)
  \/ \E t \in Threads : Complete(t) /\ loc[t].cur = x

\* It is in flight when it has been submitted, and may be again by handle_timeout.
FlightSteps(x) ==
  "IN_FLIGHT" \in xfer'[x].flags =>
    \/ "IN_FLIGHT" \in xfer[x].flags
    \/ Submitted(x) /\ pc'[x] = "wait"
    \/ \E t \in Threads : Complete(t) /\ loc[t].cur = x
    \/ \E t \in Threads : Mark(t) /\ flying[loc[t].at] = x /\ "IN_FLIGHT" \in loc[t].seen

\* Its device disappears while it is submitted, or as it is cancelled.
DisappearedSteps(x) ==
  "DEVICE_DISAPPEARED" \in xfer'[x].flags =>
    \/ "DEVICE_DISAPPEARED" \in xfer[x].flags
    \/ \E t \in Threads : Scan(t) /\ loc[t].cur = x
    \/ \E t \in Threads : Complete(t) /\ loc[t].cur = x
    \/ \E t \in Threads : Mark(t) /\ flying[loc[t].at] = x /\ "DEVICE_DISAPPEARED" \in loc[t].seen
    \/ xfer[x].lock = Nobody /\ "IN_FLIGHT" \in xfer[x].flags

\* It stays so until handle_timeout overlooks it.
StaysLostSteps(x) ==
  "DEVICE_DISAPPEARED" \in xfer[x].flags =>
    \/ "DEVICE_DISAPPEARED" \in xfer'[x].flags
    \/ Submit(x) \/ (Submitted(x) /\ pc'[x] = "wait") \/ Return(x) \/ DoClose(x)
    \/ \E t \in Threads : Complete(t) /\ loc[t].cur = x
    \/ \E t \in Threads : Mark(t) /\ flying[loc[t].at] = x

XferFields(x) ==
  /\ CompletedSteps(x) /\ UrbSteps(x) /\ LockSteps(x) /\ StatusSteps(x)
  /\ FlightSteps(x) /\ DisappearedSteps(x) /\ StaysLostSteps(x)

\* Every step changes the fields of a transfer as above, and not otherwise.
LEMMA XferFieldSteps ==
  ASSUME Inv, [Next]_vars, NEW x \in Threads
  PROVE  XferFields(x)
<1>1. xfer \in [Threads -> Transfer] /\ loc \in [Threads -> Locals] /\ pc \in [Threads -> Places]
  BY DEF Inv, TypeInv
<1> USE DEF XferFields, CompletedSteps, UrbSteps, LockSteps, StatusSteps, FlightSteps, DisappearedSteps,
         StaysLostSteps
<1>2. CASE xfer'[x] = xfer[x]
  BY <1>2
<1>3. CASE Submit(x)
  BY <1>1, <1>3, SubmitEffect
<1>4. CASE BackendSubmit(x)
  BY <1>1, <1>4, BackendSubmitEffect
<1>5. CASE Submitted(x)
  <2>1. /\ xfer'[x].urb = xfer[x].urb /\ xfer'[x].completed = xfer[x].completed
        /\ \/ xfer'[x].lock = xfer[x].lock /\ xfer'[x].flags = xfer[x].flags \ {"SUBMITTING"}
           \/ Goto(x, "wait") /\ "DEVICE_DISAPPEARED" \notin xfer[x].flags
    BY <1>1, <1>5, SubmittedEffect
  <2>2. Goto(x, "wait") => pc'[x] = "wait"
    BY <1>1 DEF Goto
  <2>3. "DEVICE_DISAPPEARED" \in xfer'[x].flags => "DEVICE_DISAPPEARED" \in xfer[x].flags
    <3>1. xfer'[x].flags \subseteq xfer[x].flags \cup {"IN_FLIGHT"}
      BY <1>1, <1>5, SubmittedEffect
    <3> QED
      BY <3>1
  <2> QED
    BY <1>5, <2>1, <2>2, <2>3
<1>6. CASE Unsubmit(x)
  BY <1>1, <1>6, UnsubmitEffect
<1>7. CASE Return(x) \/ DoClose(x)
  BY <1>1, <1>7, XferReset, NoTransferFields
<1>8. CASE EndUrb(x)
  BY <1>1, <1>8, EndUrbEffect
<1>9. CASE Unplug
  BY <1>1, <1>9, UnplugEffect DEF Reapable
<1>10. ASSUME CancelTransfer(x) PROVE XferFields(x)
  BY <1>1, <1>10, CancelTransferEffect DEF Reapable
<1>11. CASE \E t \in Threads : (Retire(t) \/ ClearPriv(t)) /\ loc[t].cur = x
  BY <1>1, <1>11, HandlerHas, RetireEffect, ClearPrivEffect
<1>12. CASE \E t \in Threads : Complete(t) /\ loc[t].cur = x
  <2>1. PICK t \in Threads : Complete(t) /\ loc[t].cur = x
    BY <1>12
  <2>2. xfer'[x].urb = xfer[x].urb /\ xfer'[x].completed
    BY <1>1, <2>1, HandlerHas, CompleteEffect
  <2>3. xfer'[x].lock = xfer[x].lock
    BY <1>1, <2>1 DEF Complete, Transfer
  <2> QED
    BY <2>1, <2>2, <2>3
<1>13. CASE \E t \in Threads : Scan(t) /\ loc[t].cur = x
  <2>1. PICK t \in Threads : Scan(t) /\ loc[t].cur = x
    BY <1>13
  <2>2. /\ xfer'[x].lock = xfer[x].lock /\ xfer'[x].urb = xfer[x].urb
        /\ xfer'[x].completed = xfer[x].completed /\ xfer'[x].status = xfer[x].status
        /\ xfer'[x].flags = xfer[x].flags \/ xfer'[x].flags = xfer[x].flags \cup {"DEVICE_DISAPPEARED"}
    BY <1>1, <2>1, HandlerHas, ScanEffect
  <2> QED
    BY <2>1, <2>2
<1>14. CASE \E t \in Threads : Mark(t) /\ flying[loc[t].at] = x
  <2>1. PICK t \in Threads : Mark(t) /\ flying[loc[t].at] = x
    BY <1>14
  <2>2. /\ xfer'[x].lock = xfer[x].lock /\ xfer'[x].urb = xfer[x].urb
        /\ xfer'[x].completed = xfer[x].completed /\ xfer'[x].status = xfer[x].status
        /\ xfer'[x].flags = loc[t].seen \cup {"TIMED_OUT"}
    BY <1>1, <2>1, MarkEffect
  <2> QED
    BY <2>1, <2>2
<1> QED
  BY <1>2, <1>3, <1>4, <1>5, <1>6, <1>7, <1>8, <1>9, <1>10, <1>11, <1>12, <1>13, <1>14, XferSteps
  DEF CancelAndRetry, CancelOverdue

-----------------------------------------------------------------------------
(* The list of flying transfers. *)

\* A transfer enters it once, by its submission, and leaves it once.
LEMMA FlyingSteps ==
  ASSUME Inv, [Next]_vars
  PROVE  /\ IsInjective(flying')
         /\ \/ flying' = flying
            \/ /\ lock.flying = Nobody
               /\ \E t \in Threads :
                    \/ Submit(t) /\ ~Flies(t) /\ Range(flying') = Range(flying) \cup {t}
                    \/ (Unsubmit(t) \/ Sweep(t)) /\ Range(flying') = Range(flying) \ {t}
                    \/ /\ Complete(t) /\ loc[t].cur \in Threads
                       /\ Range(flying') = Range(flying) \ {loc[t].cur}
<1>1. TypeInv /\ IsInjective(flying)
  BY DEF Inv, ListInv
<1>2. ASSUME NEW t \in Threads, Submit(t)
      PROVE  /\ IsInjective(flying') /\ lock.flying = Nobody
             /\ ~Flies(t) /\ Range(flying') = Range(flying) \cup {t}
  <2>1. pc[t] = "held" /\ lock.flying = Nobody
    BY <1>2 DEF Submit, At
  <2>2. ~Flies(t)
    BY <2>1 DEF Inv, TransferInv, Outside
  <2> QED
    BY <1>1, <1>2, <2>1, <2>2, SubmitList
<1>3. ASSUME NEW t \in Threads, Unsubmit(t) \/ Sweep(t)
      PROVE  /\ IsInjective(flying') /\ lock.flying = Nobody
             /\ Range(flying') = Range(flying) \ {t}
  <2>1. lock.flying = Nobody
    BY <1>3 DEF Unsubmit, Sweep
  <2> QED
    BY <1>1, <1>3, <2>1, RemovedFromList
<1>4. ASSUME NEW t \in Threads, Complete(t)
      PROVE  /\ IsInjective(flying') /\ lock.flying = Nobody /\ loc[t].cur \in Threads
             /\ Range(flying') = Range(flying) \ {loc[t].cur}
  <2>1. lock.flying = Nobody /\ pc[t] \in CurPlaces
    BY <1>4 DEF Complete, At, CurPlaces
  <2> QED
    BY <1>1, <1>4, <2>1, CompletedList, CurIsThread
<1> QED
  BY <1>1, <1>2, <1>3, <1>4, FlyingChanges

\* Its lock is taken when nobody has it, and kept to the end of the search.
LEMMA FlyingLockChanges ==
  ASSUME Inv, [Next]_vars
  PROVE  \/ lock'.flying = lock.flying
         \/ \E t \in Threads : \/ LockFlying(t) /\ lock.flying = Nobody /\ lock'.flying = t
                               \/ NextFlying(t) /\ pc'[t] \in {"unlock", "wait"}
<1>1. lock \in LockType /\ loc \in [Threads -> Locals] /\ flying \in Seq(Threads) /\ pc \in [Threads -> Places]
  BY DEF Inv, TypeInv
<1>2. ASSUME NEW t \in Threads, NextFlying(t)
      PROVE  lock'.flying = lock.flying \/ pc'[t] \in {"unlock", "wait"}
  <2>1. loc[t].at \in Nat /\ Len(flying) \in Nat
    BY <1>1, LenProperties DEF Locals
  <2>2. Goto(t, IF lock.events = t THEN "unlock" ELSE "wait") => pc'[t] \in {"unlock", "wait"}
    BY <1>1 DEF Goto
  <2> QED
    BY <1>1, <1>2, <2>1, <2>2, NextFlyingEffect
<1>3. ASSUME NEW t \in Threads, LockFlying(t) PROVE lock.flying = Nobody
  BY <1>3 DEF LockFlying
<1> QED
  BY <1>1, <1>2, <1>3, LockChanges, TryLockEffect, LockEventsEffect, ReleaseEventsEffect, OtherLocksEffect,
     LockFlyingEffect, SweepEffect

\* Who searches the list has its lock, and the list stays.
LEMMA SearchKeepsList ==
  ASSUME Inv, [Next]_vars, NEW u \in Threads, pc[u] \in {"next", "mark", "cancel"}
  PROVE  /\ flying' = flying
         /\ lock'.flying = u \/ pc'[u] \in {"unlock", "wait"}
<1>1. lock.flying = u /\ u # Nobody
  BY UsbIoAssumption DEF Inv, ListInv
<1>2. ASSUME NEW t \in Threads, NextFlying(t) PROVE t = u
  BY <1>1, <1>2 DEF Inv, ListInv, NextFlying, At
<1> QED
  BY <1>1, <1>2, FlyingSteps, FlyingLockChanges

\* ListInv is kept: the list does not change under who searches it.
LEMMA ListNext ==
  ASSUME Inv, [Next]_vars
  PROVE  ListInv'
<1>1. TypeInv /\ loc \in [Threads -> Locals] /\ pc \in [Threads -> Places] /\ ListInv
  BY DEF Inv, TypeInv
<1>2. SUFFICES ASSUME NEW u \in Threads, pc'[u] \in {"next", "mark", "cancel"}
               PROVE  /\ lock'.flying = u /\ loc'[u].at > 0
                      /\ pc'[u] \in {"mark", "cancel"} => loc'[u].at <= Len(flying')
  BY FlyingSteps DEF ListInv
<1>3. CASE pc'[u] = pc[u] /\ loc'[u] = loc[u]
  <2>1. lock'.flying = u /\ flying' = flying
    BY <1>2, <1>3, SearchKeepsList
  <2> QED
    BY <1>1, <1>2, <1>3, <2>1 DEF ListInv
<1>4. CASE LockFlying(u)
  <2>1. lock'.flying = u /\ loc'[u].at = 1
    BY <1>1, <1>4, LockFlyingEffect, LockFlyingLocals DEF TypeInv
  <2>2. pc'[u] = "next"
    BY <1>1, <1>4 DEF LockFlying, Goto
  <2> QED
    BY <2>1, <2>2
<1>5. CASE NextFlying(u)
  <2>1. pc[u] = "next" /\ pc'[u] \in {"next", "mark"}
    BY <1>2, <1>5, <1>1, PcChanges DEF NextFlying, At, Goto
  <2>2. lock'.flying = u /\ flying' = flying
    BY <2>1, SearchKeepsList
  <2>3. loc'[u].at > 0 /\ (pc'[u] = "mark" => loc'[u].at <= Len(flying))
    BY <1>5, <2>1, NextFlyingLocals
  <2> QED
    BY <2>1, <2>2, <2>3
<1>6. CASE Mark(u)
  <2>1. pc[u] = "mark" /\ loc'[u] = loc[u] /\ pc'[u] = "cancel"
    BY <1>1, <1>6 DEF Mark, At, Goto
  <2>2. lock'.flying = u /\ flying' = flying
    BY <2>1, SearchKeepsList
  <2> QED
    BY <1>1, <2>1, <2>2 DEF ListInv
<1>7. CASE CancelOverdue(u)
  <2>1. pc[u] = "cancel" /\ loc' = [loc EXCEPT ![u].at = @ + 1] /\ pc'[u] = "next"
    BY <1>1, <1>7 DEF CancelOverdue, At, Goto
  <2>2. lock'.flying = u /\ flying' = flying
    BY <2>1, SearchKeepsList
  <2>3. loc'[u].at = loc[u].at + 1 /\ loc[u].at > 0 /\ loc[u].at \in Nat
    BY <1>1, <2>1, AtMoves DEF ListInv, Locals
  <2> QED
    BY <2>1, <2>2, <2>3
<1>8. \/ pc'[u] = pc[u] /\ loc'[u] = loc[u]
      \/ LockFlying(u) \/ NextFlying(u) \/ Mark(u) \/ CancelOverdue(u)
  BY <1>2, ThreadSteps DEF Moves, Leads
<1> QED
  BY <1>3, <1>4, <1>5, <1>6, <1>7, <1>8

-----------------------------------------------------------------------------
(* Where a transfer stands. *)

\* The steps of the caller that are about its own transfer.
LEMMA OwnSteps ==
  ASSUME TypeInv, NEW x \in Threads
  PROVE  /\ Submit(x) => pc[x] = "held" /\ pc'[x] = "submit"
         /\ BackendSubmit(x) => pc[x] = "submit" /\ pc'[x] = "submitted"
         /\ Submitted(x) => pc[x] = "submitted" /\ pc'[x] \in {"unsubmit", "wait"}
         /\ Unsubmit(x) => pc[x] = "unsubmit" /\ pc'[x] = "return"
         /\ Return(x) => /\ pc[x] = "return" \/ (pc[x] = "wait" /\ xfer[x].completed)
                         /\ pc'[x] = "held"
         /\ Sweep(x) => pc[x] = "sweep" /\ pc'[x] = "innercast"
         /\ DoClose(x) => pc[x] = "closefd" /\ pc'[x] = "closed"
BY DEF Submit, BackendSubmit, Submitted, Unsubmit, Return, Sweep, DoClose, At, Goto, TypeInv

\* How a thread comes to where it is.
LEMMA ClassSteps ==
  ASSUME Inv, [Next]_vars, NEW x \in Threads
  PROVE  /\ pc'[x] \in Outside => pc[x] \in Outside \/ Return(x)
         /\ pc'[x] = "return" => pc[x] = "return" \/ Unsubmit(x)
         /\ pc'[x] \in Submitting => pc[x] \in Submitting \/ Submit(x)
         /\ pc'[x] = "submit" => pc[x] = "submit" \/ Submit(x)
         /\ pc'[x] = "submitted" => pc[x] = "submitted" \/ BackendSubmit(x)
         /\ pc'[x] = "unsubmit" => pc[x] = "unsubmit" \/ Submitted(x)
         /\ pc'[x] \in Busy => pc[x] \in Busy \/ Submitted(x)
<1>1. CASE pc'[x] = pc[x]
  BY <1>1
<1>2. CASE Moves(x)
  BY <1>2 DEF Moves, Leads, Outside, Closing, Submitting, Busy, Waiting, Handling, TimingOut
<1> QED
  BY <1>1, <1>2, ThreadSteps

\* Every place is of one class.
LEMMA Classes ==
  ASSUME NEW p \in Places
  PROVE  /\ p \in Outside \/ p = "return" \/ p \in Submitting \/ p \in Busy
         /\ p \in Outside => p # "return" /\ p \notin Submitting /\ p \notin Busy
         /\ p \in Submitting => p # "return" /\ p \notin Busy
         /\ p \in Busy => p # "return"
BY DEF Places, Outside, Closing, Submitting, Busy, Waiting, Handling, TimingOut

\* What a handler takes from the kernel belongs to a caller who waits for it.
LEMMA RetiredIsBusy ==
  ASSUME Inv, NEW t \in Threads, pc[t] = "retire", xfer[loc[t].cur].lock = Nobody
  PROVE  loc[t].cur \in Threads /\ pc[loc[t].cur] \in Busy /\ Flies(loc[t].cur)
<1> DEFINE x == loc[t].cur
<1>1. /\ x \in Threads /\ xfer[x].urb \in Reapable /\ ~loc[t].gone
      /\ pc \in [Threads -> Places] /\ x # Nobody /\ xfer[x].urb # None
  <2>1. x \in Threads
    BY CurIsThread DEF CurPlaces
  <2>2. xfer[x].urb \in Reapable /\ ~loc[t].gone
    BY DEF Inv, HandlerInv
  <2>3. None \notin Reapable
    BY UsbIoAssumption DEF None, Reapable
  <2> QED
    BY <2>1, <2>2, <2>3, UsbIoAssumption DEF Inv, TypeInv
<1>2. pc[x] \notin Outside /\ pc[x] \notin Submitting
  BY <1>1 DEF Inv, TransferInv
<1>3. pc[x] # "return"
  <2>1. pc[x] = "return" => Lost(x)
    BY <1>1 DEF Lost
  <2>2. Lost(x) => x # loc[t].cur
    BY <1>1 DEF Inv, LostInv, Serving, Handling, CurPlaces
  <2> QED
    BY <2>1, <2>2
<1>4. pc[x] \in Busy
  BY <1>1, <1>2, <1>3, Classes
<1> QED
  BY <1>1, <1>4 DEF Inv, TransferInv

\* So does what it completes.
LEMMA CompletedIsBusy ==
  ASSUME Inv, NEW t \in Threads, Complete(t) \/ ClearPriv(t)
  PROVE  /\ loc[t].cur \in Threads /\ pc[loc[t].cur] \in Busy /\ Flies(loc[t].cur)
         /\ Complete(t) => xfer[loc[t].cur].urb = None
<1>1. pc[t] \in {"complete", "clear"} /\ (Complete(t) => pc[t] = "complete")
  BY DEF Complete, ClearPriv, At
<1> QED
  BY <1>1, HandlerHas DEF Inv, HandlerInv

\* When a transfer is in the list.
LEMMA FliesSteps ==
  ASSUME Inv, [Next]_vars, NEW x \in Threads
  PROVE  /\ Submit(x) => Flies(x)'
         /\ Unsubmit(x) \/ Sweep(x) => ~Flies(x)'
         /\ \A t \in Threads : Complete(t) /\ loc[t].cur = x => ~Flies(x)'
         /\ \/ Flies(x)' <=> Flies(x)
            \/ Submit(x) \/ Unsubmit(x) \/ Sweep(x)
            \/ \E t \in Threads : Complete(t) /\ loc[t].cur = x
<1>1. TypeInv /\ IsInjective(flying)
  BY DEF Inv, ListInv
<1>2. Submit(x) => Flies(x)'
  BY <1>1, SubmitList DEF Flies
<1>3. Unsubmit(x) \/ Sweep(x) => ~Flies(x)'
  BY <1>1, RemovedFromList DEF Flies
<1>4. \A t \in Threads : Complete(t) /\ loc[t].cur = x => ~Flies(x)'
  BY <1>1, CompletedList DEF Flies
<1>5. \/ Flies(x)' <=> Flies(x)
      \/ Submit(x) \/ Unsubmit(x) \/ Sweep(x)
      \/ \E t \in Threads : Complete(t) /\ loc[t].cur = x
  BY FlyingSteps DEF Flies
<1> QED
  BY <1>2, <1>3, <1>4, <1>5

\* TransferInv is kept: outside a call there is no transfer, inside it is in the list
\* until it is complete.
LEMMA TransferNext ==
  ASSUME Inv, [Next]_vars
  PROVE  TransferInv'
<1> SUFFICES ASSUME NEW x \in Threads
             PROVE  /\ pc'[x] \in Outside => ~Flies(x)' /\ xfer'[x].urb = None
                    /\ pc'[x] = "return" => ~Flies(x)'
                    /\ pc'[x] \in Submitting => /\ Flies(x)' /\ xfer'[x].lock = x /\ ~xfer'[x].completed
                                                /\ "IN_FLIGHT" \notin xfer'[x].flags
                    /\ pc'[x] = "submit" => xfer'[x].urb = None /\ xfer'[x].status = None
                    /\ pc'[x] \in Busy => (Flies(x)' <=> ~xfer'[x].completed)
                    /\ xfer'[x].urb # None => ~xfer'[x].completed
                    /\ pc'[x] \in {"submit", "submitted"} /\ xfer'[x].urb # None => xfer'[x].status # "NO_DEVICE"
  BY DEF TransferInv
<1>1. /\ TypeInv /\ xfer \in [Threads -> Transfer] /\ pc \in [Threads -> Places]
      /\ pc'[x] \in Places /\ x # Nobody /\ pc[x] \in Places /\ None # "queued" /\ None \notin Reapable
  BY PcChanges, UsbIoAssumption DEF Inv, TypeInv, None, Reapable
<1>2. /\ pc[x] \in Outside => ~Flies(x) /\ xfer[x].urb = None
      /\ pc[x] = "return" => ~Flies(x)
      /\ pc[x] \in Submitting => /\ Flies(x) /\ xfer[x].lock = x /\ ~xfer[x].completed
                                 /\ "IN_FLIGHT" \notin xfer[x].flags
      /\ pc[x] = "submit" => xfer[x].urb = None /\ xfer[x].status = None
      /\ pc[x] \in Busy => (Flies(x) <=> ~xfer[x].completed)
      /\ xfer[x].urb # None => ~xfer[x].completed
      /\ pc[x] \in {"submit", "submitted"} /\ xfer[x].urb # None => xfer[x].status # "NO_DEVICE"
  BY DEF Inv, TransferInv
<1>3. /\ CompletedSteps(x) /\ UrbSteps(x) /\ LockSteps(x) /\ StatusSteps(x) /\ FlightSteps(x)
  BY XferFieldSteps DEF XferFields
<1>4. ASSUME NEW t \in Threads, Complete(t), loc[t].cur = x
      PROVE  pc[x] \in Busy /\ Flies(x) /\ xfer[x].urb = None /\ xfer'[x].completed /\ xfer'[x].urb = None
  <2>1. xfer'[x].completed /\ xfer'[x].urb = xfer[x].urb
    BY <1>1, <1>4, CompleteEffect, HandlerHas DEF TypeInv
  <2> QED
    BY <1>4, <2>1, CompletedIsBusy
<1>5. pc'[x] \in Outside => ~Flies(x)' /\ xfer'[x].urb = None
  <2>1. SUFFICES ASSUME pc'[x] \in Outside PROVE ~Flies(x)' /\ xfer'[x].urb = None
    OBVIOUS
  <2>2. pc'[x] \notin Submitting /\ pc'[x] # "return" /\ pc'[x] \notin Busy
    BY <1>1, <2>1, Classes
  <2>3. ~Submit(x) /\ ~BackendSubmit(x)
    BY <1>1, <2>2, OwnSteps DEF Submitting
  <2>4. CASE Return(x)
    <3>1. ~Flies(x)
      BY <1>1, <1>2, <2>4, OwnSteps DEF Busy, Waiting
    <3> QED
      BY <1>1, <2>3, <2>4, <3>1, FliesSteps, XferReset, NoTransferFields
  <2>5. CASE pc[x] \in Outside
    BY <1>2, <1>3, <2>3, <2>5, <1>1, FliesSteps DEF UrbSteps
  <2> QED
    BY <2>1, <2>4, <2>5, ClassSteps
<1>6. pc'[x] = "return" => ~Flies(x)'
  <2>1. pc'[x] = "return" => ~Submit(x)
    BY <1>1, OwnSteps
  <2> QED
    BY <1>2, <2>1, ClassSteps, FliesSteps
<1>7. pc'[x] \in Submitting => /\ Flies(x)' /\ xfer'[x].lock = x /\ ~xfer'[x].completed
                               /\ "IN_FLIGHT" \notin xfer'[x].flags
  <2>1. SUFFICES ASSUME pc'[x] \in Submitting
                 PROVE  /\ Flies(x)' /\ xfer'[x].lock = x /\ ~xfer'[x].completed
                        /\ "IN_FLIGHT" \notin xfer'[x].flags
    OBVIOUS
  <2>2. CASE Submit(x)
    BY <1>1, <2>2, FliesSteps, SubmitEffect
  <2>3. CASE pc[x] \in Submitting /\ ~Submit(x)
    <3>1. /\ ~Unsubmit(x) /\ ~Sweep(x) /\ ~Return(x) /\ ~DoClose(x) /\ pc'[x] # "wait"
      BY <1>1, <2>1, OwnSteps DEF Submitting
    <3>2. ASSUME NEW t \in Threads, Complete(t), loc[t].cur = x PROVE FALSE
      BY <1>1, <1>4, <2>3, <3>2, Classes
    <3>3. ASSUME NEW t \in Threads, Mark(t), flying[loc[t].at] = x PROVE "IN_FLIGHT" \notin loc[t].seen
      BY <2>3, <3>3 DEF Inv, SeenInv, Mark, At
    <3>4. Flies(x)' /\ ~xfer'[x].completed
      BY <1>2, <1>3, <2>3, <3>1, <3>2, FliesSteps DEF CompletedSteps
    <3>5. xfer'[x].lock = x
      BY <1>2, <1>3, <2>3, <3>1 DEF LockSteps
    <3>6. "IN_FLIGHT" \notin xfer'[x].flags
      BY <1>2, <1>3, <2>3, <3>1, <3>2, <3>3 DEF FlightSteps
    <3> QED
      BY <3>4, <3>5, <3>6
  <2> QED
    BY <2>1, <2>2, <2>3, ClassSteps
<1>8. pc'[x] = "submit" => xfer'[x].urb = None /\ xfer'[x].status = None
  <2>1. SUFFICES ASSUME pc'[x] = "submit" PROVE xfer'[x].urb = None /\ xfer'[x].status = None
    OBVIOUS
  <2>2. CASE Submit(x)
    BY <1>1, <2>2, SubmitEffect
  <2>3. CASE pc[x] = "submit" /\ ~Submit(x)
    <3>1. ~BackendSubmit(x) /\ ~Submitted(x) /\ ~Return(x) /\ ~DoClose(x)
      BY <1>1, <2>1, OwnSteps
    <3>2. ASSUME NEW t \in Threads, Complete(t), loc[t].cur = x PROVE FALSE
      BY <1>1, <1>4, <2>3, <3>2, Classes DEF Submitting
    <3> QED
      BY <1>1, <1>2, <1>3, <2>3, <3>1, <3>2 DEF UrbSteps, StatusSteps
  <2> QED
    BY <2>1, <2>2, <2>3, ClassSteps
<1>9. pc'[x] \in Busy => (Flies(x)' <=> ~xfer'[x].completed)
  <2>1. SUFFICES ASSUME pc'[x] \in Busy PROVE Flies(x)' <=> ~xfer'[x].completed
    OBVIOUS
  <2>2. ~Submit(x) /\ ~Unsubmit(x) /\ ~Sweep(x) /\ ~Return(x) /\ ~DoClose(x)
    BY <1>1, <2>1, OwnSteps DEF Busy, Waiting, Handling, TimingOut
  <2>3. CASE \E t \in Threads : Complete(t) /\ loc[t].cur = x
    BY <1>4, <2>3, FliesSteps
  <2>4. CASE ~\E t \in Threads : Complete(t) /\ loc[t].cur = x
    <3>1. (Flies(x)' <=> Flies(x)) /\ xfer'[x].completed = xfer[x].completed
      BY <1>3, <2>2, <2>4, FliesSteps DEF CompletedSteps
    <3>2. Submitted(x) => pc[x] \in Submitting
      BY <1>1, OwnSteps DEF Submitting
    <3> QED
      BY <1>2, <2>1, <3>1, <3>2, ClassSteps
  <2> QED
    BY <2>3, <2>4
<1>10. xfer'[x].urb # None => ~xfer'[x].completed
  <2>1. SUFFICES ASSUME xfer'[x].urb # None PROVE ~xfer'[x].completed
    OBVIOUS
  <2>2. ~\E t \in Threads : Complete(t) /\ loc[t].cur = x
    BY <1>4, <2>1
  <2>3. ~xfer'[x].completed \/ xfer'[x].completed = xfer[x].completed
    BY <1>3, <2>2 DEF CompletedSteps
  <2>4. xfer[x].urb # None \/ BackendSubmit(x)
    BY <1>1, <1>3, <2>1 DEF UrbSteps
  <2>5. BackendSubmit(x) => ~xfer[x].completed
    BY <1>1, <1>2, OwnSteps DEF Submitting
  <2> QED
    BY <1>2, <2>3, <2>4, <2>5
<1>11. pc'[x] \in {"submit", "submitted"} /\ xfer'[x].urb # None => xfer'[x].status # "NO_DEVICE"
  <2>1. SUFFICES ASSUME pc'[x] = "submitted", xfer'[x].urb # None PROVE xfer'[x].status # "NO_DEVICE"
    BY <1>8
  <2>2. CASE BackendSubmit(x)
    <3>1. pc[x] = "submit" /\ xfer[x].urb = None /\ xfer[x].status = None /\ None # "NO_DEVICE"
      BY <1>1, <1>2, <2>2, OwnSteps DEF None
    <3> QED
      BY <1>1, <2>1, <2>2, <3>1, BackendSubmitEffect
  <2>3. CASE pc[x] = "submitted" /\ ~BackendSubmit(x)
    <3>1. ~Submit(x) /\ ~Submitted(x) /\ ~Return(x) /\ ~DoClose(x)
      BY <1>1, <2>1, OwnSteps
    <3>2. ASSUME NEW t \in Threads, Complete(t), loc[t].cur = x PROVE FALSE
      BY <1>1, <1>4, <2>3, <3>2, Classes DEF Submitting
    <3>3. xfer[x].urb # None /\ xfer'[x].status = xfer[x].status
      BY <1>1, <1>3, <2>1, <2>3, <3>1, <3>2 DEF UrbSteps, StatusSteps
    <3> QED
      BY <1>2, <2>3, <3>3
  <2> QED
    BY <2>1, <2>2, <2>3, ClassSteps
<1> QED
  BY <1>5, <1>6, <1>7, <1>8, <1>9, <1>10, <1>11

-----------------------------------------------------------------------------
(* The disconnection. *)

\* A device is lost to a submission by the handler that finds it gone, and only so.
LEMMA LostArises ==
  ASSUME Inv, [Next]_vars, NEW x \in Threads, Lost(x)'
  PROVE  Lost(x) \/ \E t \in Threads : Scan(t) /\ loc[t].cur = x
<1>1. /\ TypeInv /\ xfer \in [Threads -> Transfer] /\ x # Nobody /\ None # "queued" /\ None \notin Reapable
      /\ pc[x] \in Places /\ pc'[x] \in Places
  BY PcChanges, UsbIoAssumption DEF Inv, TypeInv, None, Reapable
<1>2. /\ pc[x] \in Submitting => /\ xfer[x].lock = x /\ ~xfer[x].completed /\ "IN_FLIGHT" \notin xfer[x].flags
      /\ pc[x] \in {"submit", "submitted"} /\ xfer[x].urb # None => xfer[x].status # "NO_DEVICE"
  BY DEF Inv, TransferInv
<1>3. UrbSteps(x) /\ DisappearedSteps(x)
  BY XferFieldSteps DEF XferFields
<1>4. CASE pc'[x] \in Submitting /\ "DEVICE_DISAPPEARED" \in xfer'[x].flags
  <2>1. ~Submit(x)
    BY <1>1, <1>4, SubmitEffect
  <2>2. pc[x] \in Submitting
    BY <1>4, <2>1, ClassSteps
  <2>3. ASSUME NEW t \in Threads, Complete(t), loc[t].cur = x PROVE FALSE
    BY <1>1, <2>2, <2>3, CompletedIsBusy, Classes
  <2>4. ASSUME NEW t \in Threads, Mark(t), flying[loc[t].at] = x, "DEVICE_DISAPPEARED" \in loc[t].seen
        PROVE  Lost(x)
    BY <2>2, <2>4 DEF Inv, SeenInv, Mark, At
  <2>5. "DEVICE_DISAPPEARED" \in xfer[x].flags => Lost(x)
    BY <2>2 DEF Lost
  <2>6. ~(xfer[x].lock = Nobody /\ "IN_FLIGHT" \in xfer[x].flags)
    BY <1>2, <2>2
  <2> QED
    BY <1>3, <1>4, <2>3, <2>4, <2>5, <2>6 DEF DisappearedSteps
<1>5. CASE pc'[x] \in {"unsubmit", "return"} /\ xfer'[x].urb # None
  <2>1. ~BackendSubmit(x) /\ ~Submit(x)
    BY <1>1, <1>5, OwnSteps
  <2>2. xfer[x].urb # None
    BY <1>1, <1>3, <1>5, <2>1 DEF UrbSteps
  <2>3. CASE Submitted(x)
    <3>1. pc[x] = "submitted" /\ pc'[x] # "wait"
      BY <1>1, <1>5, <2>3, OwnSteps
    <3>2. ~Goto(x, "wait")
      BY <1>1, <3>1 DEF Goto, TypeInv
    <3>3. "DEVICE_DISAPPEARED" \in xfer[x].flags
      BY <1>1, <1>2, <2>2, <2>3, <3>1, <3>2, SubmittedEffect
    <3> QED
      BY <3>1, <3>3 DEF Lost, Submitting
  <2>4. Unsubmit(x) => pc[x] = "unsubmit"
    BY <1>1, OwnSteps
  <2>5. Submitted(x) \/ pc[x] \in {"unsubmit", "return"}
    BY <1>5, <2>4, ClassSteps
  <2>6. pc[x] \in {"unsubmit", "return"} => Lost(x)
    BY <2>2 DEF Lost
  <2> QED
    BY <2>3, <2>5, <2>6
<1> QED
  BY <1>4, <1>5 DEF Lost

\* LostInv is kept: who has not seen the device leave does not serve what is lost.
LEMMA LostNext ==
  ASSUME Inv, [Next]_vars
  PROVE  LostInv'
<1> SUFFICES ASSUME NEW x \in Threads, Lost(x)'
             PROVE  /\ ~plugged' /\ x \notin data'.pollfds
                    /\ \A u \in Threads :
                         pc'[u] \in Serving \ {"poll"} => \/ loc'[u].gone
                                                          \/ /\ x \notin loc'[u].ready
                                                             /\ pc'[u] \in CurPlaces => loc'[u].cur # x
  BY DEF LostInv
<1>1. /\ TypeInv /\ plugged \in BOOLEAN /\ pc \in [Threads -> Places]
  BY DEF Inv, TypeInv
<1>2. CASE Lost(x)
  <2>1. /\ ~plugged /\ x \notin data.pollfds /\ pc[x] \in Submitting \cup {"return"}
        /\ \A u \in Threads :
             pc[u] \in Serving \ {"poll"} => \/ loc[u].gone
                                             \/ /\ x \notin loc[u].ready
                                                /\ pc[u] \in CurPlaces => loc[u].cur # x
    BY <1>2 DEF Inv, LostInv, Lost, Submitting
  <2>2. ~plugged'
    BY <2>1, PluggedChanges DEF Unplug
  <2>3. x \notin data'.pollfds
    <3>1. ~Open(x)
      BY <2>1 DEF Open, At, Submitting
    <3> QED
      BY <2>1, <3>1, PollfdsChanges
  <2>4. ASSUME NEW u \in Threads, pc'[u] \in Serving \ {"poll"}
        PROVE  \/ loc'[u].gone
               \/ /\ x \notin loc'[u].ready
                  /\ pc'[u] \in CurPlaces => loc'[u].cur # x
    <3>1. /\ pc[u] \in Serving
          /\ \/ loc'[u].gone
             \/ pc[u] # "poll" /\ loc'[u].ready \subseteq loc[u].ready /\ loc'[u].gone = loc[u].gone
          /\ pc'[u] \in CurPlaces =>
               \/ NextHandle(u) /\ loc'[u].cur \in loc[u].ready
               \/ pc[u] \in CurPlaces /\ loc'[u].cur = loc[u].cur
      BY <2>1, <2>4, ServingChanges
    <3> QED
      BY <2>1, <3>1
  <2> QED
    BY <2>2, <2>3, <2>4
<1>3. CASE ~Lost(x)
  <2>1. PICK t \in Threads : Scan(t) /\ loc[t].cur = x
    BY <1>3, LostArises
  <2>2. /\ pc[t] = "scan" /\ loc'[t] = loc[t] /\ UNCHANGED <<plugged, data>>
        /\ pc'[t] \in {"detach", "clear"}
    BY <1>1, <2>1 DEF Scan, At, Goto, device
  <2>3. loc[t].gone /\ ~plugged /\ x \notin data.pollfds
    BY <2>1, <2>2 DEF Inv, HandlerInv
  <2>4. ASSUME NEW u \in Threads, pc'[u] \in Serving \ {"poll"} PROVE loc'[u].gone
    <3>1. pc[u] \in Serving
      BY <2>4, ServingChanges
    <3>2. pc[u] \in EventsPlaces /\ pc[t] \in EventsPlaces
      BY <2>2, <3>1 DEF Serving, EventsPlaces, Handling
    <3>3. u = t
      BY <3>2, OneHandler
    <3> QED
      BY <2>2, <2>3, <3>3
  <2> QED
    BY <2>2, <2>3, <2>4
<1> QED
  BY <1>2, <1>3

\* SeenInv is kept: what handle_timeout has read is put back before the submission of
\* the transfer goes on to be seen by another.
LEMMA SeenNext ==
  ASSUME Inv, [Next]_vars
  PROVE  SeenInv'
<1> SUFFICES ASSUME NEW t \in Threads, NEW x \in Threads, pc'[t] = "mark", flying'[loc'[t].at] = x,
                    pc'[x] \in Submitting
             PROVE  /\ "IN_FLIGHT" \notin loc'[t].seen
                    /\ "DEVICE_DISAPPEARED" \in loc'[t].seen => Lost(x)'
  BY DEF SeenInv
<1>1. /\ TypeInv /\ xfer \in [Threads -> Transfer] /\ pc \in [Threads -> Places]
      /\ pc[x] \in Places /\ pc'[x] \in Places /\ t # Nobody
  BY PcChanges, UsbIoAssumption DEF Inv, TypeInv
<1>2. CASE NextFlying(t)
  <2>1. pc[t] = "next"
    BY <1>2 DEF NextFlying, At
  <2>2. /\ flying' = flying /\ UNCHANGED xfer
        /\ flying[loc'[t].at] \in Threads /\ loc'[t].seen = xfer[flying[loc'[t].at]].flags
    BY <1>2, <2>1, NextFlyingLocals, SearchKeepsList DEF NextFlying
  <2>3. loc'[t].seen = xfer[x].flags
    BY <2>2
  <2>4. x # t => pc'[x] = pc[x]
    BY <1>1, <1>2 DEF NextFlying, Goto
  <2>5. pc[x] \in Submitting
    BY <2>4 DEF Submitting
  <2>6. "IN_FLIGHT" \notin xfer[x].flags
    BY <2>5 DEF Inv, TransferInv
  <2> QED
    BY <2>2, <2>3, <2>6 DEF Lost
<1>3. CASE pc'[t] = pc[t] /\ loc'[t] = loc[t]
  <2>1. pc[t] = "mark" /\ flying' = flying
    BY <1>3, SearchKeepsList
  <2>2. x = flying[loc[t].at] /\ loc'[t].seen = loc[t].seen
    BY <1>3, <2>1
  <2>4. ~Submit(x)
    <3>1. Submit(x) => Range(flying') = Range(flying) \cup {x} /\ ~Flies(x)
      BY <1>1, SubmitList, OwnSteps DEF Inv, TransferInv, Outside
    <3>2. Flies(x)
      BY <2>1, <2>2, AtIsThread
    <3> QED
      BY <3>1, <3>2
  <2>5. pc[x] \in Submitting
    BY <2>4, ClassSteps
  <2>6. /\ "IN_FLIGHT" \notin loc[t].seen
        /\ "DEVICE_DISAPPEARED" \in loc[t].seen => Lost(x)
    BY <2>1, <2>2, <2>5 DEF Inv, SeenInv
  <2>7. ASSUME NEW u \in Threads, Complete(u) \/ ClearPriv(u) \/ Retire(u), loc[u].cur = x PROVE FALSE
    <3>1. Retire(u) => pc[u] = "retire" /\ xfer[x].lock = Nobody
      BY <2>7 DEF Retire, At
    <3> QED
      BY <1>1, <2>5, <2>7, <3>1, CompletedIsBusy, RetiredIsBusy, Classes
  <2>8. ASSUME NEW u \in Threads, Mark(u) PROVE FALSE
    <3>1. u = t
      BY <2>1, <2>8 DEF Inv, ListInv, Mark, At
    <3> QED
      BY <1>1, <1>3, <2>1, <2>8, <3>1 DEF Mark, Goto
  <2>9. /\ ~Return(x) /\ ~DoClose(x) /\ pc'[x] # "wait"
    BY <1>1, OwnSteps DEF Submitting
  <2>10. UrbSteps(x) /\ StaysLostSteps(x)
    BY XferFieldSteps DEF XferFields
  <2>11. CASE "DEVICE_DISAPPEARED" \in xfer[x].flags
    BY <2>4, <2>6, <2>7, <2>8, <2>9, <2>10, <2>11, <2>2 DEF StaysLostSteps, Lost
  <2>12. CASE pc[x] \in {"unsubmit", "return"} /\ xfer[x].urb # None
    <3>1. ~BackendSubmit(x) /\ pc'[x] = "unsubmit"
      BY <1>1, <2>5, <2>12, OwnSteps, ClassSteps DEF Submitting
    <3>2. xfer'[x].urb # None
      BY <2>4, <2>7, <2>9, <2>10, <2>12, <3>1, <1>1, UsbIoAssumption DEF UrbSteps, None, Reapable
    <3> QED
      BY <2>2, <2>6, <3>1, <3>2 DEF Lost
  <2>13. Lost(x) => \/ "DEVICE_DISAPPEARED" \in xfer[x].flags
                    \/ pc[x] \in {"unsubmit", "return"} /\ xfer[x].urb # None
    BY DEF Lost
  <2> QED
    BY <2>2, <2>6, <2>11, <2>12, <2>13
<1>4. NextFlying(t) \/ (pc'[t] = pc[t] /\ loc'[t] = loc[t])
  BY ThreadSteps DEF Moves, Leads
<1> QED
  BY <1>2, <1>3, <1>4

\* Only poll tells a handler that the device is gone.
LEMMA GoneSteps ==
  ASSUME Inv, [Next]_vars, NEW u \in Threads, loc'[u].gone
  PROVE  loc[u].gone \/ ~plugged
<1>1. TypeInv /\ loc \in [Threads -> Locals] /\ data \in DataType /\ plugged \in BOOLEAN
  BY DEF Inv, TypeInv
<1>2. CASE Return(u) \/ Wake(u) \/ PollTimeout(u) \/ PollFails(u) \/ Broadcast(u)
  BY <1>1, <1>2, ForgetLocals
<1>3. CASE LookForTimeout(u) \/ LockWaiters(u)
  BY <1>1, <1>3, LookForTimeoutLocals
<1>4. CASE Rebuild(u) \/ Poll(u) \/ Pipe(u) \/ NextHandle(u) \/ HandlesServed(u)
  BY <1>1, <1>4, RebuildLocals, PollEffect, PipeLocals, NextHandleLocals, HandlesServedLocals
<1>5. CASE Retire(u) \/ Complete(u) \/ ClearPriv(u)
  BY <1>1, <1>5, HandlerHas, RetireEffect, CompleteEffect, ClearPrivEffect DEF TypeInv
<1>6. CASE Reason(u) \/ LockFlying(u) \/ NextFlying(u)
  BY <1>1, <1>6, ReasonEffect, LockFlyingLocals, NextFlyingLocals
<1>7. CASE CancelOverdue(u) \/ CancelAndRetry(u)
  BY <1>1, <1>7, AtMoves, FailedChanges DEF CancelOverdue, CancelAndRetry
<1>8. CASE \/ Open(u) \/ ListOpen(u) \/ Submit(u) \/ BackendSubmit(u) \/ Submitted(u) \/ Unsubmit(u)
           \/ TryLockEvents(u) \/ TryLock(u) \/ CheckActive(u) \/ Sleep(u) \/ Dispatch(u)
  BY <1>8 DEF Open, ListOpen, Submit, BackendSubmit, Submitted, Unsubmit, TryLockEvents, TryLock,
     CheckActive, Sleep, Dispatch
<1>9. CASE \/ Reap(u) \/ ReapedAll(u) \/ Scan(u) \/ Detach(u) \/ Mark(u) \/ ReleaseEvents(u)
           \/ Close(u) \/ LockEvents(u) \/ Sweep(u) \/ DoClose(u) \/ Closed(u)
  BY <1>9 DEF Reap, ReapedAll, Scan, Detach, Mark, ReleaseEvents, Close, LockEvents, Sweep, DoClose, Closed
<1>10. CASE loc'[u] = loc[u]
  BY <1>10
<1> QED
  BY <1>2, <1>3, <1>4, <1>5, <1>6, <1>7, <1>8, <1>9, <1>10, ThreadSteps DEF Moves

\* Who waits for a transfer in the list goes on waiting.
LEMMA BusyStays ==
  ASSUME Inv, [Next]_vars, NEW x \in Threads, pc[x] \in Busy, Flies(x)
  PROVE  pc'[x] \in Busy
<1>1. ~xfer[x].completed /\ TypeInv /\ pc[x] # "return"
  BY DEF Inv, TransferInv, Busy, Waiting, Handling, TimingOut
<1>2. ~Return(x)
  BY <1>1, OwnSteps
<1>3. CASE Moves(x)
  BY <1>2, <1>3 DEF Moves, Leads, Busy, Waiting, Handling, TimingOut
<1> QED
  BY <1>3, ThreadSteps

\* How a handler comes to where it is.
LEMMA HandlerSteps ==
  ASSUME Inv, [Next]_vars, NEW t \in Threads, pc'[t] \in CurPlaces
  PROVE  /\ loc'[t].gone = loc[t].gone /\ pc[t] \in EventsPlaces
         /\ pc'[t] \in {"reap", "scan"} =>
              \/ pc[t] = pc'[t]
              \/ (NextHandle(t) \/ Complete(t)) /\ pc'[t] = IF loc[t].gone THEN "scan" ELSE "reap"
         /\ pc'[t] = "retire" => pc[t] = "retire" \/ Reap(t)
         /\ pc'[t] = "reason" => pc[t] = "reason" \/ Retire(t)
         /\ pc'[t] = "complete" => pc[t] \in {"complete", "reason"} \/ Retire(t) \/ ClearPriv(t)
         /\ pc'[t] = "clear" => pc[t] = "clear" \/ Scan(t)
         /\ pc'[t] = "detach" => pc[t] = "detach" \/ pc[t] = "scan"
         /\ \/ NextHandle(t) /\ loc'[t].cur \in loc[t].ready /\ pc'[t] = IF loc[t].gone THEN "scan" ELSE "reap"
            \/ pc[t] \in CurPlaces /\ loc'[t].cur = loc[t].cur
<1>1. /\ pc'[t] \in Serving /\ pc'[t] # "poll" /\ pc'[t] \notin {"pipe", "dispatch"}
  BY DEF Serving, Handling, CurPlaces
<1>2. /\ pc[t] \in Serving /\ loc'[t].gone = loc[t].gone
      /\ \/ NextHandle(t) /\ loc'[t].cur \in loc[t].ready /\ pc'[t] = IF loc[t].gone THEN "scan" ELSE "reap"
         \/ pc[t] \in CurPlaces /\ loc'[t].cur = loc[t].cur
  BY <1>1, ServingChanges
<1>3. TypeInv
  BY DEF Inv
<1>4. Complete(t) => pc'[t] = IF loc[t].gone THEN "scan" ELSE "reap"
  BY <1>3 DEF Complete, Goto, TypeInv
<1>5. CASE pc'[t] = pc[t]
  BY <1>2, <1>5 DEF Serving, EventsPlaces, CurPlaces
<1>6. CASE Moves(t)
  <2>1. pc'[t] \in {"reap", "scan"} =>
          \/ pc[t] = pc'[t]
          \/ (NextHandle(t) \/ Complete(t)) /\ pc'[t] = IF loc[t].gone THEN "scan" ELSE "reap"
    BY <1>2, <1>4, <1>6 DEF Moves, Leads, CurPlaces
  <2>2. /\ pc'[t] = "retire" => pc[t] = "retire" \/ Reap(t)
        /\ pc'[t] = "reason" => pc[t] = "reason" \/ Retire(t)
        /\ pc'[t] = "complete" => pc[t] \in {"complete", "reason"} \/ Retire(t) \/ ClearPriv(t)
        /\ pc'[t] = "clear" => pc[t] = "clear" \/ Scan(t)
        /\ pc'[t] = "detach" => pc[t] = "detach" \/ pc[t] = "scan"
    BY <1>6 DEF Moves, Leads
  <2> QED
    BY <1>2, <2>1, <2>2 DEF Serving, EventsPlaces
<1> QED
  BY <1>5, <1>6, ThreadSteps

\* HandlerInv is kept: what a handler is about is neither freed nor ended by another.
LEMMA HandlerNext ==
  ASSUME Inv, [Next]_vars
  PROVE  HandlerInv'
<1> SUFFICES ASSUME NEW t \in Threads
             PROVE  /\ loc'[t].gone => ~plugged'
                    /\ pc'[t] \in {"reap", "retire", "reason"} => ~loc'[t].gone
                    /\ pc'[t] \in {"scan", "clear", "detach"} => loc'[t].gone
                    /\ pc'[t] \in {"scan", "clear", "complete", "detach"} /\ loc'[t].gone => loc'[t].cur \notin data'.pollfds
                    /\ pc'[t] = "retire" => xfer'[loc'[t].cur].urb \in Reapable
                    /\ pc'[t] \in {"reason", "complete", "clear"} => loc'[t].cur \in Range(flying') /\ pc'[loc'[t].cur] \in Busy
                    /\ pc'[t] \in {"reason", "complete"} => xfer'[loc'[t].cur].urb = None
  BY DEF HandlerInv, Flies
<1>1. /\ TypeInv /\ plugged \in BOOLEAN /\ xfer \in [Threads -> Transfer] /\ loc \in [Threads -> Locals]
      /\ data \in DataType /\ pc \in [Threads -> Places] /\ None # "queued" /\ None \notin Reapable
      /\ "queued" \notin Reapable
  BY UsbIoAssumption DEF Inv, TypeInv, None, Reapable
<1>2. /\ loc[t].gone => ~plugged
      /\ pc[t] \in {"reap", "retire", "reason"} => ~loc[t].gone
      /\ pc[t] \in {"scan", "clear", "detach"} => loc[t].gone
      /\ pc[t] \in {"scan", "clear", "complete", "detach"} /\ loc[t].gone => loc[t].cur \notin data.pollfds
      /\ pc[t] = "retire" => xfer[loc[t].cur].urb \in Reapable
      /\ pc[t] \in {"reason", "complete", "clear"} => Flies(loc[t].cur) /\ pc[loc[t].cur] \in Busy
      /\ pc[t] \in {"reason", "complete"} => xfer[loc[t].cur].urb = None
  BY DEF Inv, HandlerInv
<1>3. loc'[t].gone => ~plugged'
  BY <1>2, GoneSteps, PluggedChanges DEF Unplug
<1>4. pc'[t] \in {"reap", "retire", "reason"} => ~loc'[t].gone
  <2>1. Reap(t) \/ Retire(t) => pc[t] \in {"reap", "retire"}
    BY DEF Reap, Retire, At
  <2> QED
    BY <1>2, <2>1, HandlerSteps DEF CurPlaces
<1>5. pc'[t] \in {"scan", "clear", "detach"} => loc'[t].gone
  <2>1. Scan(t) => pc[t] = "scan"
    BY DEF Scan, At
  <2> QED
    BY <1>2, <2>1, HandlerSteps DEF CurPlaces
<1>6. pc'[t] \in {"scan", "clear", "complete", "detach"} /\ loc'[t].gone => loc'[t].cur \notin data'.pollfds
  <2>1. SUFFICES ASSUME pc'[t] \in {"scan", "clear", "complete", "detach"}, loc'[t].gone
                 PROVE  loc'[t].cur \notin data'.pollfds
    OBVIOUS
  <2>2. pc'[t] \in CurPlaces /\ loc[t].gone
    BY <2>1, HandlerSteps DEF CurPlaces
  <2>3. CASE NextHandle(t) /\ pc'[t] = IF loc[t].gone THEN "scan" ELSE "reap"
    <3>1. PICK f \in loc[t].ready :
            /\ loc'[t].cur = f
            /\ \/ UNCHANGED <<data, pc>>
               \/ f \in openDevs /\ loc[t].gone /\ RemovePollfd(f) /\ Goto(t, "scan")
               \/ f \in openDevs /\ ~loc[t].gone /\ UNCHANGED data /\ Goto(t, "reap")
      BY <1>1, <2>3, NextHandleLocals
    <3>2. pc[t] = "handles" /\ pc'[t] = "scan"
      BY <2>2, <2>3 DEF NextHandle, At
    <3>3. RemovePollfd(f)
      BY <2>2, <3>1, <3>2
    <3> QED
      BY <1>1, <3>1, <3>3, RemovePollfdEffect
  <2>4. CASE pc[t] \in CurPlaces /\ loc'[t].cur = loc[t].cur
    <3>1. pc[t] \in {"scan", "clear", "complete", "detach"}
      <4>1. Retire(t) \/ Reap(t) => pc[t] \in {"reap", "retire"}
        BY DEF Reap, Retire, At
      <4>2. Scan(t) \/ ClearPriv(t) \/ Complete(t) => pc[t] \in {"scan", "clear", "complete"}
        BY DEF Scan, ClearPriv, Complete, At
      <4>3. NextHandle(t) => pc[t] = "handles"
        BY DEF NextHandle, At
      <4> QED
        BY <1>2, <2>1, <2>2, <2>4, <4>1, <4>2, <4>3, HandlerSteps DEF CurPlaces
    <3>2. loc[t].cur \notin data.pollfds /\ loc[t].cur \in OpenHandles
      BY <1>2, <2>2, <2>4, <3>1, CurIsThread
    <3>3. ~Open(loc[t].cur)
      BY <3>2 DEF Open, At, OpenHandles, OpenPlaces
    <3> QED
      BY <2>4, <3>2, <3>3, PollfdsChanges
  <2> QED
    BY <2>2, <2>3, <2>4, HandlerSteps
<1>7. pc'[t] = "retire" => xfer'[loc'[t].cur].urb \in Reapable
  <2>1. SUFFICES ASSUME pc'[t] = "retire" PROVE xfer'[loc'[t].cur].urb \in Reapable
    OBVIOUS
  <2> DEFINE x == loc[t].cur
  <2>2. CASE Reap(t)
    BY <2>2 DEF Reap
  <2>3. CASE pc[t] = "retire"
    <3>1. /\ x \in Threads /\ loc'[t].cur = x /\ xfer[x].urb \in Reapable /\ ~loc[t].gone
          /\ xfer[x].urb # None
      <4>1. ~NextHandle(t)
        BY <2>3 DEF NextHandle, At
      <4> QED
        BY <1>1, <1>2, <2>1, <2>3, <4>1, CurIsThread, HandlerSteps DEF CurPlaces
    <3> HIDE DEF x
    <3>2. pc[x] \notin Outside /\ pc[x] # "submit" /\ ~xfer[x].completed
      BY <3>1 DEF Inv, TransferInv
    <3>3. pc[x] # "return"
      <4>1. pc[x] = "return" => Lost(x)
        BY <3>1 DEF Lost
      <4>2. ~Lost(x)
        BY <2>3, <3>1 DEF Inv, LostInv, Serving, Handling, CurPlaces, x
      <4> QED
        BY <4>1, <4>2
    <3>4. ~BackendSubmit(x) /\ ~Submit(x) /\ ~Return(x) /\ ~DoClose(x)
      BY <1>1, <3>1, <3>2, <3>3, OwnSteps DEF Outside, Closing
    <3>5. ASSUME NEW u \in Threads, Retire(u) \/ ClearPriv(u) PROVE FALSE
      <4>1. pc[u] \in {"retire", "clear"} /\ pc[u] \in EventsPlaces /\ pc[t] \in EventsPlaces
        BY <2>3, <3>5 DEF Retire, ClearPriv, At, EventsPlaces, Handling
      <4>2. u = t
        BY <4>1, OneHandler
      <4>3. pc'[u] \in {"reason", "complete"}
        BY <1>1, <3>5 DEF Retire, ClearPriv, Goto
      <4> QED
        BY <2>1, <4>2, <4>3
    <3>6. UrbSteps(x)
      BY <3>1, XferFieldSteps DEF XferFields
    <3> QED
      BY <1>1, <3>1, <3>4, <3>5, <3>6 DEF UrbSteps
  <2> QED
    BY <2>1, <2>2, <2>3, HandlerSteps DEF CurPlaces
<1>8. ASSUME pc'[t] \in {"reason", "complete", "clear"}
      PROVE  /\ loc'[t].cur = loc[t].cur /\ loc[t].cur \in Threads
             /\ Flies(loc[t].cur) /\ pc[loc[t].cur] \in Busy
  <2>1. /\ pc'[t] \in CurPlaces /\ pc[t] \in CurPlaces /\ loc'[t].cur = loc[t].cur
        /\ pc[t] \in {"reason", "complete", "clear"} \/ Retire(t) \/ ClearPriv(t) \/ Scan(t)
    BY <1>8, HandlerSteps DEF CurPlaces
  <2>2. loc[t].cur \in Threads
    BY <2>1, CurIsThread
  <2>3. CASE pc[t] \in {"reason", "complete", "clear"} \/ ClearPriv(t)
    BY <1>2, <2>1, <2>2, <2>3, CompletedIsBusy
  <2>4. CASE Retire(t)
    <3>1. pc[t] = "retire" /\ xfer[loc[t].cur].lock = Nobody
      BY <2>4 DEF Retire, At
    <3> QED
      BY <2>1, <2>2, <3>1, RetiredIsBusy
  <2>5. CASE Scan(t)
    <3> DEFINE x == loc[t].cur
    <3>1. Goto(t, "detach") => pc'[t] = "detach"
      BY <1>1 DEF Goto
    <3>2. Flies(x) /\ "IN_FLIGHT" \in xfer[x].flags
      BY <1>1, <1>8, <2>2, <2>5, <3>1, ScanEffect
    <3>3. pc[x] \notin Outside /\ pc[x] # "return" /\ pc[x] \notin Submitting
      BY <2>2, <3>2 DEF Inv, TransferInv
    <3> QED
      BY <1>1, <2>1, <2>2, <3>2, <3>3, Classes
  <2> QED
    BY <2>1, <2>3, <2>4, <2>5
<1>9. pc'[t] \in {"reason", "complete", "clear"} => loc'[t].cur \in Range(flying') /\ pc'[loc'[t].cur] \in Busy
  <2>1. SUFFICES ASSUME pc'[t] \in {"reason", "complete", "clear"}
                 PROVE  loc'[t].cur \in Range(flying') /\ pc'[loc'[t].cur] \in Busy
    OBVIOUS
  <2>2. PICK x \in Threads : x = loc[t].cur /\ loc'[t].cur = x /\ Flies(x) /\ pc[x] \in Busy
    BY <1>8, <2>1
  <2>3. ASSUME NEW u \in Threads, Complete(u) PROVE FALSE
    <3>1. pc[u] \in EventsPlaces /\ pc[t] \in EventsPlaces
      BY <2>1, <2>3, HandlerSteps DEF Complete, At, EventsPlaces, Handling, CurPlaces
    <3>2. u = t
      BY <3>1, OneHandler
    <3>3. pc'[u] \in {"scan", "reap"}
      BY <1>1, <2>3 DEF Complete, Goto
    <3> QED
      BY <2>1, <3>2, <3>3
  <2>4. ~Submit(x) /\ ~Unsubmit(x) /\ ~Sweep(x)
    BY <1>1, <2>2, OwnSteps DEF Busy, Waiting, Handling, TimingOut
  <2>5. Flies(x)'
    BY <2>2, <2>3, <2>4, FliesSteps
  <2>6. pc'[x] \in Busy
    BY <2>2, BusyStays
  <2> QED
    BY <2>2, <2>5, <2>6 DEF Flies
<1>10. pc'[t] \in {"reason", "complete"} => xfer'[loc'[t].cur].urb = None
  <2>1. SUFFICES ASSUME pc'[t] \in {"reason", "complete"}
                 PROVE  xfer'[loc'[t].cur].urb = None
    OBVIOUS
  <2>2. PICK x \in Threads : x = loc[t].cur /\ loc'[t].cur = x /\ Flies(x) /\ pc[x] \in Busy
    BY <1>8, <2>1
  <2>3. CASE Retire(t) \/ ClearPriv(t)
    <3>1. CASE Retire(t)
      BY <1>1, <2>2, <3>1, HandlerHas, RetireEffect
    <3>2. CASE ClearPriv(t)
      BY <1>1, <2>2, <3>2, HandlerHas, ClearPrivEffect
    <3> QED
      BY <2>3, <3>1, <3>2
  <2>4. CASE pc[t] \in {"reason", "complete"}
    <3>1. xfer[x].urb = None /\ ~BackendSubmit(x)
      BY <1>1, <1>2, <2>2, <2>4, OwnSteps DEF Busy, Waiting, Handling, TimingOut
    <3>2. UrbSteps(x)
      BY XferFieldSteps DEF XferFields
    <3> QED
      BY <1>1, <2>2, <3>1, <3>2 DEF UrbSteps
  <2> QED
    BY <2>1, <2>3, <2>4, HandlerSteps DEF CurPlaces
<1> QED
  BY <1>3, <1>4, <1>5, <1>6, <1>7, <1>9, <1>10

-----------------------------------------------------------------------------
(* The references to the device. *)

\* One thread goes on at a time.
LEMMA OneMoves ==
  ASSUME Inv, [Next]_vars, NEW t \in Threads, NEW u \in Threads, pc'[t] # pc[t], pc'[u] # pc[u]
  PROVE  t = u
<1>1. TypeInv
  BY DEF Inv
<1>2. CASE UNCHANGED pc
  BY <1>2
<1>3. CASE \E w \in Threads : Moves(w)
  BY <1>3 DEF Moves, Leads
<1> QED
  BY <1>1, <1>2, <1>3, PcChanges

\* The steps that change the references, or what they are counted by, take their
\* thread elsewhere, except for an open that fails.
LEMMA CountingSteps ==
  ASSUME Inv, NEW t \in Threads
  PROVE  /\ BackendSubmit(t) => pc[t] = "submit" /\ pc'[t] = "submitted"
         /\ Submitted(t) => pc[t] = "submitted" /\ pc'[t] \in {"unsubmit", "wait"}
         /\ Complete(t) => pc[t] = "complete" /\ pc'[t] \in {"scan", "reap"}
         /\ Pipe(t) => pc[t] = "pipe" /\ pc'[t] \in {"dispatch", "poll", "unlock"}
         /\ Detach(t) => pc[t] = "detach" /\ pc'[t] = "handles"
         /\ DoClose(t) => pc[t] = "closefd" /\ pc'[t] = "closed"
<1>1. pc \in [Threads -> Places]
  BY DEF Inv, TypeInv
<1>2. /\ BackendSubmit(t) => pc[t] = "submit" /\ pc'[t] = "submitted"
      /\ Submitted(t) => pc[t] = "submitted" /\ pc'[t] \in {"unsubmit", "wait"}
  BY <1>1 DEF BackendSubmit, Submitted, At, Goto
<1>3. Complete(t) => pc[t] = "complete" /\ pc'[t] \in {"scan", "reap"}
  BY <1>1 DEF Complete, At, Goto
<1>4. Pipe(t) => pc[t] = "pipe" /\ pc'[t] \in {"dispatch", "poll", "unlock"}
  BY <1>1 DEF Pipe, At, Goto
<1>5. /\ Detach(t) => pc[t] = "detach" /\ pc'[t] = "handles"
      /\ DoClose(t) => pc[t] = "closefd" /\ pc'[t] = "closed"
  BY <1>1 DEF Detach, DoClose, At, Goto
<1> QED
  BY <1>2, <1>3, <1>4, <1>5

\* A transfer is in use from the backend's submission to its end.
InUseEnds(x) ==
  \/ Submitted(x) /\ pc'[x] = "unsubmit"
  \/ \E t \in Threads : Complete(t) /\ loc[t].cur = x

\* It comes into use and ends in no other way.
LEMMA InUseSteps ==
  ASSUME Inv, [Next]_vars, NEW x \in Threads
  PROVE  /\ BackendSubmit(x) => x \notin InUse /\ x \in InUse'
         /\ InUseEnds(x) => x \in InUse /\ x \notin InUse'
         /\ BackendSubmit(x) \/ InUseEnds(x) \/ (x \in InUse' <=> x \in InUse)
<1> DEFINE A == pc[x] \in {"submit", "unsubmit"}
           B == pc'[x] \in {"submit", "unsubmit"}
<1>1. /\ TypeInv
      /\ x \in InUse <=> Flies(x) /\ ~A
      /\ x \in InUse' <=> Flies(x)' /\ ~B
  BY DEF Inv, InUse
<1>2. CASE BackendSubmit(x)
  <2>1. pc[x] = "submit" /\ pc'[x] = "submitted" /\ Flies(x)
    BY <1>2, CountingSteps DEF Inv, TransferInv, Submitting
  <2>2. ASSUME NEW t \in Threads, Complete(t) PROVE FALSE
    <3>1. pc[t] = "complete" /\ pc'[t] # pc[t]
      BY <2>2, CountingSteps
    <3> QED
      BY <2>1, <3>1, OneMoves
  <2>3. ~Submit(x) /\ ~Unsubmit(x) /\ ~Sweep(x)
    BY <1>1, <2>1, OwnSteps
  <2>4. ~InUseEnds(x) /\ Flies(x)'
    BY <2>1, <2>2, <2>3, FliesSteps DEF InUseEnds
  <2> QED
    BY <1>1, <1>2, <2>1, <2>4
<1>3. CASE Submitted(x) /\ pc'[x] = "unsubmit"
  <2>1. pc[x] = "submitted" /\ Flies(x) /\ ~BackendSubmit(x)
    BY <1>3, CountingSteps DEF Inv, TransferInv, Submitting
  <2> QED
    BY <1>1, <1>3, <2>1 DEF InUseEnds
<1>4. CASE \E t \in Threads : Complete(t) /\ loc[t].cur = x
  <2>1. pc[x] \in Busy /\ Flies(x) /\ ~Flies(x)'
    BY <1>4, CompletedIsBusy, FliesSteps
  <2>2. ~A /\ ~BackendSubmit(x)
    BY <2>1, CountingSteps DEF Busy, Waiting, Handling, TimingOut
  <2> QED
    BY <1>1, <1>4, <2>1, <2>2 DEF InUseEnds
<1>5. CASE ~BackendSubmit(x) /\ ~InUseEnds(x)
  <2>1. \/ Flies(x)' <=> Flies(x)
        \/ Submit(x) \/ Unsubmit(x) \/ Sweep(x)
    BY <1>5, FliesSteps DEF InUseEnds
  <2>2. CASE Submit(x)
    <3>1. pc[x] = "held" /\ pc'[x] = "submit"
      BY <1>1, <2>2, OwnSteps
    <3>2. ~Flies(x)
      BY <3>1 DEF Inv, TransferInv, Outside
    <3> QED
      BY <1>1, <1>5, <3>1, <3>2
  <2>3. CASE Unsubmit(x) \/ Sweep(x)
    <3>1. pc[x] = "unsubmit" \/ pc[x] = "sweep"
      BY <1>1, <2>3, OwnSteps
    <3>2. A \/ ~Flies(x)
      BY <3>1 DEF Inv, TransferInv, Outside, Closing
    <3>3. ~Flies(x)'
      BY <2>3, FliesSteps
    <3> QED
      BY <1>1, <1>5, <3>2, <3>3
  <2>4. CASE ~Submit(x) /\ ~Unsubmit(x) /\ ~Sweep(x)
    <3>1. CASE pc'[x] = pc[x]
      BY <1>1, <1>5, <2>1, <2>4, <3>1
    <3>2. CASE Moves(x)
      <4>1. A <=> B
        BY <1>5, <2>4, <3>2 DEF Moves, Leads, InUseEnds
      <4> QED
        BY <1>1, <1>5, <2>1, <2>4, <4>1
    <3> QED
      BY <3>1, <3>2, ThreadSteps
  <2> QED
    BY <2>2, <2>3, <2>4
<1> QED
  BY <1>2, <1>3, <1>4, <1>5 DEF InUseEnds

\* What becomes of the transfers in use.
LEMMA InUseChanges ==
  ASSUME Inv, [Next]_vars
  PROVE  /\ \A t \in Threads : BackendSubmit(t) => t \notin InUse /\ InUse' = InUse \cup {t}
         /\ \A t \in Threads : Submitted(t) /\ pc'[t] = "unsubmit" => t \in InUse /\ InUse' = InUse \ {t}
         /\ \A t \in Threads : Complete(t) => loc[t].cur \in InUse /\ InUse' = InUse \ {loc[t].cur}
         /\ \/ InUse' = InUse
            \/ \E t \in Threads : BackendSubmit(t) \/ (Submitted(t) /\ pc'[t] = "unsubmit") \/ Complete(t)
<1>1. InUse \subseteq Threads /\ InUse' \subseteq Threads
  BY DEF InUse
<1>2. ASSUME NEW t \in Threads, BackendSubmit(t)
      PROVE  t \notin InUse /\ InUse' = InUse \cup {t}
  <2>1. ASSUME NEW x \in Threads, x # t PROVE ~BackendSubmit(x) /\ ~InUseEnds(x)
    <3>1. ASSUME NEW u \in Threads, BackendSubmit(u) \/ Submitted(u) \/ Complete(u) PROVE u = t
      BY <1>2, <3>1, CountingSteps, OneMoves
    <3>2. ~Submitted(t) /\ ~Complete(t)
      BY <1>2, CountingSteps
    <3> QED
      BY <2>1, <3>1, <3>2 DEF InUseEnds
  <2>2. t \notin InUse /\ t \in InUse'
    BY <1>2, InUseSteps
  <2>3. \A x \in Threads : x # t => (x \in InUse' <=> x \in InUse)
    BY <2>1, InUseSteps
  <2> QED
    BY <1>1, <2>2, <2>3
<1>3. ASSUME NEW t \in Threads, Submitted(t) /\ pc'[t] = "unsubmit"
      PROVE  t \in InUse /\ InUse' = InUse \ {t}
  <2>1. ASSUME NEW x \in Threads, x # t PROVE ~BackendSubmit(x) /\ ~InUseEnds(x)
    <3>1. ASSUME NEW u \in Threads, BackendSubmit(u) \/ Submitted(u) \/ Complete(u) PROVE u = t
      BY <1>3, <3>1, CountingSteps, OneMoves
    <3>2. ~BackendSubmit(t) /\ ~Complete(t)
      BY <1>3, CountingSteps
    <3> QED
      BY <2>1, <3>1, <3>2 DEF InUseEnds
  <2>2. t \in InUse /\ t \notin InUse'
    BY <1>3, InUseSteps DEF InUseEnds
  <2>3. \A x \in Threads : x # t => (x \in InUse' <=> x \in InUse)
    BY <2>1, InUseSteps
  <2> QED
    BY <1>1, <2>2, <2>3
<1>4. ASSUME NEW t \in Threads, Complete(t)
      PROVE  loc[t].cur \in InUse /\ InUse' = InUse \ {loc[t].cur}
  <2>1. PICK c \in Threads : c = loc[t].cur
    BY <1>4, CompletedIsBusy
  <2>2. ASSUME NEW x \in Threads, x # c PROVE ~BackendSubmit(x) /\ ~InUseEnds(x)
    <3>1. ASSUME NEW u \in Threads, BackendSubmit(u) \/ Submitted(u) \/ Complete(u) PROVE u = t
      BY <1>4, <3>1, CountingSteps, OneMoves
    <3>2. ~BackendSubmit(t) /\ ~Submitted(t)
      BY <1>4, CountingSteps
    <3> QED
      BY <2>1, <2>2, <3>1, <3>2 DEF InUseEnds
  <2>3. c \in InUse /\ c \notin InUse'
    BY <1>4, <2>1, InUseSteps DEF InUseEnds
  <2>4. \A x \in Threads : x # c => (x \in InUse' <=> x \in InUse)
    BY <2>2, InUseSteps
  <2> QED
    BY <1>1, <2>1, <2>3, <2>4
<1>5. \/ InUse' = InUse
      \/ \E t \in Threads : BackendSubmit(t) \/ (Submitted(t) /\ pc'[t] = "unsubmit") \/ Complete(t)
  <2>1. SUFFICES ASSUME \A t \in Threads : ~BackendSubmit(t) /\ ~(Submitted(t) /\ pc'[t] = "unsubmit") /\ ~Complete(t)
                 PROVE  InUse' = InUse
    OBVIOUS
  <2>2. \A x \in Threads : x \in InUse' <=> x \in InUse
    BY <2>1, InUseSteps DEF InUseEnds
  <2> QED
    BY <1>1, <2>2
<1> QED
  BY <1>2, <1>3, <1>4, <1>5

\* What the context or a message holds changes when a message is taken.
LEMMA HeldChanges ==
  ASSUME Inv, [Next]_vars
  PROVE  /\ HeldByContext \in {0, 1}
         /\ \A t \in Threads : Pipe(t) => HeldByContext' = IF data.msgs > 0 THEN HeldByContext - 1 ELSE HeldByContext
         /\ HeldByContext' = HeldByContext \/ \E t \in Threads : Pipe(t)
<1>1. /\ data \in DataType /\ attached \in BOOLEAN /\ loc \in [Threads -> Locals]
      /\ data.msgs \in {0, 1} /\ (data.msgs = 1 => ~attached)
  BY DEF Inv, TypeInv, MsgInv
<1>2. ASSUME NEW t \in Threads, Pipe(t)
      PROVE  HeldByContext' = IF data.msgs > 0 THEN HeldByContext - 1 ELSE HeldByContext
  <2>1. attached' = attached /\ data'.msgs = IF data.msgs = 0 THEN 0 ELSE data.msgs - 1
    BY <1>1, <1>2, PipeEffect DEF Pipe
  <2> QED
    BY <1>1, <2>1 DEF HeldByContext
<1>3. ASSUME NEW t \in Threads, DeviceLeaves PROVE HeldByContext' = HeldByContext
  <2>1. /\ ~attached'
        /\ \/ ~attached /\ data' = data
           \/ attached /\ data'.msgs = data.msgs + 1
    BY <1>1, <1>3, DeviceLeavesEffect
  <2> QED
    BY <1>1, <2>1 DEF HeldByContext
<1>4. ASSUME attached' = attached, data'.msgs = data.msgs PROVE HeldByContext' = HeldByContext
  BY <1>4 DEF HeldByContext
<1>5. ASSUME NEW t \in Threads, Open(t) PROVE HeldByContext' = HeldByContext
  <2>1. CASE AddPollfd(t) /\ UNCHANGED attached
    BY <1>1, <1>4, <2>1, AddPollfdEffect
  <2>2. CASE UNCHANGED <<attached, data>>
    BY <1>4, <2>2
  <2> QED
    BY <1>3, <1>5, <2>1, <2>2 DEF Open
<1>6. ASSUME NEW t \in Threads, Detach(t) PROVE HeldByContext' = HeldByContext
  BY <1>3, <1>6 DEF Detach
<1>7. ASSUME NEW t \in Threads, Rebuild(t) \/ NextHandle(t) \/ Close(t) \/ DoClose(t) \/ Closed(t)
      PROVE  data'.msgs = data.msgs
  <2>1. NextHandle(t) => data'.msgs = data.msgs
    BY <1>1, NextHandleLocals, RemovePollfdEffect
  <2>2. DoClose(t) => data'.msgs = data.msgs
    BY <1>1, RemovePollfdEffect DEF DoClose
  <2> QED
    BY <1>1, <1>7, <2>1, <2>2, RebuildEffect, CloseEffect, ClosedEffect
<1>8. HeldByContext' = HeldByContext \/ \E t \in Threads : Pipe(t)
  <2>1. SUFFICES ASSUME \A t \in Threads : ~Open(t) /\ ~Detach(t) /\ ~Pipe(t)
                 PROVE  HeldByContext' = HeldByContext
    BY <1>5, <1>6
  <2>2. attached' = attached
    BY <2>1, AttachedChanges
  <2>3. data'.msgs = data.msgs
    BY <1>7, <2>1, DataChanges
  <2> QED
    BY <1>4, <2>2, <2>3
<1>9. HeldByContext \in {0, 1}
  BY DEF HeldByContext
<1> QED
  BY <1>2, <1>8, <1>9

\* RefsMatchHolders is kept: every reference is taken with its holder, and let go with it.
LEMMA RefsNext ==
  ASSUME Inv, [Next]_vars
  PROVE  RefsMatchHolders'
<1> DEFINE H == HeldByContext
           O == OpenHandles
           U == InUse
           G == HeldByContext'
           P == OpenHandles'
           V == InUse'
<1>1. /\ refs = 1 + H + Cardinality(O) + Cardinality(U)
      /\ H \in {0, 1} /\ O \subseteq Threads /\ U \subseteq Threads
  BY HeldChanges DEF Inv, RefsMatchHolders, OpenHandles, InUse
<1>2. SUFFICES refs' = 1 + G + Cardinality(P) + Cardinality(V)
  BY DEF RefsMatchHolders
<1>3. /\ IsFiniteSet(O) /\ Cardinality(O) \in Nat /\ IsFiniteSet(U) /\ Cardinality(U) \in Nat
  BY <1>1, ThreadSetsFinite
<1>4. /\ \A x : x \notin O => Cardinality(O \cup {x}) = Cardinality(O) + 1
      /\ \A x : x \notin U => Cardinality(U \cup {x}) = Cardinality(U) + 1
      /\ \A x : x \in O => Cardinality(O \ {x}) = Cardinality(O) - 1
      /\ \A x : x \in U => Cardinality(U \ {x}) = Cardinality(U) - 1
  BY <1>3, FS_AddElement, FS_RemoveElement
<1>5. pc \in [Threads -> Places] /\ xfer \in [Threads -> Transfer] /\ refs \in Int
  BY DEF Inv, TypeInv
<1>6. ASSUME NEW t \in Threads, Open(t)
      PROVE  /\ pc[t] = "idle" /\ (pc'[t] = "opened" \/ pc' = pc)
             /\ pc'[t] = "opened" => refs' = refs + 1
             /\ pc'[t] # "opened" => refs' = refs
  BY <1>5, <1>6 DEF Open, At, Goto
<1>7. ASSUME NEW t \in Threads, pc'[t] # pc[t], NEW u \in Threads,
             \/ BackendSubmit(u) \/ Submitted(u) \/ Complete(u) \/ Pipe(u) \/ DoClose(u)
             \/ Open(u) /\ pc'[u] = "opened"
      PROVE  u = t
  <2>1. pc'[u] # pc[u]
    BY <1>6, <1>7, CountingSteps
  <2> QED
    BY <1>7, <2>1, OneMoves
<1>8. /\ \/ P = O
         \/ \E t \in Threads : \/ Open(t) /\ pc'[t] = "opened" /\ t \notin O /\ P = O \cup {t}
                               \/ DoClose(t) /\ t \in O /\ P = O \ {t}
      /\ \A t \in Threads : Open(t) /\ pc'[t] = "opened" => t \in P /\ t \notin O
      /\ \A t \in Threads : DoClose(t) => t \notin P /\ t \in O
  <2>1. \A t \in Threads : Open(t) /\ pc'[t] = "opened" => t \in P /\ t \notin O
    BY <1>6 DEF OpenHandles, OpenPlaces, Places
  <2>2. \A t \in Threads : DoClose(t) => t \notin P /\ t \in O
    <3>1. \A t \in Threads : DoClose(t) => pc[t] = "closefd" /\ pc'[t] = "closed"
      BY CountingSteps
    <3>2. "closefd" \in OpenPlaces /\ "closed" \notin OpenPlaces
      BY DEF OpenPlaces, Places, Closing
    <3> QED
      BY <3>1, <3>2 DEF OpenHandles
  <2> QED
    BY <2>1, <2>2, OpenHandlesChanges
<1>9. /\ \A t \in Threads : BackendSubmit(t) => t \notin U /\ V = U \cup {t}
      /\ \A t \in Threads : Submitted(t) /\ pc'[t] = "unsubmit" => t \in U /\ V = U \ {t}
      /\ \A t \in Threads : Complete(t) => loc[t].cur \in U /\ V = U \ {loc[t].cur}
      /\ \/ V = U
         \/ \E t \in Threads : BackendSubmit(t) \/ (Submitted(t) /\ pc'[t] = "unsubmit") \/ Complete(t)
  BY InUseChanges
<1>10. /\ \A t \in Threads : Pipe(t) => G = IF data.msgs > 0 THEN H - 1 ELSE H
       /\ G = H \/ \E t \in Threads : Pipe(t)
  BY HeldChanges
<1> HIDE DEF H, O, U, G, P, V
<1>11. CASE \E t \in Threads : BackendSubmit(t)
  <2>1. PICK t \in Threads : BackendSubmit(t)
    BY <1>11
  <2>2. pc[t] = "submit" /\ pc'[t] = "submitted" /\ refs' = refs + 1
    BY <2>1, CountingSteps DEF BackendSubmit
  <2>3. ASSUME NEW u \in Threads, Pipe(u) \/ DoClose(u) \/ (Open(u) /\ pc'[u] = "opened") PROVE FALSE
    BY <1>6, <1>7, <2>2, <2>3, CountingSteps
  <2>4. G = H /\ P = O /\ t \notin U /\ V = U \cup {t}
    BY <1>8, <1>9, <1>10, <2>1, <2>3
  <2> QED
    BY <1>1, <1>3, <1>4, <1>5, <2>2, <2>4
<1>12. CASE \E t \in Threads : Submitted(t) /\ pc'[t] = "unsubmit"
  <2>1. PICK t \in Threads : Submitted(t) /\ pc'[t] = "unsubmit"
    BY <1>12
  <2>2. pc[t] = "submitted" /\ refs' = refs - 1
    BY <1>5, <2>1, CountingSteps, SubmittedEffect DEF Goto
  <2>3. ASSUME NEW u \in Threads, Pipe(u) \/ DoClose(u) \/ (Open(u) /\ pc'[u] = "opened") PROVE FALSE
    BY <1>6, <1>7, <2>1, <2>2, <2>3, CountingSteps
  <2>4. G = H /\ P = O /\ t \in U /\ V = U \ {t}
    BY <1>8, <1>9, <1>10, <2>1, <2>3
  <2> QED
    BY <1>1, <1>3, <1>4, <1>5, <2>2, <2>4
<1>13. CASE \E t \in Threads : Complete(t)
  <2>1. PICK t \in Threads : Complete(t)
    BY <1>13
  <2>2. pc[t] = "complete" /\ pc'[t] \in {"scan", "reap"} /\ refs' = refs - 1
    BY <2>1, CountingSteps DEF Complete
  <2>3. ASSUME NEW u \in Threads, Pipe(u) \/ DoClose(u) \/ (Open(u) /\ pc'[u] = "opened") PROVE FALSE
    BY <1>6, <1>7, <2>2, <2>3, CountingSteps
  <2>4. G = H /\ P = O /\ loc[t].cur \in U /\ V = U \ {loc[t].cur}
    BY <1>8, <1>9, <1>10, <2>1, <2>3
  <2> QED
    BY <1>1, <1>3, <1>4, <1>5, <2>2, <2>4
<1>14. CASE \E t \in Threads : Pipe(t)
  <2>1. PICK t \in Threads : Pipe(t)
    BY <1>14
  <2>2. /\ pc[t] = "pipe" /\ pc'[t] # pc[t]
        /\ refs' = IF data.msgs > 0 THEN refs - 1 ELSE refs
    BY <2>1, CountingSteps DEF Pipe
  <2>3. ASSUME NEW u \in Threads,
               \/ BackendSubmit(u) \/ Submitted(u) \/ Complete(u) \/ DoClose(u)
               \/ Open(u) /\ pc'[u] = "opened"
        PROVE  FALSE
    BY <1>6, <1>7, <2>2, <2>3, CountingSteps
  <2>4. G = (IF data.msgs > 0 THEN H - 1 ELSE H) /\ P = O /\ V = U
    BY <1>8, <1>9, <1>10, <2>1, <2>3
  <2> QED
    BY <1>1, <1>3, <1>5, <2>2, <2>4
<1>15. CASE \E t \in Threads : DoClose(t)
  <2>1. PICK t \in Threads : DoClose(t)
    BY <1>15
  <2>2. pc[t] = "closefd" /\ pc'[t] = "closed" /\ refs' = refs - 1
    BY <2>1, CountingSteps DEF DoClose
  <2>3. ASSUME NEW u \in Threads,
               \/ BackendSubmit(u) \/ Submitted(u) \/ Complete(u) \/ Pipe(u)
               \/ Open(u) /\ pc'[u] = "opened"
        PROVE  FALSE
    BY <1>6, <1>7, <2>2, <2>3, CountingSteps
  <2>4. \A u \in Threads : DoClose(u) => u = t
    BY <1>7, <2>2
  <2>5. G = H /\ V = U /\ t \in O /\ P = O \ {t}
    BY <1>8, <1>9, <1>10, <2>1, <2>3, <2>4
  <2>6. Cardinality(P) = Cardinality(O) - 1
    BY <1>4, <2>5
  <2> QED
    BY <1>1, <1>3, <1>5, <2>2, <2>5, <2>6
<1>16. CASE \E t \in Threads : Open(t) /\ pc'[t] = "opened"
  <2>1. PICK t \in Threads : Open(t) /\ pc'[t] = "opened"
    BY <1>16
  <2>2. pc[t] = "idle" /\ pc'[t] # pc[t] /\ refs' = refs + 1
    BY <1>6, <2>1
  <2>3. ASSUME NEW u \in Threads, BackendSubmit(u) \/ Submitted(u) \/ Complete(u) \/ Pipe(u) \/ DoClose(u)
        PROVE  FALSE
    BY <1>7, <2>2, <2>3, CountingSteps
  <2>4. \A u \in Threads : Open(u) /\ pc'[u] = "opened" => u = t
    BY <1>7, <2>2
  <2>5. G = H /\ V = U /\ t \notin O /\ P = O \cup {t}
    BY <1>8, <1>9, <1>10, <2>1, <2>3, <2>4
  <2> QED
    BY <1>1, <1>3, <1>4, <1>5, <2>2, <2>5
<1>17. CASE \A t \in Threads : /\ ~BackendSubmit(t) /\ ~(Submitted(t) /\ pc'[t] = "unsubmit") /\ ~Complete(t)
                               /\ ~Pipe(t) /\ ~DoClose(t) /\ ~(Open(t) /\ pc'[t] = "opened")
  <2>1. G = H /\ P = O /\ V = U
    BY <1>8, <1>9, <1>10, <1>17
  <2>2. ASSUME NEW t \in Threads, Submitted(t), pc'[t] # "unsubmit" PROVE refs' = refs
    BY <1>5, <2>2, SubmittedEffect DEF Goto
  <2>3. refs' = refs
    BY <1>6, <1>17, <2>2, RefsChanges
  <2> QED
    BY <1>1, <2>1, <2>3
<1> QED
  BY <1>11, <1>12, <1>13, <1>14, <1>15, <1>16, <1>17

-----------------------------------------------------------------------------
(* The theorems. *)

\* In the beginning no thread is in a call, and the device is held by the list of
\* usb.c and by the context.
LEMMA InitInv ==
  ASSUME Init
  PROVE  Inv
<1>1. /\ plugged = TRUE /\ attached = TRUE /\ refs = 2
      /\ data = [close |-> 0, pollfds |-> {}, modified |-> FALSE, msgs |-> 0, pipe |-> 0]
      /\ lock = [events |-> Nobody, depth |-> 0, active |-> FALSE, waiters |-> Nobody,
                 flying |-> Nobody, open |-> Nobody]
      /\ sleeping = {} /\ flying = << >> /\ due = << >> /\ openDevs = {} /\ expired = {}
      /\ xfer = [t \in Threads |-> NoTransfer]
      /\ pc = [t \in Threads |-> "idle"] /\ loc = [t \in Threads |-> NoLocals]
  BY DEF Init
<1>2. /\ data.close = 0 /\ data.pollfds = {} /\ data.modified = FALSE /\ data.msgs = 0 /\ data.pipe = 0
  BY <1>1
<1>3. TypeInv
  <2>1. data \in DataType
    BY <1>1 DEF DataType
  <2>2. lock \in LockType
    BY <1>1 DEF LockType
  <2>3. flying \in Seq(Threads) /\ due \in Seq(Timed)
    BY <1>1
  <2>4. xfer \in [Threads -> Transfer] /\ loc \in [Threads -> Locals]
    BY <1>1, NoTransferFields, NoLocalsFields
  <2>5. pc \in [Threads -> Places]
    BY <1>1 DEF Places
  <2> QED
    BY <1>1, <2>1, <2>2, <2>3, <2>4, <2>5 DEF TypeInv
<1>4. \A t \in Threads : pc[t] = "idle" /\ xfer[t] = NoTransfer /\ loc[t] = NoLocals
  BY <1>1
<1>5. /\ "idle" \notin EventsPlaces /\ "idle" \notin CloseBegun /\ "idle" \notin Serving
      /\ "idle" \notin Busy /\ "idle" \notin Submitting /\ "idle" \notin OpenPlaces
      /\ "idle" \notin CurPlaces
  BY DEF EventsPlaces, CloseBegun, Serving, Handling, Closing, Busy, Waiting, TimingOut, Submitting,
     OpenPlaces, CurPlaces
<1>6. \A x : ~Flies(x)
  BY <1>1 DEF Flies, Range
<1>7. EventsInv
  BY <1>4, <1>5 DEF EventsInv
<1>8. CloseInv
  <2>1. {t \in Threads : pc[t] \in CloseBegun} = {}
    BY <1>4, <1>5
  <2> QED
    BY <1>2, <2>1, FS_EmptySet DEF CloseInv
<1>9. MsgInv
  BY <1>2 DEF MsgInv
<1>10. FdsInv
  <2>1. data.pollfds \subseteq OpenHandles
    BY <1>2
  <2>2. \A t \in Threads : pc[t] \notin Serving /\ pc[t] \notin CurPlaces
    BY <1>4, <1>5
  <2> QED
    BY <2>1, <2>2 DEF FdsInv
<1>11. ListInv
  <2>1. IsInjective(flying)
    BY <1>1 DEF IsInjective
  <2> QED
    BY <1>4, <2>1 DEF ListInv
<1>12. TransferInv
  BY <1>4, <1>5, <1>6, NoTransferFields DEF TransferInv
<1>13. SeenInv
  BY <1>4 DEF SeenInv
<1>14. HandlerInv
  BY <1>4, NoLocalsFields DEF HandlerInv
<1>15. LostInv
  BY <1>4, <1>5 DEF LostInv, Lost
<1>16. PipeAndPollAreTrue
  <2>1. SignalledIffPending
    BY <1>2 DEF SignalledIffPending, Pending
  <2>2. ReadsNoEmptyPipe
    BY <1>4 DEF ReadsNoEmptyPipe, At
  <2>3. HandlerPollsOpenFds
    BY <1>4, <1>5 DEF HandlerPollsOpenFds
  <2> QED
    BY <2>1, <2>2, <2>3 DEF PipeAndPollAreTrue
<1>17. RefsMatchHolders
  <2>1. OpenHandles = {} /\ InUse = {}
    BY <1>4, <1>5, <1>6 DEF OpenHandles, InUse
  <2>2. HeldByContext = 1
    BY <1>1 DEF HeldByContext
  <2> QED
    BY <1>1, <2>1, <2>2, FS_EmptySet DEF RefsMatchHolders
<1> QED
  BY <1>3, <1>7, <1>8, <1>9, <1>10, <1>11, <1>12, <1>13, <1>14, <1>15, <1>16, <1>17 DEF Inv

\* Every step keeps the invariant.
LEMMA NextInv ==
  ASSUME Inv, [Next]_vars
  PROVE  Inv'
<1>1. TypeInv' /\ EventsInv' /\ CloseInv' /\ MsgInv' /\ FdsInv' /\ ListInv'
  BY TypeNext, EventsNext, CloseNext, MsgNext, FdsNext, ListNext
<1>2. TransferInv' /\ SeenInv' /\ HandlerInv' /\ LostInv'
  BY TransferNext, SeenNext, HandlerNext, LostNext
<1>3. SignalledIffPending' /\ ReadsNoEmptyPipe' /\ HandlerPollsOpenFds' /\ RefsMatchHolders'
  BY SignalledNext, PipeReadNext, PollsOpenNext, RefsNext
<1> QED
  BY <1>1, <1>2, <1>3 DEF Inv, PipeAndPollAreTrue

\* The invariant holds of every state that the program reaches.
THEOREM Invariant == Spec => []Inv
<1>1. Init => Inv
  BY InitInv
<1>2. Inv /\ [Next]_vars => Inv'
  BY NextInv
<1> QED
  BY <1>1, <1>2, PTL DEF Spec

\* The variables have their types: no counter is less than zero, however closes,
\* messages and unplugging meet (io.c:2109-2135, core.c:1384-1427).
THEOREM TypeCorrect == Spec => []TypeOK
<1>1. ASSUME Inv PROVE TypeOK
  <2>1. data.close \in Nat
    BY <1>1, ThreadSetsFinite DEF Inv, CloseInv
  <2>2. data.pipe \in Nat
    BY <1>1 DEF Inv, PipeAndPollAreTrue, SignalledIffPending
  <2>3. data \in [close : Nat, pollfds : SUBSET Threads, modified : BOOLEAN, msgs : Nat, pipe : Nat]
    BY <1>1, <2>1, <2>2 DEF Inv, TypeInv, DataType
  <2>4. refs \in Nat
    <3>1. HeldByContext \in Nat /\ OpenHandles \subseteq Threads /\ InUse \subseteq Threads
      BY DEF HeldByContext, OpenHandles, InUse
    <3>2. Cardinality(OpenHandles) \in Nat /\ Cardinality(InUse) \in Nat
      BY <3>1, ThreadSetsFinite
    <3> QED
      BY <1>1, <3>1, <3>2 DEF Inv, RefsMatchHolders
  <2> QED
    BY <1>1, <2>3, <2>4 DEF Inv, TypeInv, LockType, TypeOK
<1> QED
  BY <1>1, Invariant, PTL

\* A handler is neither missed nor left waiting in the read of an empty pipe, and what
\* it polls is not closed under it (libusbi.h:317-320, core.c:1393-1397).
THEOREM PipeAndPollAreTrueHolds == Spec => []PipeAndPollAreTrue
<1>1. Inv => PipeAndPollAreTrue
  BY DEF Inv
<1> QED
  BY <1>1, Invariant, PTL

\* The references to the device are those of its holders: it is neither freed under
\* one, nor kept when none is left (core.c:1132-1159).
THEOREM RefsMatchHoldersHolds == Spec => []RefsMatchHolders
<1>1. Inv => RefsMatchHolders
  BY DEF Inv
<1> QED
  BY <1>1, Invariant, PTL

-----------------------------------------------------------------------------
(***************************************************************************)
(* The event handling of libusb is what UsbCalls promises to each caller.  *)
(*                                                                         *)
(* On top of the invariant above, it takes that whoever says why a         *)
(* transfer ends says so truly, from where the reason arises (the kernel,  *)
(* the clock, the disconnection) to where the caller reads it.             *)
(***************************************************************************)

(* The inductive invariant of the calls. *)

InCall == Submitting \cup Busy \cup {"return"}

\* The timeouts are those of the calls under way.
DueInv == IsInjective(due) /\ \A x \in Range(due) : pc[x] \in InCall

\* What a status says is so, wherever it stands.
StatusInv ==
  \A x \in Threads :
    /\ pc[x] \in Outside => ~xfer[x].completed /\ xfer[x].status = None
    /\ pc[x] = "submitted" /\ xfer[x].status = "NO_DEVICE" => ~plugged
    /\ pc[x] \in {"unsubmit", "return"} => xfer[x].status = "NO_DEVICE" /\ ~plugged
    /\ xfer[x].urb = "shutdown" => ~plugged

\* Only what is overdue is marked, or about to be.
MarkInv ==
  /\ \A x \in Threads : "TIMED_OUT" \in xfer[x].flags => x \in expired
  /\ \A t \in Threads : pc[t] = "mark" => flying[loc[t].at] \in expired

\* A handler has the true reason of the end that it reports.
WhyInv ==
  \A t \in Threads : pc[t] = "complete" =>
    /\ loc[t].why # None
    /\ loc[t].why = "TIMED_OUT" => loc[t].cur \in expired
    /\ loc[t].why = "NO_DEVICE" => ~plugged

\* All of it.
CallsInv == Inv /\ DueInv /\ StatusInv /\ MarkInv /\ WhyInv

-----------------------------------------------------------------------------
(* What the steps make of a status, and of the mark of a timeout. *)

\* The submission has found no device, or the status stays.
LEMMA SubmittedStatus ==
  ASSUME xfer \in [Threads -> Transfer], NEW t \in Threads, Submitted(t)
  PROVE  \/ /\ Goto(t, "unsubmit") /\ xfer'[t].status = "NO_DEVICE"
            /\ xfer[t].status = "NO_DEVICE" \/ "DEVICE_DISAPPEARED" \in xfer[t].flags
         \/ Goto(t, "wait") /\ xfer'[t].status = xfer[t].status
<1> DEFINE flags == xfer[t].flags \ {"SUBMITTING"}
           Fails == xfer[t].status = "NO_DEVICE" \/ "DEVICE_DISAPPEARED" \in flags
<1>1. PICK l \in Transfer : l = xfer[t]
  OBVIOUS
<1>2. CASE Fails
  <2>1. PICK fl, r : fl = flags /\ r = [l EXCEPT !.flags = fl, !.urbs = FALSE, !.status = "NO_DEVICE"]
    OBVIOUS
  <2>2. r.status = "NO_DEVICE"
    BY <2>1 DEF Transfer
  <2>3. /\ xfer' = [xfer EXCEPT ![t].flags = flags, ![t].urbs = FALSE, ![t].status = "NO_DEVICE"]
        /\ Goto(t, "unsubmit")
    BY <1>2 DEF Submitted
  <2>4. xfer' = [xfer EXCEPT ![t] = r]
    BY <1>1, <2>1, <2>3
  <2> QED
    BY <1>2, <2>2, <2>3, <2>4
<1>3. CASE ~Fails
  <2>1. PICK fl, r : /\ fl = IF "COMPLETED" \in flags THEN flags ELSE flags \cup {"IN_FLIGHT"}
                     /\ r = [l EXCEPT !.lock = Nobody, !.flags = fl]
    OBVIOUS
  <2>2. r.status = l.status
    BY <2>1 DEF Transfer
  <2>3. /\ xfer' = [xfer EXCEPT ![t].lock = Nobody, ![t].flags = fl]
        /\ Goto(t, "wait")
    BY <1>3, <2>1 DEF Submitted
  <2>4. xfer' = [xfer EXCEPT ![t] = r]
    BY <1>1, <2>1, <2>3
  <2> QED
    BY <1>1, <2>2, <2>3, <2>4
<1> QED
  BY <1>2, <1>3

\* The completion reports the reason that the handler has.
LEMMA CompleteStatus ==
  ASSUME xfer \in [Threads -> Transfer], NEW t \in Threads, loc[t].cur \in Threads, Complete(t)
  PROVE  /\ xfer'[loc[t].cur].status = loc[t].why
         /\ xfer'[loc[t].cur].flags \subseteq xfer[loc[t].cur].flags \cup {"COMPLETED"}
<1>1. PICK l, w : l \in Transfer /\ l = xfer[loc[t].cur] /\ w = loc[t].why
  OBVIOUS
<1>2. PICK fl, r : /\ fl = (l.flags \ {"IN_FLIGHT"}) \cup {"COMPLETED"}
                   /\ r = [l EXCEPT !.flags = fl, !.status = w, !.completed = TRUE]
  OBVIOUS
<1>3. r.status = w /\ r.flags = fl
  BY <1>1, <1>2 DEF Transfer
<1>4. xfer' = [xfer EXCEPT ![loc[t].cur] = r]
  BY <1>1, <1>2 DEF Complete
<1> QED
  BY <1>1, <1>2, <1>3, <1>4

\* handle_control_completion: the reason is what the kernel says, unless it is a
\* cancellation.
LEMMA RetireWhy ==
  ASSUME loc \in [Threads -> Locals], NEW t \in Threads, loc[t].cur \in Threads,
         xfer[loc[t].cur].urb \in Reapable, Retire(t)
  PROVE  /\ loc'[t].why \notin {None, "TIMED_OUT"}
         /\ loc'[t].why = "NO_DEVICE" => xfer[loc[t].cur].urb = "shutdown"
<1>1. PICK l, w : l \in Locals /\ l = loc[t] /\ w = UrbStatus(xfer[l.cur].urb)
  OBVIOUS
<1>2. loc' = [loc EXCEPT ![t] = [l EXCEPT !.why = w]]
  BY <1>1 DEF Retire
<1>3. loc'[t].why = w
  BY <1>2 DEF Locals
<1>4. w \notin {None, "TIMED_OUT"} /\ (w = "NO_DEVICE" => xfer[l.cur].urb = "shutdown")
  BY <1>1, UsbIoAssumption DEF UrbStatus, Reapable, None
<1> QED
  BY <1>1, <1>3, <1>4

\* usbi_handle_transfer_cancellation: a timeout, if it is marked as one.
LEMMA ReasonWhy ==
  ASSUME loc \in [Threads -> Locals], NEW t \in Threads, Reason(t)
  PROVE  /\ loc'[t].why \in {"TIMED_OUT", "CANCELLED"}
         /\ loc'[t].why = "TIMED_OUT" => "TIMED_OUT" \in xfer[loc[t].cur].flags
<1>1. PICK l, w : /\ l \in Locals /\ l = loc[t]
                  /\ w = IF "TIMED_OUT" \in xfer[l.cur].flags THEN "TIMED_OUT" ELSE "CANCELLED"
  OBVIOUS
<1>2. loc' = [loc EXCEPT ![t] = [l EXCEPT !.why = w]]
  BY <1>1 DEF Reason
<1>3. loc'[t].why = w
  BY <1>2 DEF Locals
<1> QED
  BY <1>1, <1>3

\* usbi_handle_disconnect: there is no device.
LEMMA ClearPrivWhy ==
  ASSUME loc \in [Threads -> Locals], NEW t \in Threads, ClearPriv(t)
  PROVE  loc'[t].why = "NO_DEVICE"
<1>1. PICK l \in Locals : l = loc[t]
  OBVIOUS
<1>2. loc' = [loc EXCEPT ![t] = [l EXCEPT !.why = "NO_DEVICE"]]
  BY <1>1 DEF ClearPriv
<1> QED
  BY <1>2 DEF Locals

\* A cancellation marks no timeout.
LEMMA CancelFlags ==
  ASSUME xfer \in [Threads -> Transfer], NEW x \in Threads, CancelTransfer(x)
  PROVE  /\ xfer'[x].flags \subseteq xfer[x].flags \cup {"CANCELLING", "DEVICE_DISAPPEARED"}
         /\ xfer'[x].urb = "shutdown" => xfer[x].urb = "shutdown"
<1>1. PICK l, fl, u :
        /\ l \in Transfer /\ l = xfer[x]
        /\ fl = l.flags \cup {"CANCELLING"} \cup IF l.urbs /\ ~plugged THEN {"DEVICE_DISAPPEARED"} ELSE {}
        /\ u = IF l.urb = "queued" THEN "killed" ELSE l.urb
  OBVIOUS
<1>2. PICK r : r = [l EXCEPT !.cancelled = TRUE, !.urb = u, !.flags = fl]
  OBVIOUS
<1>3. r.flags = fl /\ r.urb = u
  BY <1>2 DEF Transfer
<1>4. Discarded(x) = r
  BY <1>1, <1>2 DEF Discarded
<1>5. xfer' = xfer \/ xfer' = [xfer EXCEPT ![x] = r]
  BY <1>4 DEF CancelTransfer
<1> QED
  BY <1>1, <1>3, <1>5

\* A URB that the device ends has not been shut down.
LEMMA EndedUrb ==
  ASSUME xfer \in [Threads -> Transfer], NEW x \in Threads, EndUrb(x)
  PROVE  xfer'[x].urb # "shutdown"
<1>1. PICK o \in Outcomes, l \in Transfer : l = xfer[x] /\ xfer' = [xfer EXCEPT ![x].urb = o]
  BY DEF EndUrb
<1>2. xfer' = [xfer EXCEPT ![x] = [l EXCEPT !.urb = o]]
  BY <1>1
<1>3. xfer'[x].urb = o
  BY <1>2 DEF Transfer
<1> QED
  BY <1>3, UsbIoAssumption

\* The status of a transfer is that of its submission, or of its end.
LEMMA TrueStatusSteps ==
  ASSUME Inv, [Next]_vars, NEW x \in Threads
  PROVE  \/ xfer'[x].status = xfer[x].status
         \/ (Submit(x) \/ Return(x) \/ DoClose(x)) /\ xfer'[x].status = None
         \/ BackendSubmit(x) /\ ~plugged
         \/ /\ Submitted(x) /\ pc'[x] = "unsubmit" /\ xfer'[x].status = "NO_DEVICE"
            /\ xfer[x].status = "NO_DEVICE" \/ "DEVICE_DISAPPEARED" \in xfer[x].flags
         \/ \E t \in Threads : Complete(t) /\ loc[t].cur = x /\ xfer'[x].status = loc[t].why
<1>1. /\ xfer \in [Threads -> Transfer] /\ loc \in [Threads -> Locals] /\ pc \in [Threads -> Places]
      /\ StatusSteps(x)
  BY XferFieldSteps DEF Inv, TypeInv, XferFields
<1>2. CASE Submit(x) \/ Return(x) \/ DoClose(x)
  BY <1>1, <1>2, SubmitEffect, XferReset, NoTransferFields
<1>3. CASE BackendSubmit(x)
  BY <1>1, <1>3, BackendSubmitEffect
<1>4. CASE Submitted(x)
  BY <1>1, <1>4, SubmittedStatus DEF Goto
<1>5. ASSUME NEW t \in Threads, Complete(t), loc[t].cur = x PROVE xfer'[x].status = loc[t].why
  BY <1>1, <1>5, CompleteStatus
<1> QED
  BY <1>1, <1>2, <1>3, <1>4, <1>5 DEF StatusSteps

\* Only handle_timeout marks a timeout, and an end of the call lets it be forgotten.
LEMMA MarkSteps ==
  ASSUME Inv, [Next]_vars, NEW x \in Threads, "TIMED_OUT" \in xfer'[x].flags
  PROVE  /\ ~Return(x)
         /\ \/ "TIMED_OUT" \in xfer[x].flags
            \/ \E t \in Threads : Mark(t) /\ flying[loc[t].at] = x
<1>1. xfer \in [Threads -> Transfer] /\ loc \in [Threads -> Locals]
  BY DEF Inv, TypeInv
<1>2. ~Submit(x) /\ ~Return(x) /\ ~DoClose(x)
  BY <1>1, SubmitEffect, XferReset, NoTransferFields
<1>3. CASE xfer'[x] = xfer[x]
  BY <1>2, <1>3
<1>4. CASE BackendSubmit(x) \/ Submitted(x) \/ Unsubmit(x)
  BY <1>1, <1>2, <1>4, BackendSubmitEffect, SubmittedEffect, UnsubmitEffect
<1>5. CASE EndUrb(x) \/ Unplug
  BY <1>1, <1>2, <1>5, EndUrbEffect, UnplugEffect
<1>6. CASE CancelAndRetry(x)
  BY <1>1, <1>2, <1>6, CancelFlags DEF CancelAndRetry
<1>7. ASSUME NEW t \in Threads, Retire(t) \/ Complete(t) \/ Scan(t) \/ ClearPriv(t), loc[t].cur = x
      PROVE  "TIMED_OUT" \in xfer[x].flags
  <2>1. Retire(t) => xfer[loc[t].cur].urb \in Reapable
    BY HandlerHas
  <2>2. CASE Complete(t)
    BY <1>1, <1>7, <2>2, CompleteStatus
  <2>3. CASE Scan(t)
    BY <1>1, <1>7, <2>3, ScanEffect
  <2>4. CASE Retire(t) \/ ClearPriv(t)
    BY <1>1, <1>7, <2>1, <2>4, RetireEffect, ClearPrivEffect
  <2> QED
    BY <1>7, <2>2, <2>3, <2>4
<1>8. ASSUME NEW t \in Threads, CancelOverdue(t), flying[loc[t].at] = x
      PROVE  "TIMED_OUT" \in xfer[x].flags
  BY <1>1, <1>8, CancelFlags DEF CancelOverdue
<1> QED
  BY <1>2, <1>3, <1>4, <1>5, <1>6, <1>7, <1>8, XferSteps

\* The kernel shuts URBs down as the device is unplugged.
LEMMA ShutdownSteps ==
  ASSUME Inv, [Next]_vars, NEW x \in Threads, xfer'[x].urb = "shutdown"
  PROVE  xfer[x].urb = "shutdown" \/ ~plugged'
<1>1. /\ xfer \in [Threads -> Transfer] /\ loc \in [Threads -> Locals]
      /\ "shutdown" # None /\ "shutdown" # "queued" /\ UrbSteps(x)
  BY XferFieldSteps DEF Inv, TypeInv, XferFields, None
<1>2. CASE xfer'[x].urb = xfer[x].urb
  BY <1>2
<1>3. CASE xfer[x].urb = "queued" /\ xfer'[x] # xfer[x]
  <2>1. CASE Unplug
    BY <2>1 DEF Unplug
  <2>2. CASE EndUrb(x)
    BY <1>1, <2>2, EndedUrb
  <2>3. CASE CancelAndRetry(x)
    BY <1>1, <2>3, CancelFlags DEF CancelAndRetry
  <2>4. ASSUME NEW t \in Threads, CancelOverdue(t), flying[loc[t].at] = x
        PROVE  xfer[x].urb = "shutdown"
    BY <1>1, <2>4, CancelFlags DEF CancelOverdue
  <2>5. ASSUME NEW t \in Threads, Mark(t), flying[loc[t].at] = x
        PROVE  xfer'[x].urb = xfer[x].urb
    BY <1>1, <2>5, MarkEffect
  <2>6. ASSUME NEW t \in Threads, Retire(t) \/ Complete(t) \/ Scan(t) \/ ClearPriv(t), loc[t].cur = x
        PROVE  xfer'[x].urb \in {None, xfer[x].urb}
    <3>1. Retire(t) => xfer[loc[t].cur].urb \in Reapable
      BY HandlerHas
    <3> QED
      BY <1>1, <2>6, <3>1, RetireEffect, CompleteEffect, ScanEffect, ClearPrivEffect
  <2>7. CASE Submit(x) \/ BackendSubmit(x) \/ Submitted(x) \/ Unsubmit(x) \/ Return(x) \/ DoClose(x)
    BY <1>1, <2>7, SubmitEffect, BackendSubmitEffect, SubmittedEffect, UnsubmitEffect, XferReset,
       NoTransferFields
  <2> QED
    BY <1>1, <1>3, <2>1, <2>2, <2>3, <2>4, <2>5, <2>6, <2>7, XferSteps
<1> QED
  BY <1>1, <1>2, <1>3 DEF UrbSteps

-----------------------------------------------------------------------------
(* The invariant is kept. *)

\* Every place is in a call or outside of one.
LEMMA CallPlaces ==
  ASSUME NEW p \in Places
  PROVE  p \in InCall <=> p \notin Outside
BY Classes DEF InCall

\* A call ends by its return, and before that its transfer is off the list.
LEMMA CallSteps ==
  ASSUME Inv, [Next]_vars, NEW x \in Threads
  PROVE  /\ pc[x] \in InCall => pc'[x] \in InCall \/ Return(x)
         /\ Return(x) => ~Flies(x)
<1>1. pc \in [Threads -> Places] /\ pc' \in [Threads -> Places] /\ TypeInv
  BY TypeNext DEF Inv, TypeInv
<1>2. pc[x] \in InCall => pc'[x] \in InCall \/ Return(x)
  BY <1>1, CallPlaces, ClassSteps
<1>3. ASSUME Return(x) PROVE ~Flies(x)
  <2>1. pc[x] = "return" \/ (pc[x] = "wait" /\ xfer[x].completed)
    BY <1>1, <1>3, OwnSteps
  <2> QED
    BY <2>1 DEF Inv, TransferInv, Busy, Waiting
<1> QED
  BY <1>2, <1>3

\* What is overdue stays so until its call returns.
LEMMA OverdueStays ==
  ASSUME Inv, [Next]_vars, NEW x \in Threads, x \in expired, ~Return(x)
  PROVE  x \in expired'
<1>1. ASSUME NEW t \in Threads, Return(t) PROVE x \in expired'
  BY <1>1 DEF Return
<1>2. ASSUME NEW t \in Threads, Expire(t) PROVE x \in expired'
  BY <1>2 DEF Expire
<1> QED
  BY <1>1, <1>2, ExpiredChanges

\* DueInv is kept: a timeout comes and goes with its call.
LEMMA DueNext ==
  ASSUME CallsInv, [Next]_vars
  PROVE  DueInv'
<1>1. /\ Inv /\ TypeInv /\ IsInjective(due) /\ due \in Seq(Timed) /\ Timed \subseteq Threads
      /\ \A x \in Range(due) : pc[x] \in InCall
  BY UsbIoAssumption DEF CallsInv, Inv, TypeInv, DueInv
<1>2. Range(due) \subseteq Threads
  BY <1>1 DEF Range
<1>3. \A x \in Range(due) : pc'[x] \in InCall \/ Return(x)
  BY <1>1, <1>2, CallSteps
<1>4. CASE UNCHANGED due /\ \A t \in Threads : ~Return(t)
  BY <1>1, <1>2, <1>3, <1>4 DEF DueInv
<1>5. ASSUME NEW t \in Threads, Return(t) PROVE DueInv'
  <2>1. due' = Without(due, t) /\ pc'[t] = "held" /\ pc[t] # "held"
    <3>1. pc[t] = "return" \/ pc[t] = "wait"
      BY <1>1, <1>5, OwnSteps
    <3> QED
      BY <1>1, <1>5, <3>1, OwnSteps DEF Return
  <2>2. IsInjective(due') /\ Range(due') = Range(due) \ {t}
    BY <1>1, <2>1, WithoutFacts
  <2>3. \A x \in Threads : x # t => ~Return(x)
    <3>1. \A x \in Threads : Return(x) => pc'[x] # pc[x]
      <4>1. \A x \in Threads : Return(x) => pc'[x] = "held" /\ pc[x] \in {"return", "wait"}
        BY <1>1, OwnSteps
      <4> QED
        BY <4>1
    <3> QED
      BY <1>1, <1>5, <3>1, OneMoves
  <2> QED
    BY <1>2, <1>3, <2>2, <2>3 DEF DueInv
<1>6. ASSUME NEW t \in Threads, Submit(t) PROVE DueInv'
  <2>1. pc[t] = "held" /\ pc'[t] = "submit" /\ Schedule(t)
    BY <1>1, <1>6, OwnSteps DEF Submit
  <2>2. "held" \notin InCall /\ "submit" \in InCall
    BY DEF InCall, Submitting, Busy, Waiting, Handling, TimingOut
  <2>3. t \notin Range(due)
    BY <1>1, <2>1, <2>2
  <2>4. \A x \in Threads : ~Return(x)
    <3>1. ASSUME NEW x \in Threads, Return(x) PROVE FALSE
      <4>1. pc'[x] = "held" /\ pc[x] \in {"return", "wait"}
        BY <1>1, <3>1, OwnSteps
      <4> QED
        BY <1>1, <2>1, <4>1, OneMoves
    <3> QED
      BY <3>1
  <2>5. CASE UNCHANGED due
    BY <1>4, <2>4, <2>5
  <2>6. CASE t \in Timed /\ ~UNCHANGED due
    <3>1. PICK i \in Cardinality(expired) + 1 .. Len(due) + 1 : due' = InsertAt(due, i, t)
      BY <2>1, <2>6 DEF Schedule
    <3>2. i \in 1 .. Len(due) + 1
      <4>1. Cardinality(expired) \in Nat /\ Len(due) \in Nat
        BY <1>1, ThreadSetsFinite DEF TypeInv
      <4> QED
        BY <4>1
    <3>3. IsInjective(due') /\ Range(due') = Range(due) \cup {t}
      BY <1>1, <2>3, <2>6, <3>1, <3>2, InsertFacts
    <3> QED
      BY <1>2, <1>3, <2>1, <2>2, <2>4, <3>3 DEF DueInv
  <2> QED
    BY <2>1, <2>5, <2>6 DEF Schedule
<1> QED
  BY <1>4, <1>5, <1>6, DueChanges

\* StatusInv is kept: who says that there is no device has found none.
LEMMA StatusNext ==
  ASSUME CallsInv, [Next]_vars
  PROVE  StatusInv'
<1>1. /\ Inv /\ TypeInv /\ plugged \in BOOLEAN /\ xfer \in [Threads -> Transfer]
      /\ pc \in [Threads -> Places]
  BY DEF CallsInv, Inv, TypeInv
<1>2. ~plugged => ~plugged'
  BY PluggedChanges DEF Unplug
<1> SUFFICES ASSUME NEW x \in Threads
             PROVE  /\ pc'[x] \in Outside => ~xfer'[x].completed /\ xfer'[x].status = None
                    /\ pc'[x] = "submitted" /\ xfer'[x].status = "NO_DEVICE" => ~plugged'
                    /\ pc'[x] \in {"unsubmit", "return"} => xfer'[x].status = "NO_DEVICE" /\ ~plugged'
                    /\ xfer'[x].urb = "shutdown" => ~plugged'
  BY DEF StatusInv
<1>3. /\ pc[x] \in Outside => ~xfer[x].completed /\ xfer[x].status = None
      /\ pc[x] = "submitted" /\ xfer[x].status = "NO_DEVICE" => ~plugged
      /\ pc[x] \in {"unsubmit", "return"} => xfer[x].status = "NO_DEVICE" /\ ~plugged
      /\ xfer[x].urb = "shutdown" => ~plugged
  BY DEF CallsInv, StatusInv
<1>4. CompletedSteps(x)
  BY <1>1, XferFieldSteps DEF XferFields
<1>5. ASSUME NEW t \in Threads, Complete(t), loc[t].cur = x PROVE pc[x] \in Busy /\ pc'[x] \in Busy
  <2>1. pc[x] \in Busy /\ Flies(x)
    BY <1>1, <1>5, CompletedIsBusy
  <2> QED
    BY <1>1, <2>1, BusyStays
<1>6. /\ Submit(x) => pc'[x] = "submit"
      /\ BackendSubmit(x) => pc'[x] = "submitted"
      /\ Submitted(x) => pc[x] = "submitted" /\ pc'[x] \in {"unsubmit", "wait"}
      /\ Unsubmit(x) => pc[x] = "unsubmit"
      /\ Return(x) => pc'[x] = "held"
      /\ DoClose(x) => pc'[x] = "closed"
  BY <1>1, OwnSteps
<1>7. ASSUME pc'[x] \in Outside PROVE ~xfer'[x].completed /\ xfer'[x].status = None
  <2>1. /\ pc[x] \in Outside \/ Return(x)
        /\ pc'[x] \notin {"submit", "submitted", "unsubmit", "wait"} /\ pc'[x] \notin Busy
    BY <1>1, <1>7, ClassSteps DEF Outside, Closing, Busy, Waiting, Handling, TimingOut
  <2>2. CASE Return(x) \/ DoClose(x)
    BY <1>1, <2>2, XferReset, NoTransferFields
  <2>3. CASE ~Return(x) /\ ~DoClose(x)
    <3>1. xfer'[x].completed = xfer[x].completed
      BY <1>4, <1>5, <1>6, <2>1, <2>3 DEF CompletedSteps
    <3>2. xfer'[x].status = xfer[x].status
      BY <1>1, <1>5, <1>6, <2>1, <2>3, TrueStatusSteps
    <3> QED
      BY <1>3, <2>1, <2>3, <3>1, <3>2
  <2> QED
    BY <2>2, <2>3
<1>8. ASSUME pc'[x] = "submitted", xfer'[x].status = "NO_DEVICE" PROVE ~plugged'
  <2>1. pc[x] = "submitted" \/ BackendSubmit(x)
    BY <1>1, <1>8, ClassSteps
  <2>2. /\ ~Submit(x) /\ ~Return(x) /\ ~DoClose(x) /\ ~Submitted(x)
        /\ \A t \in Threads : ~(Complete(t) /\ loc[t].cur = x)
    BY <1>5, <1>6, <1>8 DEF Busy, Waiting, Handling, TimingOut
  <2>3. xfer'[x].status = xfer[x].status \/ (BackendSubmit(x) /\ ~plugged)
    BY <1>1, <2>2, TrueStatusSteps
  <2>4. BackendSubmit(x) => xfer[x].status = None
    <3>1. BackendSubmit(x) => pc[x] = "submit"
      BY <1>1, OwnSteps
    <3> QED
      BY <1>1, <3>1 DEF Inv, TransferInv
  <2> QED
    BY <1>2, <1>3, <1>8, <2>1, <2>3, <2>4 DEF None
<1>9. ASSUME pc'[x] \in {"unsubmit", "return"} PROVE xfer'[x].status = "NO_DEVICE" /\ ~plugged'
  <2>1. /\ ~Submit(x) /\ ~Return(x) /\ ~DoClose(x) /\ ~BackendSubmit(x)
        /\ \A t \in Threads : ~(Complete(t) /\ loc[t].cur = x)
    BY <1>5, <1>6, <1>9 DEF Busy, Waiting, Handling, TimingOut
  <2>2. CASE Submitted(x)
    <3>1. pc[x] = "submitted" /\ pc'[x] = "unsubmit"
      BY <1>6, <1>9, <2>2
    <3>2. /\ xfer'[x].status = "NO_DEVICE"
          /\ xfer[x].status = "NO_DEVICE" \/ "DEVICE_DISAPPEARED" \in xfer[x].flags
      BY <1>1, <2>2, <3>1, SubmittedStatus DEF Goto
    <3>3. "DEVICE_DISAPPEARED" \in xfer[x].flags => ~plugged
      BY <1>1, <3>1 DEF Inv, LostInv, Lost, Submitting
    <3> QED
      BY <1>2, <1>3, <3>1, <3>2, <3>3
  <2>3. CASE ~Submitted(x)
    <3>1. xfer'[x].status = xfer[x].status
      BY <1>1, <2>1, <2>3, TrueStatusSteps
    <3>2. pc[x] \in {"unsubmit", "return"}
      <4>1. Unsubmit(x) => pc[x] = "unsubmit"
        BY <1>6
      <4> QED
        BY <1>1, <1>9, <2>3, <4>1, ClassSteps
    <3> QED
      BY <1>2, <1>3, <3>1, <3>2
  <2> QED
    BY <2>2, <2>3
<1>10. ASSUME xfer'[x].urb = "shutdown" PROVE ~plugged'
  BY <1>1, <1>2, <1>3, <1>10, ShutdownSteps
<1> QED
  BY <1>7, <1>8, <1>9, <1>10

\* handle_timeouts goes on to mark what is overdue.
LEMMA NextFlyingMarks ==
  ASSUME TypeInv, NEW t \in Threads, NextFlying(t), pc'[t] = "mark"
  PROVE  /\ loc'[t].at = loc[t].at /\ flying[loc[t].at] \in expired
         /\ UNCHANGED <<flying, expired>>
<1> DEFINE x == flying[loc[t].at]
<1>1. /\ loc \in [Threads -> Locals] /\ pc \in [Threads -> Places] /\ pc[t] = "next"
      /\ UNCHANGED <<flying, expired>>
  BY DEF TypeInv, NextFlying, At, time
<1>2. /\ ~("TIMED_OUT" \notin xfer[x].flags /\ x \notin expired)
      /\ "TIMED_OUT" \notin xfer[x].flags
      /\ loc' = [loc EXCEPT ![t].seen = xfer[x].flags]
  <2>1. ~Goto(t, IF lock.events = t THEN "unlock" ELSE "wait") /\ pc' # pc
    BY <1>1 DEF Goto
  <2> QED
    BY <2>1 DEF NextFlying
<1>3. PICK l, s : l \in Locals /\ l = loc[t] /\ s = xfer[x].flags
  BY <1>1
<1>4. loc' = [loc EXCEPT ![t] = [l EXCEPT !.seen = s]]
  BY <1>2, <1>3
<1>5. loc'[t].at = l.at
  BY <1>1, <1>4 DEF Locals
<1> QED
  BY <1>1, <1>2, <1>3, <1>5

\* MarkInv is kept: no transfer is marked before its time.
LEMMA MarkNext ==
  ASSUME CallsInv, [Next]_vars
  PROVE  MarkInv'
<1>1. /\ Inv /\ TypeInv
      /\ \A x \in Threads : "TIMED_OUT" \in xfer[x].flags => x \in expired
      /\ \A t \in Threads : pc[t] = "mark" => flying[loc[t].at] \in expired
  BY DEF CallsInv, MarkInv, Inv
<1>2. ASSUME NEW x \in Threads, "TIMED_OUT" \in xfer'[x].flags PROVE x \in expired'
  <2>1. \A t \in Threads : Mark(t) => pc[t] = "mark"
    BY DEF Mark, At
  <2>2. x \in expired /\ ~Return(x)
    BY <1>1, <1>2, <2>1, MarkSteps
  <2> QED
    BY <1>1, <2>2, OverdueStays
<1>3. ASSUME NEW t \in Threads, pc'[t] = "mark" PROVE flying'[loc'[t].at] \in expired'
  <2>1. CASE NextFlying(t)
    BY <1>1, <1>3, <2>1, NextFlyingMarks
  <2>2. CASE ~NextFlying(t)
    <3>1. pc[t] = "mark" /\ loc'[t] = loc[t]
      <4>1. ~Moves(t)
        BY <1>3, <2>2 DEF Moves, Leads
      <4> QED
        BY <1>1, <1>3, <4>1, ThreadSteps
    <3>2. PICK x \in Threads : x = flying[loc[t].at] /\ Flies(x)
      BY <1>1, <3>1, AtIsThread
    <3>3. flying' = flying /\ ~Return(x)
      BY <1>1, <3>1, <3>2, SearchKeepsList, CallSteps
    <3>4. x \in expired'
      BY <1>1, <3>1, <3>2, <3>3, OverdueStays
    <3> QED
      BY <3>1, <3>2, <3>3, <3>4
  <2> QED
    BY <2>1, <2>2
<1> QED
  BY <1>2, <1>3 DEF MarkInv

\* WhyInv is kept: the reason stays true until it is reported.
LEMMA WhyNext ==
  ASSUME CallsInv, [Next]_vars
  PROVE  WhyInv'
<1>1. /\ Inv /\ TypeInv /\ loc \in [Threads -> Locals] /\ pc \in [Threads -> Places]
      /\ \A x \in Threads : "TIMED_OUT" \in xfer[x].flags => x \in expired
      /\ \A x \in Threads : xfer[x].urb = "shutdown" => ~plugged
  BY DEF CallsInv, MarkInv, StatusInv, Inv, TypeInv
<1> SUFFICES ASSUME NEW t \in Threads, pc'[t] = "complete"
             PROVE  /\ loc'[t].why # None
                    /\ loc'[t].why = "TIMED_OUT" => loc'[t].cur \in expired'
                    /\ loc'[t].why = "NO_DEVICE" => ~plugged'
  BY DEF WhyInv
<1>2. ~plugged => ~plugged'
  BY PluggedChanges DEF Unplug
<1>3. /\ pc[t] \in {"complete", "reason"} \/ Retire(t) \/ ClearPriv(t)
      /\ pc[t] \in CurPlaces /\ loc'[t].cur = loc[t].cur
  BY <1>1, HandlerSteps DEF CurPlaces
<1>4. PICK x \in Threads : x = loc[t].cur
  BY <1>1, <1>3, CurIsThread
<1>5. CASE Retire(t)
  <2>1. xfer[x].urb \in Reapable
    BY <1>1, <1>4, <1>5, HandlerHas
  <2>2. /\ loc'[t].why \notin {None, "TIMED_OUT"}
        /\ loc'[t].why = "NO_DEVICE" => xfer[x].urb = "shutdown"
    BY <1>1, <1>4, <1>5, <2>1, RetireWhy
  <2> QED
    BY <1>1, <1>2, <2>2
<1>6. CASE ClearPriv(t)
  <2>1. pc[t] = "clear" /\ loc'[t].why = "NO_DEVICE"
    BY <1>1, <1>6, ClearPrivWhy DEF ClearPriv, At
  <2>2. ~plugged
    BY <1>1, <2>1 DEF Inv, HandlerInv
  <2> QED
    BY <1>2, <2>1, <2>2 DEF None
<1>7. CASE pc[t] = "reason" /\ ~Retire(t) /\ ~ClearPriv(t)
  <2>1. Reason(t)
    BY <1>1, <1>7, ThreadSteps DEF Moves, Leads
  <2>2. /\ loc'[t].why \in {"TIMED_OUT", "CANCELLED"}
        /\ loc'[t].why = "TIMED_OUT" => "TIMED_OUT" \in xfer[x].flags
        /\ UNCHANGED expired
    BY <1>1, <1>4, <2>1, ReasonWhy DEF Reason, time
  <2> QED
    BY <1>1, <1>3, <1>4, <2>2 DEF None
<1>8. CASE pc[t] = "complete" /\ ~Retire(t) /\ ~ClearPriv(t)
  <2>1. loc'[t] = loc[t]
    <3>1. ~Moves(t)
      BY <1>8 DEF Moves, Leads
    <3> QED
      BY <1>1, <3>1, ThreadSteps
  <2>2. /\ loc[t].why # None
        /\ loc[t].why = "TIMED_OUT" => x \in expired
        /\ loc[t].why = "NO_DEVICE" => ~plugged
    BY <1>4, <1>8 DEF CallsInv, WhyInv
  <2>3. Flies(x)
    BY <1>1, <1>4, <1>8 DEF Inv, HandlerInv
  <2>4. ~Return(x)
    BY <1>1, <2>3, CallSteps
  <2> QED
    BY <1>1, <1>2, <1>4, <2>1, <2>2, <2>4, OverdueStays
<1> QED
  BY <1>3, <1>5, <1>6, <1>7, <1>8

\* In the beginning there is no call.
LEMMA InitCallsInv ==
  ASSUME Init
  PROVE  CallsInv
<1>1. /\ due = << >> /\ xfer = [t \in Threads |-> NoTransfer] /\ pc = [t \in Threads |-> "idle"]
  BY DEF Init
<1>2. DueInv
  BY <1>1 DEF DueInv, IsInjective, Range
<1>3. StatusInv
  BY <1>1, NoTransferFields DEF StatusInv, None
<1>4. MarkInv
  BY <1>1, NoTransferFields DEF MarkInv
<1>5. WhyInv
  BY <1>1 DEF WhyInv
<1> QED
  BY <1>2, <1>3, <1>4, <1>5, InitInv DEF CallsInv

\* Every step keeps the invariant of the calls.
LEMMA NextCallsInv ==
  ASSUME CallsInv, [Next]_vars
  PROVE  CallsInv'
<1>1. Inv'
  BY NextInv DEF CallsInv
<1> QED
  BY <1>1, DueNext, StatusNext, MarkNext, WhyNext DEF CallsInv

-----------------------------------------------------------------------------
(* Every step is one of a call, or none.                                       *)

\* What the calls see of the status of a thread's transfer.
StatusSeen(t) == IF Phase(t) = "pending" THEN None ELSE xfer[t].status

\* The phase of a call is where its thread is.
PlacesTellPhases ==
  \A x \in Threads :
    /\ pc[x] \in Outside => Phase(x) = "none" /\ StatusSeen(x) = None
    /\ pc[x] \in Submitting => Phase(x) = "pending"
    /\ pc[x] = "return" => Phase(x) = "ended" /\ StatusSeen(x) = "NO_DEVICE"
    /\ pc[x] \in Busy /\ xfer[x].completed => Phase(x) = "ended" /\ StatusSeen(x) = xfer[x].status
    /\ pc[x] \in Busy /\ ~xfer[x].completed => Phase(x) = "pending"
    /\ Phase(x) = "pending" => StatusSeen(x) = None

\* So it is by the invariant.
LEMMA PhaseFacts == CallsInv => PlacesTellPhases
<1> SUFFICES ASSUME CallsInv, NEW x \in Threads
             PROVE  /\ pc[x] \in Outside => Phase(x) = "none" /\ StatusSeen(x) = None
                    /\ pc[x] \in Submitting => Phase(x) = "pending"
                    /\ pc[x] = "return" => Phase(x) = "ended" /\ StatusSeen(x) = "NO_DEVICE"
                    /\ pc[x] \in Busy /\ xfer[x].completed =>
                         Phase(x) = "ended" /\ StatusSeen(x) = xfer[x].status
                    /\ pc[x] \in Busy /\ ~xfer[x].completed => Phase(x) = "pending"
                    /\ Phase(x) = "pending" => StatusSeen(x) = None
  BY DEF PlacesTellPhases
<1>1. /\ pc[x] \in Places
      /\ pc[x] \in Outside => ~xfer[x].completed /\ xfer[x].status = None
      /\ pc[x] = "return" => xfer[x].status = "NO_DEVICE"
      /\ pc[x] \in Submitting => ~xfer[x].completed
  BY DEF CallsInv, Inv, TypeInv, StatusInv, TransferInv
<1>2. /\ pc[x] \in Submitting \cup Waiting \cup Handling \cup TimingOut <=>
           pc[x] \in Submitting \/ pc[x] \in Busy
      /\ At(x, "return") <=> pc[x] = "return"
  BY DEF Busy, At
<1>3. Phase(x) = IF xfer[x].completed \/ pc[x] = "return" THEN "ended"
                 ELSE IF pc[x] \in Submitting \/ pc[x] \in Busy THEN "pending" ELSE "none"
  BY <1>2 DEF Phase
<1>4. /\ pc[x] \in Outside => pc[x] # "return" /\ pc[x] \notin Submitting /\ pc[x] \notin Busy
      /\ pc[x] \in Submitting => pc[x] # "return" /\ pc[x] \notin Busy
      /\ pc[x] \in Busy => pc[x] # "return"
  BY <1>1, Classes
<1> QED
  BY <1>1, <1>3, <1>4 DEF StatusSeen

\* And so it is after the next step.
LEMMA PhaseFactsNext == CallsInv' => PlacesTellPhases'
BY PhaseFacts, PTL

\* The calls see nothing of a step.
Unseen(t) == Phase(t)' = Phase(t) /\ StatusSeen(t)' = StatusSeen(t)

\* The calls see a submission, an end and a return of the caller, and else nothing.
LEMMA SeenSteps ==
  ASSUME CallsInv, [Next]_vars, NEW x \in Threads
  PROVE  /\ Submit(x) => Phase(x) = "none" /\ Phase(x)' = "pending" /\ StatusSeen(x)' = None
         /\ Unsubmit(x) => /\ Phase(x) = "pending" /\ Phase(x)' = "ended"
                           /\ StatusSeen(x)' = "NO_DEVICE" /\ ~plugged
         /\ Return(x) => Phase(x) = "ended" /\ Phase(x)' = "none" /\ StatusSeen(x)' = None
         /\ \A t \in Threads : Complete(t) /\ loc[t].cur = x =>
              Phase(x) = "pending" /\ Phase(x)' = "ended" /\ StatusSeen(x)' = loc[t].why
         /\ \/ Unseen(x)
            \/ Submit(x) \/ Unsubmit(x) \/ Return(x)
            \/ \E t \in Threads : Complete(t) /\ loc[t].cur = x
<1>1. /\ Inv /\ TypeInv /\ CallsInv' /\ pc[x] \in Places /\ pc'[x] \in Places
      /\ xfer \in [Threads -> Transfer] /\ loc \in [Threads -> Locals]
  <2>1. TypeInv /\ TypeInv'
    BY NextCallsInv DEF CallsInv, Inv
  <2> QED
    BY <2>1, NextCallsInv DEF CallsInv, Inv, TypeInv
<1>2. /\ pc[x] \in Outside => Phase(x) = "none" /\ StatusSeen(x) = None
      /\ pc[x] \in Submitting => Phase(x) = "pending"
      /\ pc[x] = "return" => Phase(x) = "ended" /\ StatusSeen(x) = "NO_DEVICE"
      /\ pc[x] \in Busy /\ xfer[x].completed => Phase(x) = "ended" /\ StatusSeen(x) = xfer[x].status
      /\ pc[x] \in Busy /\ ~xfer[x].completed => Phase(x) = "pending"
      /\ Phase(x) = "pending" => StatusSeen(x) = None
  BY PhaseFacts DEF PlacesTellPhases
<1>3. /\ pc'[x] \in Outside => Phase(x)' = "none" /\ StatusSeen(x)' = None
      /\ pc'[x] \in Submitting => Phase(x)' = "pending"
      /\ pc'[x] = "return" => Phase(x)' = "ended" /\ StatusSeen(x)' = "NO_DEVICE"
      /\ pc'[x] \in Busy /\ xfer'[x].completed => Phase(x)' = "ended" /\ StatusSeen(x)' = xfer'[x].status
      /\ pc'[x] \in Busy /\ ~xfer'[x].completed => Phase(x)' = "pending"
      /\ Phase(x)' = "pending" => StatusSeen(x)' = None
  BY <1>1, PhaseFactsNext DEF PlacesTellPhases
<1>4. ASSUME Submit(x)
      PROVE  Phase(x) = "none" /\ Phase(x)' = "pending" /\ StatusSeen(x)' = None
  <2>1. pc[x] \in Outside /\ pc'[x] \in Submitting
    BY <1>1, <1>4, OwnSteps DEF Outside, Submitting
  <2> QED
    BY <1>2, <1>3, <2>1
<1>5. ASSUME Unsubmit(x)
      PROVE  /\ Phase(x) = "pending" /\ Phase(x)' = "ended"
             /\ StatusSeen(x)' = "NO_DEVICE" /\ ~plugged
  <2>1. pc[x] = "unsubmit" /\ pc'[x] = "return"
    BY <1>1, <1>5, OwnSteps
  <2>2. ~plugged
    BY <2>1 DEF CallsInv, StatusInv
  <2> QED
    BY <1>2, <1>3, <2>1, <2>2 DEF Submitting
<1>6. ASSUME Return(x)
      PROVE  Phase(x) = "ended" /\ Phase(x)' = "none" /\ StatusSeen(x)' = None
  <2>1. /\ pc[x] = "return" \/ (pc[x] \in Busy /\ xfer[x].completed)
        /\ pc'[x] \in Outside
    BY <1>1, <1>6, OwnSteps DEF Busy, Waiting, Outside
  <2> QED
    BY <1>2, <1>3, <2>1
<1>7. ASSUME NEW t \in Threads, Complete(t), loc[t].cur = x
      PROVE  Phase(x) = "pending" /\ Phase(x)' = "ended" /\ StatusSeen(x)' = loc[t].why
  <2>1. pc[x] \in Busy /\ Flies(x)
    BY <1>1, <1>7, CompletedIsBusy
  <2>2. ~xfer[x].completed /\ pc'[x] \in Busy
    BY <1>1, <2>1, BusyStays DEF Inv, TransferInv
  <2>3. xfer'[x].completed /\ xfer'[x].status = loc[t].why
    BY <1>1, <1>7, CompleteEffect, CompleteStatus
  <2> QED
    BY <1>2, <1>3, <2>1, <2>2, <2>3
<1>8. ASSUME ~Submit(x), ~Unsubmit(x), ~Return(x), \A t \in Threads : ~(Complete(t) /\ loc[t].cur = x)
      PROVE  Unseen(x)
  <2>1. CompletedSteps(x)
    BY <1>1, XferFieldSteps DEF XferFields
  <2>2. /\ DoClose(x) => pc[x] \in Outside /\ pc'[x] \in Outside
        /\ Submitted(x) /\ pc'[x] = "unsubmit" => pc'[x] \in Submitting
        /\ BackendSubmit(x) => pc'[x] \in Submitting
    BY <1>1, OwnSteps DEF Outside, Closing, Submitting
  <2>3. CASE pc[x] \in Outside
    <3>1. pc'[x] \notin Submitting /\ pc'[x] # "return" /\ pc'[x] \notin Busy
      <4>1. Submitted(x) => pc[x] = "submitted"
        BY <1>1, OwnSteps
      <4>2. pc[x] \notin Submitting /\ pc[x] # "return" /\ pc[x] \notin Busy /\ pc[x] # "submitted"
        BY <1>1, <2>3, Classes DEF Submitting
      <4> QED
        BY <1>1, <1>8, <4>1, <4>2, ClassSteps
    <3>2. pc'[x] \in Outside
      BY <1>1, <3>1, Classes
    <3> QED
      BY <1>2, <1>3, <2>3, <3>2 DEF Unseen
  <2>4. CASE pc[x] = "return"
    <3>1. pc'[x] = "return"
      <4>1. ~Moves(x)
        BY <1>8, <2>4 DEF Moves, Leads
      <4> QED
        BY <1>1, <2>4, <4>1, ThreadSteps
    <3> QED
      BY <1>2, <1>3, <2>4, <3>1 DEF Unseen
  <2>5. CASE pc[x] \in Submitting \cup Busy
    <3>1. pc'[x] \in Submitting \cup Busy
      <4>1. pc[x] \in InCall /\ pc'[x] \in InCall
        BY <1>1, <1>8, <2>5, CallSteps DEF InCall
      <4>2. pc'[x] # "return"
        <5>1. pc[x] # "return"
          BY <1>1, <2>5, Classes
        <5> QED
          BY <1>1, <1>8, <5>1, ClassSteps
      <4> QED
        BY <4>1, <4>2 DEF InCall
    <3>2. xfer'[x].completed = xfer[x].completed
      <4>1. ~DoClose(x)
        BY <1>1, <2>2, <2>5, Classes
      <4> QED
        BY <1>8, <2>1, <4>1 DEF CompletedSteps
    <3>3. CASE xfer[x].completed
      <4>1. pc[x] \in Busy /\ pc'[x] \in Busy
        <5>1. pc[x] \notin Submitting /\ pc'[x] \notin Submitting
          BY <1>1, <3>2, <3>3 DEF CallsInv, Inv, TransferInv
        <5> QED
          BY <2>5, <3>1, <5>1
      <4>2. xfer'[x].status = xfer[x].status
        <5>1. pc[x] # "submitted" /\ pc'[x] # "submitted" /\ pc[x] # "closefd"
          BY <4>1 DEF Busy, Waiting, Handling, TimingOut
        <5>2. ~BackendSubmit(x) /\ ~Submitted(x) /\ ~DoClose(x)
          BY <1>1, <5>1, OwnSteps
        <5> QED
          BY <1>1, <1>8, <5>2, TrueStatusSteps
      <4> QED
        BY <1>2, <1>3, <3>2, <3>3, <4>1, <4>2 DEF Unseen
    <3>4. CASE ~xfer[x].completed
      BY <1>2, <1>3, <2>5, <3>1, <3>2, <3>4 DEF Unseen
    <3> QED
      BY <3>3, <3>4
  <2> QED
    BY <1>1, <2>3, <2>4, <2>5, Classes
<1> QED
  BY <1>4, <1>5, <1>6, <1>7, <1>8

\* What the calls are, as functions.
Phases == [t \in Threads |-> Phase(t)]
Statuses == [t \in Threads |-> StatusSeen(t)]

\* One call goes on ...
LEMMA OneCall ==
  ASSUME NEW x \in Threads, NEW p, NEW s, Phase(x)' = p, StatusSeen(x)' = s,
         \A y \in Threads : y # x => Unseen(y)
  PROVE  Phases' = [Phases EXCEPT ![x] = p] /\ Statuses' = [Statuses EXCEPT ![x] = s]
BY DEF Phases, Statuses, Unseen

\* ... or none.
LEMMA NoCall ==
  ASSUME \A y \in Threads : Unseen(y)
  PROVE  UNCHANGED <<Phases, Statuses>>
BY DEF Phases, Statuses, Unseen

\* The abstract calls, of these functions.
LEMMA AbstractCalls ==
  ASSUME NEW x \in Threads
  PROVE  /\ Calls!vars = <<plugged, Phases, Statuses, expired>>
         /\ Calls!Submit(x) <=> /\ Phase(x) = "none"
                                /\ Phases' = [Phases EXCEPT ![x] = "pending"]
                                /\ Statuses' = [Statuses EXCEPT ![x] = None]
                                /\ UNCHANGED <<plugged, expired>>
         /\ \A s : Calls!End(x, s) <=> /\ Phase(x) = "pending"
                                       /\ s = "TIMED_OUT" => x \in expired
                                       /\ s = "NO_DEVICE" => ~plugged
                                       /\ Phases' = [Phases EXCEPT ![x] = "ended"]
                                       /\ Statuses' = [Statuses EXCEPT ![x] = s]
                                       /\ UNCHANGED <<plugged, expired>>
         /\ Calls!Return(x) <=> /\ Phase(x) = "ended"
                                /\ Phases' = [Phases EXCEPT ![x] = "none"]
                                /\ Statuses' = [Statuses EXCEPT ![x] = None]
                                /\ expired' = expired \ {x}
                                /\ UNCHANGED plugged
         /\ Calls!Expire(x) <=> /\ x \in Timed /\ Phase(x) = "pending"
                                /\ expired' = expired \cup {x}
                                /\ UNCHANGED <<plugged, Phases, Statuses>>
         /\ Calls!Unplug <=> plugged /\ plugged' = FALSE /\ UNCHANGED <<Phases, Statuses, expired>>
<1>1. Calls!vars = <<plugged, Phases, Statuses, expired>>
  BY DEF Calls!vars, Phases, Statuses, StatusSeen
<1>2. Phases[x] = Phase(x)
  BY DEF Phases
<1>3. Calls!Submit(x) <=> /\ Phase(x) = "none"
                          /\ Phases' = [Phases EXCEPT ![x] = "pending"]
                          /\ Statuses' = [Statuses EXCEPT ![x] = None]
                          /\ UNCHANGED <<plugged, expired>>
  BY <1>2 DEF Calls!Submit, Phases, Statuses, StatusSeen, None
<1>4. ASSUME NEW s
      PROVE  Calls!End(x, s) <=> /\ Phase(x) = "pending"
                                 /\ s = "TIMED_OUT" => x \in expired
                                 /\ s = "NO_DEVICE" => ~plugged
                                 /\ Phases' = [Phases EXCEPT ![x] = "ended"]
                                 /\ Statuses' = [Statuses EXCEPT ![x] = s]
                                 /\ UNCHANGED <<plugged, expired>>
  BY <1>2 DEF Calls!End, Phases, Statuses, StatusSeen, None
<1>5. Calls!Return(x) <=> /\ Phase(x) = "ended"
                          /\ Phases' = [Phases EXCEPT ![x] = "none"]
                          /\ Statuses' = [Statuses EXCEPT ![x] = None]
                          /\ expired' = expired \ {x}
                          /\ UNCHANGED plugged
  BY <1>2 DEF Calls!Return, Phases, Statuses, StatusSeen, None
<1>6. Calls!Expire(x) <=> /\ x \in Timed /\ Phase(x) = "pending"
                          /\ expired' = expired \cup {x}
                          /\ UNCHANGED <<plugged, Phases, Statuses>>
  BY <1>2 DEF Calls!Expire, Phases, Statuses, StatusSeen
<1>7. Calls!Unplug <=> plugged /\ plugged' = FALSE /\ UNCHANGED <<Phases, Statuses, expired>>
  BY DEF Calls!Unplug, Phases, Statuses, StatusSeen
<1> QED
  BY <1>1, <1>3, <1>4, <1>5, <1>6, <1>7

\* Each step of a caller or a handler is seen by one call.
LEMMA OthersUnseen ==
  ASSUME CallsInv, [Next]_vars, NEW t \in Threads, NEW x \in Threads,
         \/ (Submit(t) \/ Unsubmit(t) \/ Return(t)) /\ x = t
         \/ Complete(t) /\ x = loc[t].cur,
         NEW y \in Threads, y # x
  PROVE  Unseen(y)
<1>1. Inv /\ TypeInv
  BY DEF CallsInv, Inv
<1>2. ASSUME NEW u \in Threads, Submit(u) \/ Unsubmit(u) \/ Return(u) \/ Complete(u)
      PROVE  /\ pc'[u] # pc[u]
             /\ Submit(u) => pc[u] = "held" /\ pc'[u] = "submit"
             /\ Unsubmit(u) => pc[u] = "unsubmit" /\ pc'[u] = "return"
             /\ Return(u) => pc[u] \in {"return", "wait"} /\ pc'[u] = "held"
             /\ Complete(u) => pc[u] = "complete"
  <2>1. /\ Submit(u) => pc[u] = "held" /\ pc'[u] = "submit"
        /\ Unsubmit(u) => pc[u] = "unsubmit" /\ pc'[u] = "return"
        /\ Return(u) => pc[u] \in {"return", "wait"} /\ pc'[u] = "held"
        /\ Complete(u) => pc[u] = "complete" /\ pc'[u] \in {"scan", "reap"}
    BY <1>1, OwnSteps, CountingSteps
  <2> QED
    BY <1>2, <2>1
<1>3. ASSUME NEW u \in Threads, Submit(u) \/ Unsubmit(u) \/ Return(u) \/ Complete(u)
      PROVE  u = t
  BY <1>1, <1>2, <1>3, OneMoves
<1>4. ~Submit(y) /\ ~Unsubmit(y) /\ ~Return(y)
  BY <1>2, <1>3
<1>5. \A u \in Threads : ~(Complete(u) /\ loc[u].cur = y)
  BY <1>2, <1>3
<1> QED
  BY <1>4, <1>5, SeenSteps

\* Every step of the event handling is a step of the calls, or they do not see it.
LEMMA CallsNext ==
  ASSUME CallsInv, [Next]_vars
  PROVE  [Calls!Next]_(Calls!vars)
<1>1. /\ Inv /\ TypeInv /\ loc \in [Threads -> Locals] /\ pc \in [Threads -> Places]
      /\ due \in Seq(Timed)
  BY DEF CallsInv, Inv, TypeInv
<1>2. ASSUME NEW t \in Threads, Submit(t) PROVE Calls!Next
  <2>1. Phase(t) = "none" /\ Phase(t)' = "pending" /\ StatusSeen(t)' = None
    BY <1>2, SeenSteps
  <2>2. \A y \in Threads : y # t => Unseen(y)
    BY <1>2, OthersUnseen
  <2>3. UNCHANGED <<plugged, expired>>
    BY <1>2 DEF Submit, device
  <2>4. Phases' = [Phases EXCEPT ![t] = "pending"] /\ Statuses' = [Statuses EXCEPT ![t] = None]
    BY <2>1, <2>2, OneCall
  <2>5. Calls!Submit(t)
    BY <2>1, <2>3, <2>4, AbstractCalls
  <2> QED
    BY <2>5 DEF Calls!Next
<1>3. ASSUME NEW t \in Threads, Unsubmit(t) PROVE Calls!Next
  <2>1. /\ Phase(t) = "pending" /\ Phase(t)' = "ended"
        /\ StatusSeen(t)' = "NO_DEVICE" /\ ~plugged
    BY <1>3, SeenSteps
  <2>2. \A y \in Threads : y # t => Unseen(y)
    BY <1>3, OthersUnseen
  <2>3. UNCHANGED <<plugged, expired>>
    BY <1>3 DEF Unsubmit, device, time
  <2>4. Phases' = [Phases EXCEPT ![t] = "ended"] /\ Statuses' = [Statuses EXCEPT ![t] = "NO_DEVICE"]
    BY <2>1, <2>2, OneCall
  <2>5. Calls!End(t, "NO_DEVICE")
    BY <2>1, <2>3, <2>4, AbstractCalls
  <2> QED
    BY <2>5 DEF Calls!Next
<1>4. ASSUME NEW t \in Threads, Complete(t) PROVE Calls!Next
  <2>1. PICK x \in Threads : x = loc[t].cur
    BY <1>1, <1>4, CompletedIsBusy
  <2>2. PICK s : s = loc[t].why
    OBVIOUS
  <2>3. Phase(x) = "pending" /\ Phase(x)' = "ended" /\ StatusSeen(x)' = s
    BY <1>4, <2>1, <2>2, SeenSteps
  <2>4. \A y \in Threads : y # x => Unseen(y)
    BY <1>4, <2>1, OthersUnseen
  <2>5. UNCHANGED <<plugged, expired>> /\ pc[t] = "complete"
    BY <1>4 DEF Complete, time, At
  <2>6. /\ s \in {"COMPLETED", "STALL", "TIMED_OUT", "CANCELLED", "NO_DEVICE"}
        /\ s = "TIMED_OUT" => x \in expired
        /\ s = "NO_DEVICE" => ~plugged
    BY <1>1, <2>1, <2>2, <2>5 DEF CallsInv, WhyInv, Locals
  <2>7. Phases' = [Phases EXCEPT ![x] = "ended"] /\ Statuses' = [Statuses EXCEPT ![x] = s]
    BY <2>3, <2>4, OneCall
  <2>8. Calls!End(x, s)
    BY <2>3, <2>5, <2>6, <2>7, AbstractCalls
  <2> QED
    BY <2>6, <2>8 DEF Calls!Next
<1>5. ASSUME NEW t \in Threads, Return(t) PROVE Calls!Next
  <2>1. Phase(t) = "ended" /\ Phase(t)' = "none" /\ StatusSeen(t)' = None
    BY <1>5, SeenSteps
  <2>2. \A y \in Threads : y # t => Unseen(y)
    BY <1>5, OthersUnseen
  <2>3. expired' = expired \ {t} /\ UNCHANGED plugged
    BY <1>5 DEF Return, device
  <2>4. Phases' = [Phases EXCEPT ![t] = "none"] /\ Statuses' = [Statuses EXCEPT ![t] = None]
    BY <2>1, <2>2, OneCall
  <2>5. Calls!Return(t)
    BY <2>1, <2>3, <2>4, AbstractCalls
  <2> QED
    BY <2>5 DEF Calls!Next
<1>6. ASSUME \A t \in Threads : ~Submit(t) /\ ~Unsubmit(t) /\ ~Complete(t) /\ ~Return(t)
      PROVE  UNCHANGED <<Phases, Statuses>>
  BY <1>6, SeenSteps, NoCall
<1>7. ASSUME UNCHANGED pc
      PROVE  \A t \in Threads : ~Submit(t) /\ ~Unsubmit(t) /\ ~Complete(t) /\ ~Return(t)
  <2>1. \A t \in Threads : Return(t) => pc[t] # "held" /\ pc'[t] = "held"
    <3>1. \A t \in Threads : Return(t) => pc[t] \in {"return", "wait"} /\ pc'[t] = "held"
      BY <1>1, OwnSteps
    <3> QED
      BY <3>1
  <2>2. \A t \in Threads : Complete(t) => pc[t] = "complete" /\ pc'[t] \in {"scan", "reap"}
    BY <1>1, CountingSteps
  <2> QED
    BY <1>1, <1>7, <2>1, <2>2, OwnSteps
<1>8. ASSUME NEW t \in Threads, Expire(t) PROVE Calls!Next
  <2>1. /\ t \in Range(due) /\ expired' = expired \cup {t} /\ UNCHANGED <<plugged, pc>>
        /\ ~xfer[t].completed /\ pc[t] # "return"
    BY <1>8 DEF Expire, device, At
  <2>2. t \in Timed
    BY <1>1, <2>1 DEF Range
  <2>3. pc[t] \in Submitting \/ pc[t] \in Busy
    BY <2>1 DEF CallsInv, DueInv, InCall
  <2>4. Phase(t) = "pending"
    BY <2>1, <2>3, PhaseFacts DEF PlacesTellPhases
  <2>5. UNCHANGED <<Phases, Statuses>>
    BY <1>6, <1>7, <2>1
  <2>6. Calls!Expire(t)
    BY <2>1, <2>2, <2>4, <2>5, AbstractCalls
  <2> QED
    BY <2>6 DEF Calls!Next
<1>9. ASSUME Unplug PROVE Calls!Next
  <2>1. plugged /\ plugged' = FALSE /\ UNCHANGED <<expired, pc>>
    BY <1>9 DEF Unplug, time
  <2>2. UNCHANGED <<Phases, Statuses>>
    BY <1>6, <1>7, <2>1
  <2>3. Calls!Unplug
    BY <2>1, <2>2 DEF Calls!Unplug, Phases, Statuses, StatusSeen
  <2> QED
    BY <2>3 DEF Calls!Next
<1>10. ASSUME ~Unplug, \A t \in Threads : /\ ~Submit(t) /\ ~Unsubmit(t) /\ ~Complete(t) /\ ~Return(t)
                                          /\ ~Expire(t)
       PROVE  UNCHANGED Calls!vars
  <2>1. UNCHANGED <<plugged, expired>>
    BY <1>10, PluggedChanges, ExpiredChanges
  <2>2. UNCHANGED <<Phases, Statuses>>
    BY <1>6, <1>10
  <2> QED
    BY <2>1, <2>2 DEF Calls!vars, Phases, Statuses, StatusSeen
<1> QED
  BY <1>2, <1>3, <1>4, <1>5, <1>8, <1>9, <1>10

\* Each call hands its transfer over once, gets one end of it and that end's status,
\* whichever thread handles the events, and however submissions, timeouts, closes and
\* the unplugging of the device meet (io.c:1617-1658, sync.c:91-157).
THEOREM CallsAreImplemented == Spec => ImplementsCalls
<1>1. Init => CallsInv
  BY InitCallsInv
<1>2. CallsInv /\ [Next]_vars => CallsInv'
  BY NextCallsInv
<1>3. CallsInv /\ [Next]_vars => [Calls!Next]_(Calls!vars)
  BY CallsNext
<1>4. Init => Calls!Init
  <2>1. SUFFICES ASSUME Init PROVE Calls!Init
    OBVIOUS
  <2>2. \A t \in Threads : pc[t] = "idle" /\ xfer[t] = NoTransfer
    BY <2>1 DEF Init
  <2>3. \A t \in Threads : Phase(t) = "none" /\ xfer[t].status = "none"
    <3>1. "idle" \notin Submitting \cup Waiting \cup Handling \cup TimingOut
      BY DEF Submitting, Waiting, Handling, TimingOut
    <3> QED
      BY <2>2, <3>1, NoTransferFields DEF Phase, At, None
  <2> QED
    BY <2>1, <2>3 DEF Init, Calls!Init
<1> QED
  BY <1>1, <1>2, <1>3, <1>4, PTL DEF Spec, ImplementsCalls, Calls!Spec
=============================================================================
