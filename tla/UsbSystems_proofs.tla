---------------------------- MODULE UsbSystems_proofs ----------------------------
(***************************************************************************)
(* Theorems about parts of libusb that MCSystems composes.  Hotplug        *)
(* callbacks, whose module this one extends: for every set of devices and  *)
(* of callbacks, whichever thread registers them; the premise, ~Hasty, is  *)
(* that no callback asks to be removed before its registration has         *)
(* returned.  The condition variable of Windows, the instance C, and its   *)
(* poll, the instance P: for every set of threads, of transfers and of     *)
(* writers, and tables of any size.  The backends of OpenBSD and NetBSD,   *)
(* the instance B: for every set of devices, of handles and of endpoints,  *)
(* and a table of descriptors of any size.                                 *)
(***************************************************************************)
EXTENDS UsbHotplug, SequenceTheorems, FiniteSetTheorems, WellFoundedInduction, TLAPS

Listed == ToSet(hotplug_cbs)
Walking == handler.at \in {"visiting", "calling", "matched"}

\* A record is on the list as long as it is used.
RecordsInv ==
  \A k \in Callbacks :
    /\ k \in Listed <=> record[k] \in {"live", "needs_free"}
    /\ record[k] = "none" <=> pc[k] = "start"
    /\ pc[k] \in {"list", "enumerate"} => record[k] = "live"
    /\ record[k] = "needs_free" => pc[k] \in {"marked", "done", "mute"}

\* The place of k in the list s, and the one after it.
PlaceIn(s, k) == CHOOSE i \in DOMAIN s : s[i] = k
After(s, k) == IF PlaceIn(s, k) = Len(s) THEN None ELSE s[PlaceIn(s, k) + 1]

\* What the walk stands on is on the list, and it is not freed before its registration has returned.
WalkInv ==
  /\ Walking => handler.cb \in Listed /\ handler.next = After(hotplug_cbs, handler.cb)
  /\ handler.at = "matched" /\ handler.ret = 1 => pc[handler.cb] \notin {"list", "enumerate"}

EndInv ==
  handler.at = "exited" =>
    /\ hotplug_cbs = << >> /\ hotplug_msgs = << >>
    /\ \A k \in Callbacks : pc[k] \in {"start", "registered", "done", "mute"}

ListInv == RecordsInv /\ WalkInv /\ EndInv

\* The thread that handles events does not while it registers or deregisters.
QuietInv == Nested # {} => handler.at \in {"idle", "calling"}

\* What is in the queue, and what the walk is about.
Sent(d, e) == Message(e, d) \in ToSet(hotplug_msgs)
Held(d, e) == (handler.at = "taken" \/ Walking) /\ handler.message = Message(e, d)

\* Every m of the queue s comes before every n.
Ordered(s, m, n) == \A i, j \in DOMAIN s : s[i] = m /\ s[j] = n => i < j
InOrder(d) == Ordered(hotplug_msgs, Message("arrived", d), Message("left", d))

\* A device that is there has been announced, its leaving after that, and not before.
MessagesOf(d) ==
  /\ life[d] \in {"out", "listed"} => ~Sent(d, "arrived") /\ ~Held(d, "arrived")
  /\ life[d] # "gone" => ~Sent(d, "left") /\ ~Held(d, "left")
  /\ InOrder(d)
  /\ Held(d, "left") => ~Sent(d, "arrived")
  /\ life[d] = "gone" /\ (Held(d, "arrived") \/ Sent(d, "arrived")) => Sent(d, "left")
MessagesInv == \A d \in Devices : MessagesOf(d)

\* The walk has still to come to k; what k has still to be told; what it was last told.
Ahead(k) ==
  \/ handler.at = "taken"
  \/ handler.at = "visiting" /\ PlaceIn(hotplug_cbs, handler.cb) <= PlaceIn(hotplug_cbs, k)
  \/ handler.at \in {"calling", "matched"} /\ PlaceIn(hotplug_cbs, handler.cb) < PlaceIn(hotplug_cbs, k)
Due(k, d, e) == Sent(d, e) \/ (Held(d, e) /\ Ahead(k))
ToTell(k, d) == pc[k] = "enumerate" /\ d \in devs[k]
Knows(k, d) ==
  pc[k] \in {"enumerate", "registered"} /\ record[k] = "live" =>
    /\ life[d] = "out" => told[k][d] = "nothing"
    /\ life[d] = "in" => told[k][d] = "arrived" \/ Due(k, d, "arrived") \/ ToTell(k, d)
    /\ life[d] = "gone" => Due(k, d, "left") \/ (told[k][d] # "arrived" /\ ~ToTell(k, d))
Concerned == {k \in Inside \cap Enumerate : Events[k] = {"arrived", "left"}}
\* What is held is a message.
HeldInv == handler.at = "taken" \/ Walking => handler.message \in Messages

\* Nothing is told before the devices are listed, and what is listed is or was there.
UntoldInv == \A k \in Inside : pc[k] \in {"start", "list"} => \A d \in Devices : told[k][d] = "nothing"
PresentInv == \A k \in Callbacks : pc[k] = "enumerate" => \A d \in devs[k] : life[d] # "out"

\* A callback of the thread that handles events has heard what is so, or will.
KnowsInv == \A k \in Concerned : \A d \in Wanted[k] : Knows(k, d)
ToldInv == HeldInv /\ UntoldInv /\ PresentInv /\ KnowsInv

Inv == TypeOK /\ ListInv /\ QuietInv /\ MessagesInv /\ ToldInv

-----------------------------------------------------------------------------
(* The list. *)

\* A place in a list.
LEMMA PlaceFacts ==
  ASSUME NEW s \in Seq(Callbacks), IsInjective(s), NEW k \in ToSet(s)
  PROVE  /\ PlaceIn(s, k) \in 1 .. Len(s) /\ s[PlaceIn(s, k)] = k /\ k \in Callbacks
         /\ \A i \in 1 .. Len(s) : s[i] = k => i = PlaceIn(s, k)
<1>1. \E i \in DOMAIN s : s[i] = k
  BY DEF ToSet
<1>2. PlaceIn(s, k) \in DOMAIN s /\ s[PlaceIn(s, k)] = k
  BY <1>1 DEF PlaceIn
<1>3. DOMAIN s = 1 .. Len(s) /\ \A i \in 1 .. Len(s) : s[i] \in Callbacks
  OBVIOUS
<1>4. \A i \in 1 .. Len(s) : s[i] = k => i = PlaceIn(s, k)
  BY <1>2, <1>3 DEF IsInjective
<1> QED
  BY <1>2, <1>3, <1>4

\* Who has a place.
LEMMA PlaceIs ==
  ASSUME NEW s \in Seq(Callbacks), IsInjective(s), NEW i \in 1 .. Len(s)
  PROVE  s[i] \in ToSet(s) /\ PlaceIn(s, s[i]) = i
<1>1. s[i] \in ToSet(s)
  BY DEF ToSet
<1> QED
  BY <1>1, PlaceFacts

\* A record at the head of the list moves the others by one place.
LEMMA ConsFacts ==
  ASSUME NEW s \in Seq(Callbacks), IsInjective(s), NEW k \in Callbacks, k \notin ToSet(s),
         NEW r, r = Cons(k, s)
  PROVE  /\ r \in Seq(Callbacks) /\ IsInjective(r) /\ ToSet(r) = ToSet(s) \cup {k} /\ Len(r) = Len(s) + 1
         /\ \A j \in ToSet(s) : PlaceIn(r, j) = PlaceIn(s, j) + 1 /\ After(r, j) = After(s, j)
<1>1. /\ r \in Seq(Callbacks) /\ Len(r) = Len(s) + 1 /\ r[1] = k
      /\ \A i \in 2 .. Len(r) : r[i] = s[i - 1]
  BY DEF Cons
<1>2. DOMAIN r = 1 .. Len(s) + 1 /\ DOMAIN s = 1 .. Len(s) /\ Len(s) \in Nat
  BY <1>1
<1>3. \A i \in 1 .. Len(s) : s[i] \in ToSet(s) /\ r[i + 1] = s[i]
  BY <1>1, <1>2 DEF ToSet
<1>4. IsInjective(r)
  <2> SUFFICES ASSUME NEW a \in 1 .. Len(s) + 1, NEW b \in 1 .. Len(s) + 1, r[a] = r[b]
               PROVE  a = b
    BY <1>2 DEF IsInjective
  <2>1. CASE a = 1 /\ b # 1
    <3>1. r[b] = s[b - 1] /\ b - 1 \in 1 .. Len(s)
      BY <2>1, <1>1, <1>2
    <3> QED
      BY <3>1, <2>1, <1>1, <1>3
  <2>2. CASE b = 1 /\ a # 1
    <3>1. r[a] = s[a - 1] /\ a - 1 \in 1 .. Len(s)
      BY <2>2, <1>1, <1>2
    <3> QED
      BY <3>1, <2>2, <1>1, <1>3
  <2>3. CASE a # 1 /\ b # 1
    <3>1. r[a] = s[a - 1] /\ a - 1 \in 1 .. Len(s) /\ r[b] = s[b - 1] /\ b - 1 \in 1 .. Len(s)
      BY <2>3, <1>1, <1>2
    <3>2. a - 1 = b - 1
      BY <3>1, <1>2 DEF IsInjective
    <3> QED
      BY <3>2
  <2> QED
    BY <2>1, <2>2, <2>3
<1>5. ToSet(r) = ToSet(s) \cup {k}
  <2>1. ASSUME NEW x \in ToSet(r)
        PROVE  x \in ToSet(s) \cup {k}
    <3>1. PICK i \in 1 .. Len(s) + 1 : r[i] = x
      BY <1>2 DEF ToSet
    <3>2. CASE i = 1
      BY <3>1, <3>2, <1>1
    <3>3. CASE i # 1
      <4>1. i - 1 \in 1 .. Len(s) /\ r[i] = s[i - 1]
        BY <3>3, <1>1, <1>2
      <4> QED
        BY <4>1, <3>1, <1>3
    <3> QED
      BY <3>2, <3>3
  <2>2. k \in ToSet(r)
    BY <1>1, <1>2 DEF ToSet
  <2>3. ASSUME NEW x \in ToSet(s)
        PROVE  x \in ToSet(r)
    <3>1. PICK i \in 1 .. Len(s) : s[i] = x
      BY <1>2 DEF ToSet
    <3>2. r[i + 1] = x /\ i + 1 \in 1 .. Len(s) + 1
      BY <3>1, <1>3, <1>2
    <3> QED
      BY <3>2, <1>2 DEF ToSet
  <2> QED
    BY <2>1, <2>2, <2>3
<1>6. ASSUME NEW j \in ToSet(s)
      PROVE  PlaceIn(r, j) = PlaceIn(s, j) + 1 /\ After(r, j) = After(s, j)
  <2>1. PlaceIn(s, j) \in 1 .. Len(s) /\ s[PlaceIn(s, j)] = j
    BY PlaceFacts
  <2>2. r[PlaceIn(s, j) + 1] = j /\ PlaceIn(s, j) + 1 \in 1 .. Len(r)
    BY <2>1, <1>3, <1>1
  <2>3. PlaceIn(r, j) = PlaceIn(s, j) + 1
    BY <2>2, <1>1, <1>4, <1>5, PlaceIs
  <2>4. CASE PlaceIn(s, j) = Len(s)
    BY <2>3, <2>4, <1>1 DEF After
  <2>5. CASE PlaceIn(s, j) # Len(s)
    <3>1. PlaceIn(s, j) + 1 \in 1 .. Len(s) /\ PlaceIn(r, j) # Len(r)
      BY <2>1, <2>3, <2>5, <1>1, <1>2
    <3>2. r[PlaceIn(s, j) + 1 + 1] = s[PlaceIn(s, j) + 1]
      BY <3>1, <1>3
    <3> QED
      BY <2>3, <2>5, <3>1, <3>2 DEF After
  <2> QED
    BY <2>3, <2>4, <2>5
<1> QED
  BY <1>1, <1>4, <1>5, <1>6

\* A record that is taken out of the list moves those behind it by one place.
LEMMA RemoveFacts ==
  ASSUME NEW s \in Seq(Callbacks), IsInjective(s), NEW k \in ToSet(s),
         NEW r, r = RemoveAt(s, PlaceIn(s, k))
  PROVE  /\ r \in Seq(Callbacks) /\ IsInjective(r) /\ ToSet(r) = ToSet(s) \ {k} /\ Len(r) = Len(s) - 1
         /\ \A j \in ToSet(s) \ {k} :
              /\ PlaceIn(r, j) = IF PlaceIn(s, j) < PlaceIn(s, k) THEN PlaceIn(s, j) ELSE PlaceIn(s, j) - 1
              /\ PlaceIn(s, j) > PlaceIn(s, k) => After(r, j) = After(s, j)
<1> DEFINE p == PlaceIn(s, k)
           old(i) == IF i < p THEN i ELSE i + 1
<1>1. /\ p \in 1 .. Len(s) /\ s[p] = k /\ \A i \in 1 .. Len(s) : s[i] = k => i = p
      /\ Len(s) \in Nat /\ DOMAIN s = 1 .. Len(s) /\ \A i \in 1 .. Len(s) : s[i] \in Callbacks
  BY PlaceFacts
<1> HIDE DEF p
<1>2. PICK u, v : u = SubSeq(s, 1, p - 1) /\ v = SubSeq(s, p + 1, Len(s)) /\ r = u \o v
  BY DEF RemoveAt, p
<1>3. /\ r \in Seq(Callbacks) /\ Len(r) = Len(s) - 1
      /\ \A i \in 1 .. Len(r) : r[i] = s[old(i)]
  <2>1. /\ u \in Seq(Callbacks) /\ Len(u) = p - 1
        /\ \A i \in 1 .. p - 1 : u[i] = s[i]
    BY <1>1, <1>2
  <2>2. /\ v \in Seq(Callbacks) /\ Len(v) = Len(s) - p
        /\ \A i \in 1 .. Len(s) - p : v[i] = s[i + p]
    <3>1. PICK m, n : m = p + 1 /\ n = Len(s)
      OBVIOUS
    <3>2. m \in Int /\ n \in Int /\ \A i \in m .. n : s[i] \in Callbacks
      BY <1>1, <3>1
    <3>3. /\ SubSeq(s, m, n) \in Seq(Callbacks)
          /\ Len(SubSeq(s, m, n)) = IF m <= n THEN n - m + 1 ELSE 0
          /\ \A i \in 1 .. n - m + 1 : SubSeq(s, m, n)[i] = s[m + i - 1]
      BY <3>2, SubSeqProperties
    <3>4. v = SubSeq(s, m, n) /\ n - m + 1 = Len(s) - p
      BY <1>1, <1>2, <3>1
    <3>5. v \in Seq(Callbacks) /\ Len(v) = Len(s) - p
      <4>1. Len(v) = IF m <= n THEN n - m + 1 ELSE 0
        BY <3>3, <3>4
      <4>2. m <= n \/ Len(s) - p = 0
        <5>1. p \in Int /\ Len(s) \in Int /\ p <= Len(s)
          BY <1>1
        <5>2. p + 1 <= Len(s) \/ Len(s) - p = 0
          BY <5>1
        <5> QED
          BY <3>1, <5>2
      <4>3. m <= n => n - m + 1 = Len(s) - p
        BY <3>4
      <4>4. ~(m <= n) => Len(s) - p = 0
        BY <4>2
      <4>5. v \in Seq(Callbacks)
        BY <3>3, <3>4
      <4> QED
        BY <4>1, <4>3, <4>4, <4>5
    <3>6. ASSUME NEW i \in 1 .. Len(s) - p PROVE v[i] = s[i + p]
      <4>1. m + i - 1 = i + p
        BY <1>1, <3>1
      <4> QED
        BY <3>3, <3>4, <4>1
    <3> QED
      BY <3>5, <3>6
  <2>3. /\ r \in Seq(Callbacks) /\ Len(r) = Len(u) + Len(v)
        /\ \A i \in 1 .. Len(u) + Len(v) : r[i] = IF i <= Len(u) THEN u[i] ELSE v[i - Len(u)]
    <3>1. u \in Seq(Callbacks) /\ v \in Seq(Callbacks) /\ r = u \o v
      BY <1>2, <2>1, <2>2
    <3> QED
      BY <3>1, ConcatProperties
  <2>4. Len(r) = Len(s) - 1
    BY <1>1, <2>1, <2>2, <2>3
  <2>5. ASSUME NEW i \in 1 .. Len(s) - 1
        PROVE  r[i] = s[old(i)]
    <3>1. r[i] = IF i <= p - 1 THEN u[i] ELSE v[i - (p - 1)]
      BY <1>1, <2>1, <2>3, <2>4
    <3>2. i \in 1 .. p - 1 \/ (i - (p - 1) \in 1 .. Len(s) - p /\ i - (p - 1) + p = i + 1)
      BY <1>1
    <3>3. CASE i < p
      BY <1>1, <2>1, <3>1, <3>3
    <3>4. CASE ~(i < p)
      BY <1>1, <2>2, <3>1, <3>2, <3>4
    <3> QED
      BY <3>3, <3>4
  <2> QED
    BY <2>3, <2>4, <2>5
<1>4. DOMAIN r = 1 .. Len(s) - 1
  BY <1>3
<1>5. \A i \in 1 .. Len(s) - 1 : old(i) \in 1 .. Len(s) /\ old(i) # p /\ r[i] = s[old(i)]
  BY <1>1, <1>3
<1>6. \A i \in 1 .. Len(s) - 1, j \in 1 .. Len(s) - 1 : old(i) = old(j) => i = j
  BY <1>1
<1>7. IsInjective(r)
  <2> SUFFICES ASSUME NEW a \in 1 .. Len(s) - 1, NEW b \in 1 .. Len(s) - 1, r[a] = r[b]
               PROVE  a = b
    BY <1>4 DEF IsInjective
  <2>1. s[old(a)] = s[old(b)] /\ old(a) \in 1 .. Len(s) /\ old(b) \in 1 .. Len(s)
    BY <1>5
  <2>2. old(a) = old(b)
    BY <2>1, <1>1 DEF IsInjective
  <2> QED
    BY <2>2, <1>6
<1>8. ASSUME NEW j \in ToSet(s) \ {k}
      PROVE  /\ j \in ToSet(r)
             /\ PlaceIn(r, j) = IF PlaceIn(s, j) < p THEN PlaceIn(s, j) ELSE PlaceIn(s, j) - 1
             /\ PlaceIn(s, j) > p => After(r, j) = After(s, j)
  <2> DEFINE q == PlaceIn(s, j)
             n == IF q < p THEN q ELSE q - 1
  <2>1. q \in 1 .. Len(s) /\ s[q] = j /\ q # p
    BY PlaceFacts, <1>1
  <2> HIDE DEF q
  <2>2. n \in 1 .. Len(s) - 1 /\ old(n) = q
    BY <2>1, <1>1
  <2>3. r[n] = j
    BY <2>1, <2>2, <1>5
  <2>4. j \in ToSet(r) /\ PlaceIn(r, j) = n
    BY <2>2, <2>3, <1>3, <1>7, PlaceIs
  <2>5. ASSUME q > p PROVE After(r, j) = After(s, j)
    <3>1. n = q - 1
      BY <2>1, <2>5, <1>1
    <3>2. CASE q = Len(s)
      BY <2>4, <3>1, <3>2, <1>1, <1>3 DEF After, q
    <3>3. CASE q # Len(s)
      <4>1. q \in 1 .. Len(s) - 1 /\ n # Len(r) /\ old(q) = q + 1 /\ n + 1 = q
        BY <2>1, <2>5, <3>1, <3>3, <1>1, <1>3
      <4>2. r[n + 1] = s[q + 1]
        BY <4>1, <1>5
      <4> QED
        BY <2>4, <3>3, <4>1, <4>2 DEF After, q
    <3> QED
      BY <3>2, <3>3
  <2> QED
    BY <2>4, <2>5 DEF q
<1>9. ToSet(r) = ToSet(s) \ {k}
  <2>1. ASSUME NEW x \in ToSet(r)
        PROVE  x \in ToSet(s) \ {k}
    <3>1. PICK i \in 1 .. Len(s) - 1 : r[i] = x
      BY <1>4 DEF ToSet
    <3>2. x = s[old(i)] /\ old(i) \in 1 .. Len(s) /\ old(i) # p
      BY <3>1, <1>5
    <3>3. x # k
      BY <3>2, <1>1
    <3> QED
      BY <3>2, <3>3, <1>1 DEF ToSet
  <2> QED
    BY <2>1, <1>8
<1> QED
  BY <1>3, <1>7, <1>8, <1>9 DEF p

\* What follows a record on the list.
LEMMA NextFacts ==
  ASSUME UsbHotplugAssumption, TypeOK, NEW k \in Listed
  PROVE  /\ Place(k) = PlaceIn(hotplug_cbs, k) /\ Place(k) \in 1 .. Len(hotplug_cbs) /\ k \in Callbacks
         /\ NextOf(k) = After(hotplug_cbs, k)
         /\ NextOf(k) = None => Place(k) = Len(hotplug_cbs)
         /\ NextOf(k) # None => /\ NextOf(k) \in Listed /\ NextOf(k) # k
                                /\ PlaceIn(hotplug_cbs, NextOf(k)) = Place(k) + 1
<1>1. hotplug_cbs \in Seq(Callbacks) /\ IsInjective(hotplug_cbs)
  BY DEF TypeOK
<1>2. Place(k) = PlaceIn(hotplug_cbs, k)
  BY DEF Place, PlaceIn
<1>3. Place(k) \in 1 .. Len(hotplug_cbs) /\ k \in Callbacks
  BY <1>1, <1>2, PlaceFacts DEF Listed
<1>4. k # None
  BY <1>3 DEF UsbHotplugAssumption
<1>5. NextOf(k) = IF Place(k) = Len(hotplug_cbs) THEN None ELSE hotplug_cbs[Place(k) + 1]
  BY <1>4 DEF NextOf
<1>x. NextOf(k) = After(hotplug_cbs, k)
  BY <1>2, <1>5 DEF After
<1>6. CASE Place(k) = Len(hotplug_cbs)
  BY <1>2, <1>3, <1>5, <1>6, <1>x
<1>7. CASE Place(k) # Len(hotplug_cbs)
  <2>1. Place(k) + 1 \in 1 .. Len(hotplug_cbs)
    BY <1>1, <1>3, <1>7
  <2>2. hotplug_cbs[Place(k) + 1] \in Callbacks
    BY <1>1, <2>1
  <2>3. NextOf(k) \in Listed /\ NextOf(k) # None /\ PlaceIn(hotplug_cbs, NextOf(k)) = Place(k) + 1
    BY <1>1, <1>5, <1>7, <2>1, <2>2, PlaceIs DEF Listed, UsbHotplugAssumption
  <2>5. NextOf(k) # k
    BY <1>2, <1>3, <2>3
  <2> QED
    BY <1>2, <1>3, <1>x, <2>3, <2>5
<1> QED
  BY <1>6, <1>7

\* The first of the list.
LEMMA FirstFacts ==
  ASSUME UsbHotplugAssumption, TypeOK
  PROVE  /\ NextOf(None) = None => Listed = {}
         /\ NextOf(None) # None => NextOf(None) \in Listed /\ PlaceIn(hotplug_cbs, NextOf(None)) = 1
<1>1. hotplug_cbs \in Seq(Callbacks) /\ IsInjective(hotplug_cbs)
  BY DEF TypeOK
<1>2. NextOf(None) = IF 0 = Len(hotplug_cbs) THEN None ELSE hotplug_cbs[1]
  BY DEF NextOf
<1>3. CASE Len(hotplug_cbs) = 0
  <2>1. DOMAIN hotplug_cbs = {}
    BY <1>1, <1>3
  <2> QED
    BY <2>1, <1>2, <1>3 DEF Listed, ToSet
<1>4. CASE Len(hotplug_cbs) # 0
  <2>1. 1 \in 1 .. Len(hotplug_cbs)
    BY <1>1, <1>4
  <2>2. hotplug_cbs[1] \in Callbacks
    BY <1>1, <2>1
  <2>3. NextOf(None) \in Listed /\ NextOf(None) # None /\ PlaceIn(hotplug_cbs, NextOf(None)) = 1
    BY <1>1, <1>2, <1>4, <2>1, <2>2, PlaceIs DEF Listed, UsbHotplugAssumption
  <2> QED
    BY <2>3
<1> QED
  BY <1>3, <1>4

\* Two records have two places.
LEMMA PlacesDiffer ==
  ASSUME UsbHotplugAssumption, TypeOK, NEW j \in Listed, NEW k \in Listed, j # k
  PROVE  PlaceIn(hotplug_cbs, j) # PlaceIn(hotplug_cbs, k)
<1>1. hotplug_cbs \in Seq(Callbacks) /\ IsInjective(hotplug_cbs)
  BY DEF TypeOK
<1> QED
  BY <1>1, PlaceFacts DEF Listed

\* The walk comes to a record, or ends.
LEMMA VisitFacts ==
  ASSUME UsbHotplugAssumption, TypeOK, NEW k, k # None => k \in Listed, Visit(k)
  PROVE  /\ handler' \in Walk
         /\ k = None => handler' = Idle
         /\ k # None => /\ handler'.at = "visiting" /\ handler'.cb = k /\ handler'.next = NextOf(k)
                        /\ handler'.message = handler.message /\ handler'.ret = handler.ret
<1>1. CASE k = None
  <2>1. handler' = Idle
    BY <1>1 DEF Visit
  <2> QED
    BY <1>1, <2>1 DEF Idle, Walk, Messages
<1>2. CASE k # None
  <2>1. PICK n : n = NextOf(k)
    OBVIOUS
  <2>2. n \in Callbacks \cup {None} /\ k \in Callbacks
    BY <1>2, <2>1, NextFacts
  <2>3. handler' = [handler EXCEPT !.at = "visiting", !.cb = k, !.next = n]
    BY <1>2, <2>1 DEF Visit
  <2>4. handler \in Walk
    BY DEF TypeOK
  <2> QED
    BY <1>2, <2>1, <2>2, <2>3, <2>4 DEF Walk
<1> QED
  BY <1>1, <1>2

-----------------------------------------------------------------------------
(* Types. *)

\* A message at the end of the queue, and the first that is taken off.
LEMMA QueueTypes ==
  ASSUME TypeOK
  PROVE  /\ \A d \in Devices, e \in {"arrived", "left"} :
              Append(hotplug_msgs, Message(e, d)) \in Seq(Messages)
         /\ Append(hotplug_msgs, Message("none", None)) \in Seq(Messages)
         /\ hotplug_msgs # << >> =>
              /\ Head(hotplug_msgs) \in Messages /\ Tail(hotplug_msgs) \in Seq(Messages)
<1>1. hotplug_msgs \in Seq(Messages)
  BY DEF TypeOK
<1>2. \A d \in Devices, e \in {"arrived", "left"} : Message(e, d) \in Messages
  BY DEF Message, Messages
<1>3. Message("none", None) \in Messages
  BY DEF Messages
<1> HIDE DEF Messages, Message
<1> QED
  BY <1>1, <1>2, <1>3

\* TypeOK is inductive; that a record in a list is never put into it again is the list's invariant.
LEMMA TypeNext ==
  ASSUME UsbHotplugAssumption, TypeOK, ListInv, [Next]_vars
  PROVE  TypeOK'
<1>1. ASSUME NEW d \in Devices, Connect(d) \/ Arrived(d) \/ Disconnect(d) \/ Left(d) PROVE TypeOK'
  <2>1. hotplug_msgs' \in Seq(Messages)
    <3>1. \/ hotplug_msgs' = hotplug_msgs
          \/ \E e \in {"arrived", "left"} : hotplug_msgs' = Append(hotplug_msgs, Message(e, d))
      BY <1>1 DEF Connect, Arrived, Disconnect, Left
    <3>2. CASE hotplug_msgs' = hotplug_msgs
      BY <3>2 DEF TypeOK
    <3>3. ASSUME NEW e \in {"arrived", "left"}, hotplug_msgs' = Append(hotplug_msgs, Message(e, d))
          PROVE  hotplug_msgs' \in Seq(Messages)
      BY <3>3, QueueTypes
    <3> QED
      BY <3>1, <3>2, <3>3
  <2>2. life' \in [Devices -> {"out", "listed", "in", "unlisted", "gone"}]
    BY <1>1 DEF Connect, Arrived, Disconnect, Left, Moves, TypeOK
  <2> QED
    BY <1>1, <2>1, <2>2 DEF Connect, Arrived, Disconnect, Left, Others, TypeOK
<1>2. ASSUME NEW k \in Callbacks, Register(k) PROVE TypeOK'
  <2>1. k \notin ToSet(hotplug_cbs)
    BY <1>2 DEF Register, ListInv, RecordsInv, Listed
  <2>2. hotplug_cbs \in Seq(Callbacks) /\ IsInjective(hotplug_cbs) /\ hotplug_cbs' = Cons(k, hotplug_cbs)
    BY <1>2 DEF Register, TypeOK
  <2>3. hotplug_cbs' \in Seq(Callbacks) /\ IsInjective(hotplug_cbs')
    BY <2>1, <2>2, ConsFacts
  <2>4. record' \in [Callbacks -> {"none", "live", "needs_free", "freed"}]
        /\ pc' \in [Callbacks -> {"start", "list", "enumerate", "registered", "marked", "done", "mute"}]
    BY <1>2 DEF Register, Goto, TypeOK
  <2> QED
    BY <1>2, <2>3, <2>4 DEF Register, TypeOK
<1>3. ASSUME NEW k \in Callbacks, GetDeviceList(k) \/ Registered(k) PROVE TypeOK'
  <2>1. usb_devs \in SUBSET Devices
    BY DEF usb_devs
  <2>2. /\ devs' \in [Callbacks -> SUBSET Devices]
        /\ pc' \in [Callbacks -> {"start", "list", "enumerate", "registered", "marked", "done", "mute"}]
    <3>1. devs' = devs \/ devs' = [devs EXCEPT ![k] = usb_devs]
      BY <1>3 DEF GetDeviceList, Registered
    <3>2. pc' = [pc EXCEPT ![k] = "enumerate"] \/ pc' = [pc EXCEPT ![k] = "registered"]
      BY <1>3 DEF GetDeviceList, Registered, Goto
    <3> HIDE DEF usb_devs
    <3>3. devs' \in [Callbacks -> SUBSET Devices]
      BY <2>1, <3>1 DEF TypeOK
    <3> QED
      BY <3>2, <3>3 DEF TypeOK
  <2> QED
    BY <1>3, <2>2 DEF GetDeviceList, Registered, TypeOK
<1>4. ASSUME NEW k \in Callbacks, ListFails(k) \/ CallDeregister(k) PROVE TypeOK'
  <2>1. Deregister(k)
    BY <1>4 DEF ListFails, CallDeregister
  <2>2. record' = record \/ record' = [record EXCEPT ![k] = "needs_free"]
    BY <2>1 DEF Deregister, TypeOK
  <2>3. /\ record' \in [Callbacks -> {"none", "live", "needs_free", "freed"}]
        /\ pc' \in [Callbacks -> {"start", "list", "enumerate", "registered", "marked", "done", "mute"}]
    BY <2>1, <2>2 DEF Deregister, Goto, TypeOK
  <2> QED
    BY <2>1, <2>3 DEF Deregister, TypeOK
<1>5. ASSUME NEW k \in Callbacks, TellOfPresent(k) PROVE TypeOK'
  <2>1. PICK d \in devs[k] : devs' = [devs EXCEPT ![k] = @ \ {d}] /\ told' = Tell(k, "arrived", d)
    BY <1>5 DEF TellOfPresent
  <2>2. d \in Devices /\ devs' \in [Callbacks -> SUBSET Devices]
    BY <2>1 DEF TypeOK
  <2>3. told' \in [Callbacks -> [Devices -> {"nothing", "arrived", "left"}]]
    BY <2>1, <2>2 DEF Tell, TypeOK
  <2> QED
    BY <1>5, <2>2, <2>3 DEF TellOfPresent, TypeOK
<1>6. ASSUME NEW k \in Callbacks, Notify(k) PROVE TypeOK'
  <2>1. hotplug_msgs' \in Seq(Messages)
    BY <1>6, QueueTypes DEF Notify, TypeOK
  <2>2. pc' \in [Callbacks -> {"start", "list", "enumerate", "registered", "marked", "done", "mute"}]
    BY <1>6 DEF Notify, Goto, TypeOK
  <2> QED
    BY <1>6, <2>1, <2>2 DEF Notify, TypeOK
<1>7. CASE TakeMessage
  <2>1. handler' = [Idle EXCEPT !.at = "taken", !.message = Head(hotplug_msgs)] /\ Head(hotplug_msgs) \in Messages
        /\ hotplug_msgs' \in Seq(Messages)
    BY <1>7, QueueTypes DEF TakeMessage
  <2>2. handler' \in Walk
    BY <2>1 DEF Idle, Walk
  <2> QED
    BY <1>7, <2>1, <2>2 DEF TakeMessage, TypeOK
<1>8. CASE BeginWalk
  <2>1. handler' \in Walk
    BY <1>8, FirstFacts, VisitFacts DEF BeginWalk
  <2> QED
    BY <1>8, <2>1 DEF BeginWalk, TypeOK
<1>9. CASE Match
  <2>1. handler' \in Walk
    <3>1. \/ handler' = [handler EXCEPT !.at = "calling"]
          \/ \E ret \in {0, 1} : handler' = [handler EXCEPT !.at = "matched", !.ret = ret]
      BY <1>9 DEF Match
    <3>2. handler \in Walk
      BY DEF TypeOK
    <3>3. ASSUME NEW ret \in {0, 1}, handler' = [handler EXCEPT !.at = "matched", !.ret = ret]
          PROVE  handler' \in Walk
      BY <3>2, <3>3 DEF Walk
    <3>4. CASE handler' = [handler EXCEPT !.at = "calling"]
      BY <3>2, <3>4 DEF Walk
    <3> QED
      BY <3>1, <3>3, <3>4
  <2>2. told' \in [Callbacks -> [Devices -> {"nothing", "arrived", "left"}]]
    <3>1. CASE ~Matches(handler.cb, handler.message.event, handler.message.device)
      BY <1>9, <3>1 DEF Match, TypeOK
    <3>2. CASE Matches(handler.cb, handler.message.event, handler.message.device)
      <4>1. handler.cb \in Callbacks
        BY <1>9, NextFacts DEF Match, ListInv, WalkInv, Walking
      <4>2. handler.message.event \in {"arrived", "left"} /\ handler.message.device \in Devices
        BY <3>2, <4>1 DEF Matches, UsbHotplugAssumption
      <4>3. PICK e, d : e = handler.message.event /\ d = handler.message.device
        OBVIOUS
      <4>4. told' = [told EXCEPT ![handler.cb][d] = e]
        BY <1>9, <3>2, <4>3 DEF Match, Tell
      <4>5. told[handler.cb] \in [Devices -> {"nothing", "arrived", "left"}]
        BY <4>1 DEF TypeOK
      <4>6. [told[handler.cb] EXCEPT ![d] = e] \in [Devices -> {"nothing", "arrived", "left"}]
        BY <4>2, <4>3, <4>5
      <4> QED
        BY <4>1, <4>4, <4>6 DEF TypeOK
    <3> QED
      BY <3>1, <3>2
  <2> QED
    BY <1>9, <2>1, <2>2 DEF Match, TypeOK
<1>10. CASE Return
  <2>1. PICK ret \in {0, 1} : handler' = [handler EXCEPT !.at = "matched", !.ret = ret]
    BY <1>10 DEF Return
  <2>2. handler' \in Walk
    BY <2>1 DEF TypeOK, Walk
  <2> QED
    BY <1>10, <2>2 DEF Return, TypeOK
<1>11. CASE Step
  <2>1. handler.cb \in Listed /\ handler.next = NextOf(handler.cb)
    BY <1>11, NextFacts DEF Step, ListInv, WalkInv, Walking
  <2>2. handler' \in Walk
    BY <1>11, <2>1, NextFacts, VisitFacts DEF Step
  <2>3. hotplug_cbs' \in Seq(Callbacks) /\ IsInjective(hotplug_cbs')
    <3>1. hotplug_cbs \in Seq(Callbacks) /\ IsInjective(hotplug_cbs)
      BY DEF TypeOK
    <3>2. hotplug_cbs' = hotplug_cbs \/ hotplug_cbs' = RemoveAt(hotplug_cbs, PlaceIn(hotplug_cbs, handler.cb))
      BY <1>11, <2>1, NextFacts DEF Step, Without
    <3> QED
      BY <2>1, <3>1, <3>2, RemoveFacts DEF Listed
  <2>4. handler.cb \in Callbacks
    BY <2>1, NextFacts
  <2>5. record' \in [Callbacks -> {"none", "live", "needs_free", "freed"}]
    BY <1>11, <2>4 DEF Step, TypeOK
  <2> QED
    BY <1>11, <2>2, <2>3, <2>5 DEF Step, TypeOK
<1>12. CASE Exit
  <2>1. handler' \in Walk
    BY <1>12 DEF Exit, Idle, Walk
  <2>2. hotplug_cbs' = << >> /\ IsInjective(<< >>) /\ << >> \in Seq(Callbacks) /\ << >> \in Seq(Messages)
    BY <1>12 DEF Exit, IsInjective
  <2>3. record' \in [Callbacks -> {"none", "live", "needs_free", "freed"}]
    BY <1>12 DEF Exit, TypeOK
  <2> QED
    BY <1>12, <2>1, <2>2, <2>3 DEF Exit, TypeOK
<1>13. CASE UNCHANGED vars
  BY <1>13 DEF vars, TypeOK
<1> QED
  BY <1>1, <1>2, <1>3, <1>4, <1>5, <1>6, <1>7, <1>8, <1>9, <1>10, <1>11, <1>12, <1>13
  DEF Next, Bus, Handle, Proceed

-----------------------------------------------------------------------------
(* The list and the walk. *)

\* A registration puts its record at the head of the list.
LEMMA RegisterFacts ==
  ASSUME UsbHotplugAssumption, TypeOK, ListInv, NEW k \in Callbacks, Register(k)
  PROVE  /\ k \notin Listed /\ Listed' = Listed \cup {k}
         /\ \A j \in Listed : /\ PlaceIn(hotplug_cbs', j) = PlaceIn(hotplug_cbs, j) + 1
                            /\ After(hotplug_cbs', j) = After(hotplug_cbs, j)
<1>1. k \notin Listed
  BY DEF Register, ListInv, RecordsInv
<1>2. hotplug_cbs \in Seq(Callbacks) /\ IsInjective(hotplug_cbs) /\ hotplug_cbs' = Cons(k, hotplug_cbs)
  BY DEF Register, TypeOK
<1>3. k \notin ToSet(hotplug_cbs)
  BY <1>1 DEF Listed
<1>4. /\ ToSet(hotplug_cbs') = ToSet(hotplug_cbs) \cup {k}
      /\ \A j \in ToSet(hotplug_cbs) : /\ PlaceIn(hotplug_cbs', j) = PlaceIn(hotplug_cbs, j) + 1
                                    /\ After(hotplug_cbs', j) = After(hotplug_cbs, j)
  BY <1>2, <1>3, ConsFacts
<1> QED
  BY <1>1, <1>4 DEF Listed

\* The walk goes on to what follows, whether or not the record it leaves is freed.
LEMMA StepFacts ==
  ASSUME UsbHotplugAssumption, TypeOK, ListInv, Step
  PROVE  LET c == handler.cb  n == handler.next IN
         /\ c \in Listed /\ c \in Callbacks
         /\ \/ handler.ret = 1 /\ Listed' = Listed \ {c} /\ record' = [record EXCEPT ![c] = "freed"]
            \/ handler.ret # 1 /\ UNCHANGED <<hotplug_cbs, record>>
         /\ n = None => handler' = Idle
         /\ n # None => /\ handler'.at = "visiting" /\ handler'.cb = n /\ handler'.message = handler.message
                        /\ n \in Listed' /\ handler'.next = After(hotplug_cbs', n)
         /\ \A j \in Listed : PlaceIn(hotplug_cbs, c) < PlaceIn(hotplug_cbs, j) =>
              /\ n # None /\ PlaceIn(hotplug_cbs', n) <= PlaceIn(hotplug_cbs', j)
<1> DEFINE c == handler.cb
           n == handler.next
           p(j) == PlaceIn(hotplug_cbs, j)
           q(j) == PlaceIn(hotplug_cbs', j)
<1>1. c \in Listed /\ n = NextOf(c) /\ c \in Callbacks /\ Place(c) = p(c)
  BY NextFacts DEF Step, ListInv, WalkInv, Walking
<1>2. hotplug_cbs \in Seq(Callbacks) /\ IsInjective(hotplug_cbs)
  BY DEF TypeOK
<1>3. \A j \in Listed : p(j) \in 1 .. Len(hotplug_cbs) /\ j \in Callbacks
  BY <1>2, PlaceFacts DEF Listed
<1>4. /\ n = None => p(c) = Len(hotplug_cbs)
      /\ n # None => n \in Listed /\ n # c /\ p(n) = p(c) + 1 /\ NextOf(n) = After(hotplug_cbs, n)
  BY <1>1, NextFacts
<1>5. /\ n = None => handler' = Idle
      /\ n # None => handler'.at = "visiting" /\ handler'.cb = n /\ handler'.message = handler.message
                     /\ handler'.next = NextOf(n)
  BY <1>4, VisitFacts DEF Step
<1>6. CASE handler.ret = 1
  <2>1. hotplug_cbs' = RemoveAt(hotplug_cbs, p(c)) /\ record' = [record EXCEPT ![c] = "freed"]
    BY <1>1, <1>6 DEF Step, Without
  <2>2. /\ Listed' = Listed \ {c}
        /\ \A j \in Listed \ {c} :
             /\ q(j) = IF p(j) < p(c) THEN p(j) ELSE p(j) - 1
             /\ p(j) > p(c) => After(hotplug_cbs', j) = After(hotplug_cbs, j)
    BY <1>1, <1>2, <2>1, RemoveFacts DEF Listed
  <2> HIDE DEF c, n, p, q
  <2>3. n # None => n \in Listed' /\ After(hotplug_cbs', n) = After(hotplug_cbs, n)
    BY <1>1, <1>3, <1>4, <2>2
  <2>4. ASSUME NEW j \in Listed, p(c) < p(j) PROVE n # None /\ q(n) <= q(j)
    <3>1. n # None
      BY <1>3, <1>4, <2>4
    <3>2. p(j) \in Int /\ p(c) \in Int /\ p(n) = p(c) + 1 /\ n \in Listed \ {c} /\ j \in Listed \ {c}
      BY <1>1, <1>3, <1>4, <2>4, <3>1
    <3>3. q(j) = p(j) - 1 /\ q(n) = p(n) - 1
      BY <2>2, <2>4, <3>2
    <3> QED
      BY <2>4, <3>1, <3>2, <3>3
  <2> QED
    BY <1>1, <1>4, <1>5, <1>6, <2>1, <2>2, <2>3, <2>4 DEF c, n, p, q
<1>7. CASE handler.ret # 1
  <2>1. UNCHANGED <<hotplug_cbs, record>> /\ Listed' = Listed
    BY <1>7 DEF Step, Listed
  <2> HIDE DEF c, n, p
  <2>2. ASSUME NEW j \in Listed, p(c) < p(j) PROVE n # None /\ p(n) <= p(j)
    <3>1. p(j) \in Int /\ p(c) \in Int /\ p(j) <= Len(hotplug_cbs)
      BY <1>1, <1>3
    <3> QED
      BY <1>4, <2>2, <3>1
  <2> QED
    BY <1>1, <1>4, <1>5, <1>7, <2>1, <2>2 DEF c, n, p
<1> QED
  BY <1>6, <1>7

\* A record that is marked is on the list, or its mark is not made.
LEMMA DeregisterFacts ==
  ASSUME UsbHotplugAssumption, TypeOK, ListInv, NEW k \in Callbacks, ListFails(k) \/ CallDeregister(k)
  PROVE  /\ pc[k] \in {"list", "registered"} /\ pc' = [pc EXCEPT ![k] = "marked"]
         /\ record' = [record EXCEPT ![k] = record'[k]] /\ record[k] # "none"
         /\ k \in Listed => record'[k] = "needs_free"
         /\ k \notin Listed => record'[k] = record[k]
         /\ UNCHANGED <<life, hotplug_msgs, hotplug_cbs, devs, handler, told>>
<1>1. Deregister(k) /\ pc[k] \in {"list", "registered"}
  BY DEF ListFails, CallDeregister
<1>2. record' = [record EXCEPT ![k] = IF k \in Listed THEN "needs_free" ELSE record[k]]
  BY <1>1 DEF Deregister, Listed
<1>3. record \in [Callbacks -> {"none", "live", "needs_free", "freed"}]
  BY DEF TypeOK
<1>4. record[k] # "none"
  BY <1>1 DEF ListInv, RecordsInv
<1> QED
  BY <1>1, <1>2, <1>3, <1>4 DEF Deregister, Goto

\* The walk calls a record, or goes past it.
LEMMA MatchFacts ==
  ASSUME TypeOK, Match
  PROVE  LET k == handler.cb  m == handler.message IN
         /\ handler'.at \in {"calling", "matched"} /\ handler'.cb = k /\ handler'.next = handler.next
         /\ handler'.message = m
         /\ handler'.at = "matched" /\ handler'.ret = 1 => record[k] = "needs_free"
         /\ told' = IF Matches(k, m.event, m.device) THEN Tell(k, m.event, m.device) ELSE told
<1> DEFINE k == handler.cb
           m == handler.message
<1>1. handler \in Walk
  BY DEF TypeOK
<1>2. CASE Matches(k, m.event, m.device)
  <2>1. handler' = [handler EXCEPT !.at = "calling"] /\ told' = Tell(k, m.event, m.device)
    BY <1>2 DEF Match
  <2>2. /\ handler'.at = "calling" /\ handler'.cb = k /\ handler'.next = handler.next
        /\ handler'.message = m
    BY <1>1, <2>1 DEF Walk
  <2> QED
    BY <1>2, <2>1, <2>2
<1>3. CASE ~Matches(k, m.event, m.device)
  <2>1. PICK r : r = IF record[k] = "needs_free" THEN 1 ELSE 0
    OBVIOUS
  <2>2. handler' = [handler EXCEPT !.at = "matched", !.ret = r] /\ told' = told
    BY <1>3, <2>1 DEF Match
  <2>3. /\ handler'.at = "matched" /\ handler'.cb = k /\ handler'.next = handler.next
        /\ handler'.message = m /\ handler'.ret = r
    BY <1>1, <2>2 DEF Walk
  <2> QED
    BY <1>3, <2>1, <2>2, <2>3
<1> QED
  BY <1>2, <1>3

\* ListInv is inductive, as long as no callback returns 1 before its registration has returned.
LEMMA ListNext ==
  ASSUME UsbHotplugAssumption, ~Hasty, TypeOK, ListInv, [Next]_vars
  PROVE  ListInv'
<1> USE DEF ListInv
<1>1. ASSUME NEW d \in Devices, Connect(d) \/ Arrived(d) \/ Disconnect(d) \/ Left(d) PROVE ListInv'
  <2>1. UNCHANGED <<hotplug_cbs, record, pc, handler>> /\ handler.at # "exited"
    BY <1>1 DEF Connect, Arrived, Disconnect, Left, Moves, Ended, Others
  <2> QED
    BY <2>1 DEF RecordsInv, WalkInv, EndInv, Listed, Walking
<1>2. ASSUME NEW k \in Callbacks, Register(k) PROVE ListInv'
  <2>1. /\ handler' = handler /\ handler.at # "exited" /\ k \notin Listed
        /\ record' = [record EXCEPT ![k] = "live"] /\ pc[k] = "start" /\ record[k] = "none"
        /\ pc' = [pc EXCEPT ![k] = pc'[k]] /\ pc'[k] \in {"list", "registered"}
    BY <1>2, RegisterFacts DEF Register, Ended, Goto, TypeOK, RecordsInv
  <2>2. RecordsInv'
    <3>1. \A j \in Callbacks : j # k => record'[j] = record[j] /\ pc'[j] = pc[j]
      BY <2>1 DEF TypeOK
    <3>2. record'[k] = "live"
      BY <2>1 DEF TypeOK
    <3>3. Listed' = Listed \cup {k}
      BY <1>2, RegisterFacts
    <3> QED
      BY <2>1, <3>1, <3>2, <3>3 DEF RecordsInv
  <2>3. WalkInv'
    <3>1. Walking => /\ handler.cb \in Listed' /\ handler.cb # k
                     /\ After(hotplug_cbs', handler.cb) = After(hotplug_cbs, handler.cb)
      BY <1>2, <2>1, RegisterFacts DEF WalkInv
    <3>2. handler.at = "matched" => pc'[handler.cb] = pc[handler.cb]
      <4>1. handler.at = "matched" => handler.cb \in Callbacks /\ handler.cb # k
        BY <3>1, NextFacts DEF Walking, WalkInv
      <4> QED
        BY <2>1, <4>1 DEF TypeOK
    <3> QED
      BY <2>1, <3>1, <3>2 DEF WalkInv, Walking
  <2> QED
    BY <2>1, <2>2, <2>3 DEF EndInv
<1>3. ASSUME NEW k \in Callbacks, GetDeviceList(k) \/ Registered(k) \/ TellOfPresent(k) \/ Notify(k)
      PROVE  ListInv'
  <2>1. /\ UNCHANGED <<hotplug_cbs, record, handler>>
        /\ \/ pc' = pc
           \/ pc[k] = "list" /\ pc' = [pc EXCEPT ![k] = "enumerate"]
           \/ pc[k] = "enumerate" /\ pc' = [pc EXCEPT ![k] = "registered"]
           \/ pc[k] = "marked" /\ \E where \in {"done", "mute"} : pc' = [pc EXCEPT ![k] = where]
        /\ handler.at = "exited" => UNCHANGED hotplug_msgs
    BY <1>3 DEF GetDeviceList, Registered, TellOfPresent, Notify, Goto, EndInv
  <2>2. RecordsInv'
    BY <2>1 DEF RecordsInv, Listed, TypeOK
  <2>3. WalkInv'
    <3>1. Walking => handler.cb \in Callbacks
      BY NextFacts DEF WalkInv
    <3>2. Walking' = Walking /\ Listed' = Listed
      BY <2>1 DEF Walking, Listed
    <3>3. Walking /\ pc'[handler.cb] \in {"list", "enumerate"} => pc[handler.cb] \in {"list", "enumerate"}
      BY <2>1, <3>1 DEF TypeOK
    <3> QED
      BY <2>1, <3>2, <3>3 DEF WalkInv, Walking
  <2>4. handler.at = "exited" => pc' = pc
    <3>1. handler.at # "exited" \/ pc[k] \in {"start", "registered", "done", "mute"}
      BY DEF EndInv
    <3> QED
      BY <2>1, <3>1
  <2> QED
    BY <2>1, <2>2, <2>3, <2>4 DEF EndInv
<1>4. ASSUME NEW k \in Callbacks, ListFails(k) \/ CallDeregister(k) PROVE ListInv'
  <2>1. /\ pc[k] \in {"list", "registered"} /\ pc' = [pc EXCEPT ![k] = "marked"]
        /\ record' = [record EXCEPT ![k] = record'[k]] /\ record[k] # "none"
        /\ k \in Listed => record'[k] = "needs_free"
        /\ k \notin Listed => record'[k] = record[k]
        /\ UNCHANGED <<hotplug_msgs, hotplug_cbs, handler>>
    BY <1>4, DeregisterFacts
  <2>0. handler.at # "exited"
    BY <1>4 DEF ListFails, CallDeregister, Ended, EndInv
  <2>2. RecordsInv'
    <3>1. \A j \in Callbacks : j # k => record'[j] = record[j] /\ pc'[j] = pc[j]
      BY <2>1 DEF TypeOK
    <3>2. pc'[k] = "marked" /\ Listed' = Listed
      BY <2>1 DEF TypeOK, Listed
    <3> QED
      BY <2>1, <3>1, <3>2 DEF RecordsInv
  <2>3. WalkInv'
    <3>1. Walking => handler.cb \in Callbacks
      BY NextFacts DEF WalkInv
    <3>2. Walking' = Walking /\ Listed' = Listed
      BY <2>1 DEF Walking, Listed
    <3>3. Walking /\ pc'[handler.cb] \in {"list", "enumerate"} => pc[handler.cb] \in {"list", "enumerate"}
      BY <2>1, <3>1 DEF TypeOK
    <3> QED
      BY <2>1, <3>2, <3>3 DEF WalkInv, Walking
  <2> QED
    BY <2>0, <2>1, <2>2, <2>3 DEF EndInv
<1>5. CASE TakeMessage
  <2>1. UNCHANGED <<hotplug_cbs, record, pc>> /\ handler'.at = "taken"
    BY <1>5 DEF TakeMessage, Idle
  <2> QED
    BY <2>1 DEF RecordsInv, WalkInv, EndInv, Walking, Listed
<1>6. CASE BeginWalk
  <2>1. UNCHANGED <<hotplug_cbs, record, pc>> /\ Visit(NextOf(None))
    BY <1>6 DEF BeginWalk
  <2>2. \/ handler' = Idle
        \/ /\ handler'.at = "visiting" /\ handler'.cb \in Listed
           /\ handler'.next = After(hotplug_cbs, handler'.cb)
    BY <2>1, FirstFacts, VisitFacts, NextFacts
  <2> QED
    BY <2>1, <2>2 DEF RecordsInv, WalkInv, EndInv, Walking, Listed, Idle
<1>7. CASE Match
  <2>1. UNCHANGED <<hotplug_cbs, record, pc>> /\ handler.cb \in Listed /\ handler.at = "visiting"
    BY <1>7 DEF Match, WalkInv, Walking
  <2>2. /\ handler'.at \in {"calling", "matched"} /\ handler'.cb = handler.cb /\ handler'.next = handler.next
        /\ handler'.at = "matched" /\ handler'.ret = 1 => record[handler.cb] = "needs_free"
    BY <1>7, MatchFacts
  <2>3. record[handler.cb] = "needs_free" => pc[handler.cb] \notin {"list", "enumerate"}
    BY <2>1, NextFacts DEF RecordsInv
  <2> QED
    BY <2>1, <2>2, <2>3 DEF RecordsInv, WalkInv, EndInv, Walking, Listed
<1>8. CASE Return
  <2>1. PICK ret \in {0, 1} :
          /\ ret = 1 => pc[handler.cb] \notin {"list", "enumerate"}
          /\ handler' = [handler EXCEPT !.at = "matched", !.ret = ret]
    BY <1>8 DEF Return
  <2>2. UNCHANGED <<hotplug_cbs, record, pc>> /\ handler.at = "calling"
    BY <1>8 DEF Return
  <2>3. handler'.at = "matched" /\ handler'.ret = ret /\ handler'.cb = handler.cb /\ handler'.next = handler.next
    BY <2>1 DEF TypeOK, Walk
  <2> QED
    BY <2>1, <2>2, <2>3 DEF RecordsInv, WalkInv, EndInv, Walking, Listed
<1>9. CASE Step
  <2> DEFINE c == handler.cb
             n == handler.next
  <2>1. /\ c \in Listed /\ c \in Callbacks
        /\ \/ handler.ret = 1 /\ Listed' = Listed \ {c} /\ record' = [record EXCEPT ![c] = "freed"]
           \/ handler.ret # 1 /\ UNCHANGED <<hotplug_cbs, record>>
        /\ n = None => handler' = Idle
        /\ n # None => /\ handler'.at = "visiting" /\ handler'.cb = n
                       /\ n \in Listed' /\ handler'.next = After(hotplug_cbs', n)
    BY <1>9, StepFacts
  <2>2. pc' = pc /\ (handler.ret = 1 => pc[c] \notin {"list", "enumerate"})
    BY <1>9 DEF Step, WalkInv
  <2>3. RecordsInv'
    <3>1. CASE handler.ret # 1
      BY <2>1, <2>2, <3>1 DEF RecordsInv, Listed
    <3>2. CASE handler.ret = 1
      <4>1. \A j \in Callbacks : record'[j] = IF j = c THEN "freed" ELSE record[j]
        BY <2>1, <3>2 DEF TypeOK
      <4>2. record[c] # "none" /\ Listed' = Listed \ {c}
        BY <2>1, <3>2 DEF RecordsInv
      <4> QED
        BY <2>1, <2>2, <3>2, <4>1, <4>2 DEF RecordsInv
    <3> QED
      BY <3>1, <3>2
  <2>4. handler'.at \notin {"matched", "exited"} /\ (Walking' => n # None)
    BY <2>1 DEF Idle, Walking
  <2> QED
    BY <2>1, <2>3, <2>4 DEF WalkInv, EndInv
<1>10. CASE Exit
  <2>1. /\ handler'.at = "exited" /\ hotplug_cbs' = << >> /\ hotplug_msgs' = << >> /\ pc' = pc
        /\ \A k \in Callbacks : record'[k] = IF k \in Listed THEN "freed" ELSE record[k]
        /\ \A k \in Callbacks : pc[k] \in {"start", "registered", "done", "mute"}
    BY <1>10 DEF Exit, Idle, Listed
  <2>2. Listed' = {}
    BY <2>1 DEF Listed, ToSet
  <2> QED
    BY <2>1, <2>2 DEF RecordsInv, WalkInv, EndInv, Walking
<1>11. CASE UNCHANGED vars
  BY <1>11 DEF vars, RecordsInv, WalkInv, EndInv, Walking, Listed
<1> QED
  BY <1>1, <1>2, <1>3, <1>4, <1>5, <1>6, <1>7, <1>8, <1>9, <1>10, <1>11
  DEF Next, Bus, Handle, Proceed

\* QuietInv is inductive: one thread does one thing at a time.
LEMMA QuietNext ==
  ASSUME UsbHotplugAssumption, TypeOK, ListInv, QuietInv, [Next]_vars
  PROVE  QuietInv'
<1>1. ASSUME NEW d \in Devices, Connect(d) \/ Arrived(d) \/ Disconnect(d) \/ Left(d) PROVE QuietInv'
  BY <1>1 DEF Connect, Arrived, Disconnect, Left, Others, QuietInv, Nested
<1>2. ASSUME NEW k \in Callbacks, Register(k) \/ CallDeregister(k) PROVE QuietInv'
  <2>1. /\ handler' = handler /\ pc' = [pc EXCEPT ![k] = pc'[k]]
        /\ k \in Inside => handler.at \in {"idle", "calling"}
    BY <1>2 DEF Register, CallDeregister, Deregister, MayCall, Goto, TypeOK
  <2>2. k \notin Inside => Nested' = Nested
    BY <2>1 DEF Nested, UsbHotplugAssumption, TypeOK
  <2> QED
    BY <2>1, <2>2 DEF QuietInv
<1>3. ASSUME NEW k \in Callbacks, Proceed(k) PROVE QuietInv'
  <2>1. handler' = handler /\ (pc' = pc \/ (pc[k] \in {"list", "enumerate", "marked"} /\ pc' = [pc EXCEPT ![k] = pc'[k]]))
    BY <1>3 DEF Proceed, GetDeviceList, ListFails, Deregister, TellOfPresent, Registered, Notify, Goto, TypeOK
  <2>2. Nested = {} => Nested' = {}
    BY <2>1 DEF Nested, UsbHotplugAssumption, TypeOK
  <2> QED
    BY <2>1, <2>2 DEF QuietInv
<1>4. CASE TakeMessage \/ Return
  BY <1>4 DEF TakeMessage, Return, MayHandle, Nested, QuietInv
<1>5. CASE BeginWalk \/ Match \/ Step
  <2>1. handler.at \notin {"idle", "calling"} /\ pc' = pc
    BY <1>5 DEF BeginWalk, Match, Step
  <2> QED
    BY <2>1 DEF QuietInv, Nested
<1>6. CASE Exit
  BY <1>6 DEF Exit, QuietInv, Nested, UsbHotplugAssumption
<1>7. CASE UNCHANGED vars
  BY <1>7 DEF vars, QuietInv, Nested
<1> QED
  BY <1>1, <1>2, <1>3, <1>4, <1>5, <1>6, <1>7 DEF Next, Bus, Handle

-----------------------------------------------------------------------------
(* Messages. *)

\* What a queue holds and in which order, when a message is put at its end.
LEMMA AppendFacts ==
  ASSUME NEW S, NEW s \in Seq(S), NEW x \in S, NEW r, r = Append(s, x)
  PROVE  /\ ToSet(r) = ToSet(s) \cup {x}
         /\ \A m, n : Ordered(s, m, n) /\ m # n /\ (x = m => n \notin ToSet(s)) => Ordered(r, m, n)
<1>1. /\ DOMAIN s = 1 .. Len(s) /\ DOMAIN r = 1 .. Len(s) + 1 /\ Len(s) \in Nat
      /\ r[Len(s) + 1] = x /\ \A i \in 1 .. Len(s) : r[i] = s[i]
  OBVIOUS
<1>2. ASSUME NEW y PROVE y \in ToSet(r) <=> y \in ToSet(s) \cup {x}
  <2>1. ASSUME y \in ToSet(r) PROVE y \in ToSet(s) \cup {x}
    <3>1. PICK i \in 1 .. Len(s) + 1 : r[i] = y
      BY <1>1, <2>1 DEF ToSet
    <3>2. i = Len(s) + 1 \/ i \in 1 .. Len(s)
      BY <1>1
    <3> QED
      BY <1>1, <3>1, <3>2 DEF ToSet
  <2>2. ASSUME y \in ToSet(s) PROVE y \in ToSet(r)
    <3>1. PICK i \in 1 .. Len(s) : s[i] = y
      BY <1>1, <2>2 DEF ToSet
    <3>2. i \in 1 .. Len(s) + 1 /\ r[i] = y
      BY <1>1, <3>1
    <3> QED
      BY <1>1, <3>2 DEF ToSet
  <2>3. x \in ToSet(r)
    BY <1>1 DEF ToSet
  <2> QED
    BY <2>1, <2>2, <2>3
<1>3. ASSUME NEW m, NEW n, Ordered(s, m, n), m # n, x = m => n \notin ToSet(s) PROVE Ordered(r, m, n)
  <2> SUFFICES ASSUME NEW i \in 1 .. Len(s) + 1, NEW j \in 1 .. Len(s) + 1, r[i] = m, r[j] = n
               PROVE  i < j
    BY <1>1 DEF Ordered
  <2>1. CASE j = Len(s) + 1
    <3>1. i # Len(s) + 1
      BY <1>1, <1>3, <2>1
    <3> QED
      BY <1>1, <2>1, <3>1
  <2>2. CASE j \in 1 .. Len(s)
    <3>1. s[j] = n /\ n \in ToSet(s)
      BY <1>1, <2>2 DEF ToSet
    <3>2. i # Len(s) + 1
      BY <1>1, <1>3, <3>1
    <3>3. i \in 1 .. Len(s) /\ s[i] = m
      BY <1>1, <3>2
    <3> QED
      BY <1>1, <1>3, <2>2, <3>1, <3>3 DEF Ordered
  <2> QED
    BY <1>1, <2>1, <2>2
<1> QED
  BY <1>2, <1>3

\* What a queue holds and in which order, when the first message is taken off.
LEMMA TailFacts ==
  ASSUME NEW S, NEW s \in Seq(S), s # << >>, NEW r, r = Tail(s)
  PROVE  /\ ToSet(s) = ToSet(r) \cup {Head(s)}
         /\ \A m, n : Ordered(s, m, n) => Ordered(r, m, n)
         /\ \A m, n : Ordered(s, m, n) /\ Head(s) = n => m \notin ToSet(s)
<1>1. /\ DOMAIN s = 1 .. Len(s) /\ DOMAIN r = 1 .. Len(s) - 1 /\ Len(s) \in Nat \ {0}
      /\ Head(s) = s[1] /\ \A i \in 1 .. Len(s) - 1 : r[i] = s[i + 1]
  OBVIOUS
<1>2. ASSUME NEW y PROVE y \in ToSet(s) <=> y \in ToSet(r) \cup {Head(s)}
  <2>1. ASSUME y \in ToSet(s) PROVE y \in ToSet(r) \cup {Head(s)}
    <3>1. PICK i \in 1 .. Len(s) : s[i] = y
      BY <1>1, <2>1 DEF ToSet
    <3>2. i = 1 \/ (i - 1 \in 1 .. Len(s) - 1 /\ i - 1 + 1 = i)
      BY <1>1
    <3>3. CASE i = 1
      BY <1>1, <3>1, <3>3
    <3>4. CASE i # 1
      BY <1>1, <3>1, <3>2, <3>4 DEF ToSet
    <3> QED
      BY <3>3, <3>4
  <2>2. ASSUME y \in ToSet(r) PROVE y \in ToSet(s)
    <3>1. PICK i \in 1 .. Len(s) - 1 : r[i] = y
      BY <1>1, <2>2 DEF ToSet
    <3>2. i + 1 \in 1 .. Len(s) /\ s[i + 1] = y
      BY <1>1, <3>1
    <3> QED
      BY <1>1, <3>2 DEF ToSet
  <2>3. Head(s) \in ToSet(s)
    BY <1>1 DEF ToSet
  <2> QED
    BY <2>1, <2>2, <2>3
<1>3. ASSUME NEW m, NEW n, Ordered(s, m, n) PROVE Ordered(r, m, n)
  <2> SUFFICES ASSUME NEW i \in 1 .. Len(s) - 1, NEW j \in 1 .. Len(s) - 1, r[i] = m, r[j] = n
               PROVE  i < j
    BY <1>1 DEF Ordered
  <2>1. i + 1 \in 1 .. Len(s) /\ j + 1 \in 1 .. Len(s) /\ s[i + 1] = m /\ s[j + 1] = n
    BY <1>1
  <2>2. i + 1 < j + 1
    BY <1>1, <1>3, <2>1 DEF Ordered
  <2> QED
    BY <2>2
<1>4. ASSUME NEW m, NEW n, Ordered(s, m, n), Head(s) = n PROVE m \notin ToSet(s)
  <2> SUFFICES ASSUME NEW i \in 1 .. Len(s), s[i] = m PROVE FALSE
    BY <1>1 DEF ToSet
  <2>1. 1 \in 1 .. Len(s) /\ s[1] = n
    BY <1>1, <1>4
  <2>2. i < 1
    BY <1>1, <1>4, <2>1 DEF Ordered
  <2> QED
    BY <2>2
<1> QED
  BY <1>2, <1>3, <1>4

\* Two messages are about different things.
LEMMA MessageFacts ==
  /\ \A d, c, e, f : Message(e, d) = Message(f, c) <=> e = f /\ d = c
  /\ \A d \in Devices, e \in {"arrived", "left"} : Message(e, d) \in Messages
  /\ Message("none", None) \in Messages
  /\ \A d, e \in {"arrived", "left"} : Message("none", None) # Message(e, d)
  BY DEF Message, Messages

\* A message is put at the end of the queue.
LEMMA SentAppend ==
  ASSUME TypeOK, NEW m \in Messages, hotplug_msgs' = Append(hotplug_msgs, m)
  PROVE  /\ \A d, e : Sent(d, e)' <=> Sent(d, e) \/ m = Message(e, d)
         /\ \A d : InOrder(d) /\ (m = Message("arrived", d) => ~Sent(d, "left")) => InOrder(d)'
<1>1. hotplug_msgs \in Seq(Messages)
  BY DEF TypeOK
<1>2. /\ ToSet(hotplug_msgs') = ToSet(hotplug_msgs) \cup {m}
      /\ \A a, b : Ordered(hotplug_msgs, a, b) /\ a # b /\ (m = a => b \notin ToSet(hotplug_msgs))
                   => Ordered(hotplug_msgs', a, b)
  BY <1>1, AppendFacts
<1>3. \A d : Message("arrived", d) # Message("left", d)
  BY MessageFacts
<1> QED
  BY <1>2, <1>3 DEF Sent, InOrder

\* The first message is taken off.
LEMMA TakeFacts ==
  ASSUME TypeOK, TakeMessage
  PROVE  /\ handler'.at = "taken" /\ handler.at = "idle"
         /\ \A d, e : /\ Sent(d, e) <=> Sent(d, e)' \/ Held(d, e)'
                     /\ ~Held(d, e)
         /\ \A d : InOrder(d) => InOrder(d)' /\ (Held(d, "left")' => ~Sent(d, "arrived"))
<1>1. hotplug_msgs \in Seq(Messages)
  BY DEF TypeOK
<1>2. /\ hotplug_msgs # << >> /\ hotplug_msgs' = Tail(hotplug_msgs) /\ handler.at = "idle"
      /\ handler'.at = "taken" /\ handler'.message = Head(hotplug_msgs)
  BY DEF TakeMessage, Idle
<1>3. /\ ToSet(hotplug_msgs) = ToSet(hotplug_msgs') \cup {Head(hotplug_msgs)}
      /\ \A m, n : Ordered(hotplug_msgs, m, n) => Ordered(hotplug_msgs', m, n)
      /\ \A m, n : Ordered(hotplug_msgs, m, n) /\ Head(hotplug_msgs) = n => m \notin ToSet(hotplug_msgs)
  BY <1>1, <1>2, TailFacts
<1>4. \A d, e : Held(d, e)' <=> Head(hotplug_msgs) = Message(e, d)
  BY <1>2 DEF Held
<1>5. \A d, e : ~Held(d, e)
  BY <1>2 DEF Held, Walking
<1> QED
  BY <1>2, <1>3, <1>4, <1>5 DEF Sent, InOrder

\* The walk is about the message it began with.
LEMMA WalkMessage ==
  ASSUME UsbHotplugAssumption, TypeOK, ListInv, BeginWalk \/ Match \/ Return \/ Step
  PROVE  handler' = Idle \/ handler'.message = handler.message
<1>1. CASE BeginWalk
  BY <1>1, FirstFacts, VisitFacts DEF BeginWalk
<1>2. CASE Match
  BY <1>2, MatchFacts
<1>3. CASE Return
  <2>1. PICK ret \in {0, 1} : handler' = [handler EXCEPT !.at = "matched", !.ret = ret]
    BY <1>3 DEF Return
  <2> QED
    BY <2>1 DEF TypeOK, Walk
<1>4. CASE Step
  BY <1>4, StepFacts
<1> QED
  BY <1>1, <1>2, <1>3, <1>4

\* Nothing is held that was not held before, until the next message is taken.
LEMMA WalkHolds ==
  ASSUME UsbHotplugAssumption, TypeOK, ListInv, BeginWalk \/ Match \/ Return \/ Step
  PROVE  /\ UNCHANGED <<life, hotplug_msgs>>
         /\ \A d, e : Held(d, e)' => Held(d, e)
<1>1. UNCHANGED <<life, hotplug_msgs>> /\ (handler.at = "taken" \/ Walking)
  BY DEF BeginWalk, Match, Return, Step, Walking
<1>2. handler' = Idle => ~(handler'.at = "taken" \/ Walking')
  BY DEF Idle, Walking
<1> QED
  BY <1>1, <1>2, WalkMessage DEF Held

\* MessagesInv is inductive: the messages of a device are in the order of what happened to it.
LEMMA MessagesNext ==
  ASSUME UsbHotplugAssumption, TypeOK, ListInv, MessagesInv, [Next]_vars
  PROVE  MessagesInv'
<1> SUFFICES ASSUME NEW d \in Devices PROVE MessagesOf(d)'
  BY DEF MessagesInv
<1>0. MessagesOf(d)
  BY DEF MessagesInv
<1>1. ASSUME NEW c \in Devices, Connect(c) \/ Disconnect(c) PROVE MessagesOf(d)'
  <2>1. UNCHANGED <<hotplug_msgs, handler>>
    BY <1>1 DEF Connect, Disconnect, Others
  <2>2. \A e : Sent(d, e)' = Sent(d, e) /\ Held(d, e)' = Held(d, e)
    BY <2>1 DEF Sent, Held, Walking
  <2>3. \/ life'[d] = life[d]
        \/ life[d] = "out" /\ life'[d] = "listed"
        \/ life[d] = "in" /\ life'[d] = "unlisted"
    BY <1>1 DEF Connect, Disconnect, Moves, TypeOK
  <2> QED
    BY <1>0, <2>1, <2>2, <2>3 DEF MessagesOf, InOrder
<1>2. ASSUME NEW c \in Devices, Arrived(c) PROVE MessagesOf(d)'
  <2>1. /\ UNCHANGED handler /\ hotplug_msgs' = Append(hotplug_msgs, Message("arrived", c))
        /\ life[c] = "listed" /\ life' = [life EXCEPT ![c] = "in"] /\ Message("arrived", c) \in Messages
    BY <1>2, MessageFacts DEF Arrived, Moves, Others
  <2>2. \A e : Held(d, e)' = Held(d, e)
    BY <2>1 DEF Held, Walking
  <2>3. /\ \A e : Sent(d, e)' <=> Sent(d, e) \/ (e = "arrived" /\ d = c)
        /\ InOrder(d) /\ (d = c => ~Sent(d, "left")) => InOrder(d)'
    <3>1. PICK m : m = Message("arrived", c)
      OBVIOUS
    <3>0. m \in Messages /\ hotplug_msgs' = Append(hotplug_msgs, m)
      BY <2>1, <3>1
    <3>2. \A f : Sent(d, f)' <=> Sent(d, f) \/ m = Message(f, d)
      BY <3>0, SentAppend
    <3>4. InOrder(d) /\ (m = Message("arrived", d) => ~Sent(d, "left")) => InOrder(d)'
      BY <3>0, SentAppend
    <3>3. \A f : m = Message(f, d) <=> f = "arrived" /\ d = c
      BY <3>1, MessageFacts
    <3> QED
      BY <3>2, <3>3, <3>4
  <2>4. life'[d] = IF d = c THEN "in" ELSE life[d]
    BY <2>1 DEF TypeOK
  <2> QED
    BY <1>0, <2>1, <2>2, <2>3, <2>4 DEF MessagesOf
<1>3. ASSUME NEW c \in Devices, Left(c) PROVE MessagesOf(d)'
  <2>1. /\ UNCHANGED handler /\ hotplug_msgs' = Append(hotplug_msgs, Message("left", c))
        /\ life[c] = "unlisted" /\ life' = [life EXCEPT ![c] = "gone"] /\ Message("left", c) \in Messages
    BY <1>3, MessageFacts DEF Left, Moves, Others
  <2>2. \A e : Held(d, e)' = Held(d, e)
    BY <2>1 DEF Held, Walking
  <2>3. /\ \A e : Sent(d, e)' <=> Sent(d, e) \/ (e = "left" /\ d = c)
        /\ InOrder(d) => InOrder(d)'
    <3>1. PICK m : m = Message("left", c)
      OBVIOUS
    <3>0. m \in Messages /\ hotplug_msgs' = Append(hotplug_msgs, m)
      BY <2>1, <3>1
    <3>2. \A f : Sent(d, f)' <=> Sent(d, f) \/ m = Message(f, d)
      BY <3>0, SentAppend
    <3>4. InOrder(d) /\ (m = Message("arrived", d) => ~Sent(d, "left")) => InOrder(d)'
      BY <3>0, SentAppend
    <3>3. \A f : m = Message(f, d) <=> f = "left" /\ d = c
      BY <3>1, MessageFacts
    <3> QED
      BY <3>2, <3>3, <3>4
  <2>4. life'[d] = IF d = c THEN "gone" ELSE life[d]
    BY <2>1 DEF TypeOK
  <2> QED
    BY <1>0, <2>1, <2>2, <2>3, <2>4 DEF MessagesOf
<1>4. ASSUME NEW k \in Callbacks,
             \/ Register(k) \/ CallDeregister(k) \/ GetDeviceList(k) \/ ListFails(k) \/ TellOfPresent(k) \/ Registered(k)
             \/ Notify(k) /\ UNCHANGED hotplug_msgs
      PROVE  MessagesOf(d)'
  <2>1. UNCHANGED <<life, hotplug_msgs, handler>>
    BY <1>4 DEF Register, CallDeregister, GetDeviceList, ListFails, Deregister, TellOfPresent, Registered, Notify
  <2> QED
    BY <1>0, <2>1 DEF MessagesOf, Sent, Held, Walking, InOrder
<1>5. ASSUME NEW k \in Callbacks, Notify(k), hotplug_msgs' # hotplug_msgs PROVE MessagesOf(d)'
  <2>1. /\ UNCHANGED <<life, handler>> /\ hotplug_msgs' = Append(hotplug_msgs, Message("none", None))
        /\ Message("none", None) \in Messages
    BY <1>5, MessageFacts DEF Notify
  <2>2. \A e : Held(d, e)' = Held(d, e)
    BY <2>1 DEF Held, Walking
  <2>3. /\ \A e \in {"arrived", "left"} : Sent(d, e)' <=> Sent(d, e)
        /\ InOrder(d) => InOrder(d)'
    <3>1. PICK m : m = Message("none", None)
      OBVIOUS
    <3>0. m \in Messages /\ hotplug_msgs' = Append(hotplug_msgs, m)
      BY <2>1, <3>1
    <3>2. \A f : Sent(d, f)' <=> Sent(d, f) \/ m = Message(f, d)
      BY <3>0, SentAppend
    <3>4. InOrder(d) /\ (m = Message("arrived", d) => ~Sent(d, "left")) => InOrder(d)'
      BY <3>0, SentAppend
    <3>3. \A f \in {"arrived", "left"} : m # Message(f, d)
      BY <3>1, MessageFacts
    <3> QED
      BY <3>2, <3>3, <3>4
  <2> QED
    BY <1>0, <2>1, <2>2, <2>3 DEF MessagesOf
<1>6. CASE TakeMessage
  <2>1. life' = life
    BY <1>6 DEF TakeMessage
  <2> QED
    BY <1>0, <1>6, <2>1, TakeFacts DEF MessagesOf
<1>7. CASE BeginWalk \/ Match \/ Return \/ Step
  <2>1. UNCHANGED <<life, hotplug_msgs>> /\ \A e : (Held(d, e)' => Held(d, e)) /\ Sent(d, e)' = Sent(d, e)
    BY <1>7, WalkHolds DEF Sent
  <2> QED
    BY <1>0, <2>1 DEF MessagesOf, InOrder
<1>8. CASE Exit
  <2>1. hotplug_msgs' = << >> /\ handler'.at = "exited"
    BY <1>8 DEF Exit, Idle
  <2>2. \A e : ~Sent(d, e)' /\ ~Held(d, e)'
    BY <2>1 DEF Sent, Held, Walking, ToSet
  <2> QED
    BY <2>1, <2>2 DEF MessagesOf, InOrder, Ordered
<1>9. CASE UNCHANGED vars
  BY <1>0, <1>9 DEF vars, MessagesOf, Sent, Held, Walking, InOrder
<1> QED
  BY <1>1, <1>2, <1>3, <1>4, <1>5, <1>6, <1>7, <1>8, <1>9 DEF Next, Bus, Handle, Proceed

-----------------------------------------------------------------------------
(* What the callbacks are told. *)

\* A message is on its way to a record until the walk has come to it.
LEMMA DueKept ==
  ASSUME UsbHotplugAssumption, TypeOK, ListInv, [Next]_vars, NEW k \in Listed, k \in Listed',
         NEW d \in Devices, NEW e \in {"arrived", "left"}, Due(k, d, e),
         Match => k # handler.cb \/ Sent(d, e)
  PROVE  Due(k, d, e)'
<1>1. CASE UNCHANGED <<handler, hotplug_cbs>>
  <2>1. Held(d, e)' = Held(d, e) /\ Ahead(k)' = Ahead(k)
    BY <1>1 DEF Held, Walking, Ahead
  <2>2. Sent(d, e) => Sent(d, e)'
    <3>1. hotplug_msgs' = hotplug_msgs \/ \E m \in Messages : hotplug_msgs' = Append(hotplug_msgs, m)
      <4>1. CASE \E c \in Devices : Connect(c) \/ Arrived(c) \/ Disconnect(c) \/ Left(c)
        BY <4>1, MessageFacts DEF Connect, Arrived, Disconnect, Left
      <4>2. CASE \E j \in Callbacks : Register(j) \/ CallDeregister(j) \/ Proceed(j)
        BY <4>2, MessageFacts
        DEF Register, CallDeregister, Proceed, GetDeviceList, ListFails, Deregister, TellOfPresent, Registered, Notify
      <4>3. CASE Handle
        BY <1>1, <4>3, TakeFacts DEF Handle, BeginWalk, Match, Return, Step
      <4>4. CASE Exit
        BY <1>1, <4>4 DEF Exit, Idle
      <4>5. CASE UNCHANGED vars
        BY <4>5 DEF vars
      <4> QED
        BY <4>1, <4>2, <4>3, <4>4, <4>5 DEF Next, Bus
    <3>2. ASSUME NEW m \in Messages, hotplug_msgs' = Append(hotplug_msgs, m), Sent(d, e) PROVE Sent(d, e)'
      BY <3>2, SentAppend
    <3>3. CASE hotplug_msgs' = hotplug_msgs
      BY <3>3 DEF Sent
    <3> QED
      BY <3>1, <3>2, <3>3
  <2> QED
    BY <2>1, <2>2 DEF Due
<1>2. ASSUME NEW j \in Callbacks, Register(j) PROVE Due(k, d, e)'
  <2>1. UNCHANGED <<handler, hotplug_msgs>>
    BY <1>2 DEF Register
  <2>2. Held(d, e)' = Held(d, e) /\ Sent(d, e)' = Sent(d, e)
    BY <2>1 DEF Held, Sent, Walking
  <2>3. \A i \in Listed : PlaceIn(hotplug_cbs', i) = PlaceIn(hotplug_cbs, i) + 1 /\ PlaceIn(hotplug_cbs, i) \in Int
    BY <1>2, RegisterFacts, NextFacts
  <2>4. Ahead(k) => Ahead(k)'
    <3>1. CASE handler.at = "taken"
      BY <2>1, <3>1 DEF Ahead
    <3>2. CASE Walking
      <4>1. handler.cb \in Listed
        BY <3>2 DEF ListInv, WalkInv
      <4> QED
        BY <2>1, <2>3, <3>2, <4>1 DEF Ahead, Walking
    <3> QED
      BY <3>1, <3>2 DEF Ahead, Walking
  <2> QED
    BY <2>2, <2>4 DEF Due
<1>3. CASE TakeMessage
  BY <1>3, TakeFacts DEF Due, Ahead
<1>4. CASE BeginWalk \/ Match \/ Return \/ Step
  <2>1. hotplug_msgs' = hotplug_msgs /\ Sent(d, e)' = Sent(d, e)
    BY <1>4, WalkHolds DEF Sent
  <2>2. SUFFICES ASSUME Held(d, e), Ahead(k), ~Sent(d, e)
                 PROVE  Held(d, e)' /\ Ahead(k)'
    BY <2>1 DEF Due
  <2>3. PlaceIn(hotplug_cbs, k) \in 1 .. Len(hotplug_cbs) /\ hotplug_cbs \in Seq(Callbacks)
    <3>1. Place(k) = PlaceIn(hotplug_cbs, k) /\ Place(k) \in 1 .. Len(hotplug_cbs)
      BY NextFacts
    <3> QED
      BY <3>1 DEF TypeOK
  <2>4. CASE BeginWalk
    <3>1. NextOf(None) # None /\ hotplug_cbs' = hotplug_cbs
      BY <2>4, FirstFacts DEF BeginWalk
    <3>2. /\ handler'.at = "visiting" /\ handler'.message = handler.message
          /\ PlaceIn(hotplug_cbs, handler'.cb) = 1
      BY <2>4, <3>1, FirstFacts, VisitFacts DEF BeginWalk
    <3> QED
      BY <2>2, <2>3, <3>1, <3>2 DEF Held, Ahead, Walking
  <2>5. CASE Match
    <3>1. /\ handler.at = "visiting" /\ handler'.at \in {"calling", "matched"} /\ handler'.cb = handler.cb
          /\ handler'.message = handler.message /\ hotplug_cbs' = hotplug_cbs
      BY <2>5, MatchFacts DEF Match
    <3>2. handler.cb \in Listed /\ k # handler.cb
      BY <2>2, <2>5, <3>1 DEF ListInv, WalkInv, Walking
    <3>3. PlaceIn(hotplug_cbs, handler.cb) # PlaceIn(hotplug_cbs, k) /\ PlaceIn(hotplug_cbs, handler.cb) \in Int
      BY <3>2, PlacesDiffer, NextFacts
    <3> QED
      BY <2>2, <2>3, <3>1, <3>3 DEF Held, Ahead, Walking
  <2>6. CASE Return
    <3>1. PICK ret \in {0, 1} : handler' = [handler EXCEPT !.at = "matched", !.ret = ret]
      BY <2>6 DEF Return
    <3>2. handler'.at = "matched" /\ handler'.cb = handler.cb /\ handler'.message = handler.message
      BY <3>1 DEF TypeOK, Walk
    <3> QED
      BY <2>2, <2>6, <3>2 DEF Return, Held, Ahead, Walking
  <2>7. CASE Step
    <3>1. PlaceIn(hotplug_cbs, handler.cb) < PlaceIn(hotplug_cbs, k)
      BY <2>2, <2>7 DEF Step, Ahead
    <3>2. /\ handler'.at = "visiting" /\ handler'.cb = handler.next /\ handler'.message = handler.message
          /\ PlaceIn(hotplug_cbs', handler.next) <= PlaceIn(hotplug_cbs', k)
      BY <2>7, <3>1, StepFacts
    <3> QED
      BY <2>2, <3>2 DEF Held, Ahead, Walking
  <2> QED
    BY <1>4, <2>4, <2>5, <2>6, <2>7
<1>5. CASE Exit
  BY <1>5 DEF Exit, Listed, ToSet
<1> QED
  <2>1. CASE \E c \in Devices : Connect(c) \/ Arrived(c) \/ Disconnect(c) \/ Left(c)
    BY <1>1, <2>1 DEF Connect, Arrived, Disconnect, Left, Others
  <2>2. CASE \E j \in Callbacks : CallDeregister(j) \/ Proceed(j)
    BY <1>1, <2>2 DEF CallDeregister, Proceed, GetDeviceList, ListFails, Deregister, TellOfPresent, Registered, Notify
  <2>3. CASE UNCHANGED vars
    BY <1>1, <2>3 DEF vars
  <2> QED
    BY <1>2, <1>3, <1>4, <1>5, <2>1, <2>2, <2>3 DEF Next, Bus, Handle

\* A device does not go back to where it came from.
LEMMA LifeBack ==
  ASSUME TypeOK, [Next]_vars, NEW d \in Devices
  PROVE  life'[d] = "out" => life[d] = "out"
<1>1. ASSUME NEW c \in Devices, Connect(c) \/ Arrived(c) \/ Disconnect(c) \/ Left(c)
      PROVE  life'[d] = "out" => life[d] = "out"
  <2>1. PICK to \in {"listed", "in", "unlisted", "gone"} : life' = [life EXCEPT ![c] = to]
    BY <1>1 DEF Connect, Arrived, Disconnect, Left, Moves
  <2> QED
    BY <2>1 DEF TypeOK
<1>2. CASE \E j \in Callbacks : Register(j) \/ CallDeregister(j) \/ Proceed(j)
  BY <1>2
  DEF Register, CallDeregister, Proceed, GetDeviceList, ListFails, Deregister, TellOfPresent, Registered, Notify
<1>3. CASE Handle \/ Exit \/ UNCHANGED vars
  BY <1>3 DEF Handle, TakeMessage, BeginWalk, Match, Return, Step, Exit, vars
<1> QED
  BY <1>1, <1>2, <1>3 DEF Next, Bus

\* Where a registration comes from.
LEMMA PcBack ==
  ASSUME TypeOK, [Next]_vars, NEW k \in Callbacks
  PROVE  /\ pc'[k] \in {"start", "list"} => pc[k] \in {"start", "list"}
         /\ pc'[k] = "enumerate" => \/ GetDeviceList(k)
                                    \/ pc[k] = "enumerate" /\ devs'[k] \subseteq devs[k]
<1> USE DEF TypeOK
<1>1. CASE UNCHANGED <<pc, devs>>
  BY <1>1
<1>2. ASSUME NEW j \in Callbacks, Register(j) \/ CallDeregister(j) \/ ListFails(j) \/ Registered(j) \/ Notify(j)
      PROVE  /\ pc'[k] \in {"start", "list"} => pc[k] \in {"start", "list"}
             /\ pc'[k] = "enumerate" => pc[k] = "enumerate" /\ devs'[k] \subseteq devs[k]
  <2>1. /\ devs' = devs /\ pc' = [pc EXCEPT ![j] = pc'[j]]
        /\ pc[j] = "start" \/ pc'[j] \in {"marked", "registered", "done", "mute"}
        /\ pc'[j] # "enumerate"
    BY <1>2 DEF Register, CallDeregister, ListFails, Deregister, Registered, Notify, Goto
  <2> QED
    BY <2>1
<1>3. ASSUME NEW j \in Callbacks, GetDeviceList(j)
      PROVE  /\ pc'[k] \in {"start", "list"} => pc[k] \in {"start", "list"}
             /\ pc'[k] = "enumerate" => \/ GetDeviceList(k)
                                        \/ pc[k] = "enumerate" /\ devs'[k] \subseteq devs[k]
  <2>1. pc' = [pc EXCEPT ![j] = "enumerate"] /\ devs' = [devs EXCEPT ![j] = usb_devs]
    BY <1>3 DEF GetDeviceList, Goto
  <2>2. CASE j = k
    BY <1>3, <2>1, <2>2
  <2>3. CASE j # k
    BY <2>1, <2>3
  <2> QED
    BY <2>2, <2>3
<1>4. ASSUME NEW j \in Callbacks, TellOfPresent(j)
      PROVE  pc' = pc /\ devs'[k] \subseteq devs[k]
  <2>1. PICK d \in devs[j] : devs' = [devs EXCEPT ![j] = devs[j] \ {d}]
    BY <1>4 DEF TellOfPresent
  <2> QED
    BY <1>4, <2>1 DEF TellOfPresent
<1> QED
  <2>1. CASE \E c \in Devices : Connect(c) \/ Arrived(c) \/ Disconnect(c) \/ Left(c)
    BY <1>1, <2>1 DEF Connect, Arrived, Disconnect, Left, Others
  <2>2. CASE Handle \/ Exit \/ UNCHANGED vars
    BY <1>1, <2>2 DEF Handle, TakeMessage, BeginWalk, Match, Return, Step, Exit, vars
  <2> QED
    BY <1>2, <1>3, <1>4, <2>1, <2>2 DEF Next, Bus, Proceed

\* What the handler of events takes off the queue is a message.
LEMMA HeldNext ==
  ASSUME UsbHotplugAssumption, TypeOK, ListInv, HeldInv, [Next]_vars
  PROVE  HeldInv'
<1>1. CASE UNCHANGED handler
  BY <1>1 DEF HeldInv, Walking
<1>2. CASE TakeMessage
  <2>1. handler'.message = Head(hotplug_msgs) /\ hotplug_msgs # << >>
    BY <1>2 DEF TakeMessage, Idle
  <2>2. handler'.message \in Messages
    BY <2>1 DEF TypeOK
  <2> QED
    BY <2>2 DEF HeldInv
<1>3. CASE BeginWalk \/ Match \/ Return \/ Step
  <2>1. handler.message \in Messages
    BY <1>3 DEF HeldInv, BeginWalk, Match, Return, Step, Walking
  <2>2. handler' = Idle \/ handler'.message = handler.message
    BY <1>3, WalkMessage
  <2>3. handler' = Idle => HeldInv'
    BY DEF Idle, HeldInv, Walking
  <2> QED
    BY <2>1, <2>2, <2>3 DEF HeldInv
<1>4. CASE Exit
  BY <1>4 DEF Exit, Idle, HeldInv, Walking
<1> QED
  <2>1. CASE \E c \in Devices : Connect(c) \/ Arrived(c) \/ Disconnect(c) \/ Left(c)
    BY <1>1, <2>1 DEF Connect, Arrived, Disconnect, Left, Others
  <2>2. CASE \E j \in Callbacks : Register(j) \/ CallDeregister(j) \/ Proceed(j)
    BY <1>1, <2>2
    DEF Register, CallDeregister, Proceed, GetDeviceList, ListFails, Deregister, TellOfPresent, Registered, Notify
  <2>3. CASE UNCHANGED vars
    BY <1>1, <2>3 DEF vars
  <2> QED
    BY <1>2, <1>3, <1>4, <2>1, <2>2, <2>3 DEF Next, Bus, Handle

\* Whom a step tells something: a registration tells its own callback, the walk that of the record it is at.
LEMMA WhoIsTold ==
  ASSUME UsbHotplugAssumption, TypeOK, [Next]_vars, NEW k \in Callbacks,
         ~TellOfPresent(k), Match => k # handler.cb
  PROVE  told'[k] = told[k]
<1>1. told \in [Callbacks -> [Devices -> {"nothing", "arrived", "left"}]]
  BY DEF TypeOK
<1>2. ASSUME NEW j \in Callbacks, TellOfPresent(j) PROVE told'[k] = told[k]
  <2>1. PICK d : told' = Tell(j, "arrived", d)
    BY <1>2 DEF TellOfPresent
  <2>2. j # k
    BY <1>2
  <2> QED
    BY <1>1, <2>1, <2>2 DEF Tell
<1>3. CASE Match
  <2>1. k # handler.cb
    BY <1>3
  <2>2. PICK e, d : told' = told \/ told' = Tell(handler.cb, e, d)
    BY <1>3, MatchFacts
  <2> QED
    BY <1>1, <2>1, <2>2 DEF Tell
<1>4. CASE UNCHANGED told
  BY <1>4
<1> QED
  <2>1. CASE \E c \in Devices : Connect(c) \/ Arrived(c) \/ Disconnect(c) \/ Left(c)
    BY <1>4, <2>1 DEF Connect, Arrived, Disconnect, Left, Others
  <2>2. CASE \E j \in Callbacks : Register(j) \/ CallDeregister(j) \/ Proceed(j)
    BY <1>2, <1>4, <2>2
    DEF Register, CallDeregister, Proceed, GetDeviceList, ListFails, Deregister, Registered, Notify
  <2>3. CASE TakeMessage \/ BeginWalk \/ Return \/ Step \/ Exit \/ UNCHANGED vars
    BY <1>4, <2>3 DEF TakeMessage, BeginWalk, Return, Step, Exit, vars
  <2> QED
    BY <1>3, <2>1, <2>2, <2>3 DEF Next, Bus, Handle

\* UntoldInv is inductive.
LEMMA UntoldNext ==
  ASSUME UsbHotplugAssumption, TypeOK, ListInv, QuietInv, UntoldInv, [Next]_vars
  PROVE  UntoldInv'
<1> SUFFICES ASSUME NEW k \in Inside, pc'[k] \in {"start", "list"}
             PROVE  \A d \in Devices : told'[k][d] = "nothing"
  BY DEF UntoldInv
<1>1. k \in Callbacks
  BY DEF UsbHotplugAssumption
<1>2. pc[k] \in {"start", "list"}
  BY <1>1, PcBack
<1>3. ~TellOfPresent(k)
  BY <1>2 DEF TellOfPresent
<1>4. ASSUME Match PROVE k # handler.cb
  <2>1. SUFFICES ASSUME k = handler.cb PROVE FALSE
    OBVIOUS
  <2>2. k \in Listed /\ handler.at = "visiting"
    BY <1>4, <2>1 DEF Match, ListInv, WalkInv, Walking
  <2>3. pc[k] = "list"
    BY <1>1, <1>2, <2>2 DEF ListInv, RecordsInv
  <2>4. k \in Nested
    BY <2>3 DEF Nested
  <2> QED
    BY <2>2, <2>4 DEF QuietInv
<1>5. told'[k] = told[k]
  BY <1>1, <1>3, <1>4, WhoIsTold
<1> QED
  BY <1>2, <1>5 DEF UntoldInv

\* PresentInv is inductive: no device goes back to where it came from.
LEMMA PresentNext ==
  ASSUME UsbHotplugAssumption, TypeOK, PresentInv, [Next]_vars
  PROVE  PresentInv'
<1> SUFFICES ASSUME NEW k \in Callbacks, pc'[k] = "enumerate", NEW d \in devs'[k]
             PROVE  life'[d] # "out"
  BY DEF PresentInv
<1>1. d \in Devices /\ life[d] # "out" => life'[d] # "out"
  BY LifeBack
<1>2. CASE GetDeviceList(k)
  <2>1. devs'[k] = usb_devs
    BY <1>2 DEF GetDeviceList, TypeOK
  <2>2. d \in Devices /\ life[d] # "out"
    BY <2>1 DEF usb_devs
  <2> QED
    BY <1>1, <2>2
<1>3. CASE ~GetDeviceList(k)
  <2>1. pc[k] = "enumerate" /\ devs'[k] \subseteq devs[k] /\ devs[k] \subseteq Devices
    BY <1>3, PcBack DEF TypeOK
  <2> QED
    BY <1>1, <2>1 DEF PresentInv
<1> QED
  BY <1>2, <1>3

\* What a callback knows stays true while nothing is said to it and nothing happens to the device.
LEMMA Kept ==
  ASSUME UsbHotplugAssumption, ~Hasty, TypeOK, ListInv, [Next]_vars,
         NEW k \in Callbacks, NEW d \in Devices, Knows(k, d),
         pc[k] \in {"enumerate", "registered"}, record[k] = "live", record'[k] = "live",
         life'[d] = life[d], told'[k][d] = told[k][d], ToTell(k, d)' = ToTell(k, d),
         Match => k # handler.cb \/ \A e \in {"arrived", "left"} : Due(k, d, e) => Sent(d, e)
  PROVE  Knows(k, d)'
<1>1. ListInv'
  BY ListNext
<1>2. k \in Listed /\ k \in Listed'
  BY <1>1 DEF ListInv, RecordsInv
<1>3. ASSUME NEW e \in {"arrived", "left"}, Due(k, d, e) PROVE Due(k, d, e)'
  BY <1>2, <1>3, DueKept
<1> QED
  BY <1>3 DEF Knows

\* A device comes or goes: the message about it is on its way.
LEMMA KnowsBus ==
  ASSUME UsbHotplugAssumption, ~Hasty, TypeOK, ListInv, [Next]_vars,
         NEW k \in Callbacks, NEW d \in Devices, Knows(k, d),
         NEW c \in Devices, Connect(c) \/ Arrived(c) \/ Disconnect(c) \/ Left(c)
  PROVE  Knows(k, d)'
<1>1. UNCHANGED <<hotplug_cbs, record, pc, devs, handler, told>>
  BY DEF Connect, Arrived, Disconnect, Left, Others
<1>2. ToTell(k, d)' = ToTell(k, d) /\ ~Match
  <2>1. handler.at = "visiting" /\ handler' = handler => ~Match
    BY MatchFacts
  <2> QED
    BY <1>1, <2>1 DEF ToTell, Match
<1>3. CASE c # d
  <2>1. life'[d] = life[d]
    BY <1>3 DEF Connect, Arrived, Disconnect, Left, Moves, TypeOK
  <2>2. CASE pc[k] \in {"enumerate", "registered"} /\ record[k] = "live"
    BY <1>1, <1>2, <2>1, <2>2, Kept
  <2>3. CASE ~(pc[k] \in {"enumerate", "registered"} /\ record[k] = "live")
    BY <1>1, <2>3 DEF Knows
  <2> QED
    BY <2>2, <2>3
<1>4. CASE c = d /\ (Connect(c) \/ Disconnect(c))
  <2>1. life'[d] \in {"listed", "unlisted"}
    BY <1>4 DEF Connect, Disconnect, Moves, TypeOK
  <2> QED
    BY <2>1 DEF Knows
<1>5. CASE c = d /\ Arrived(c)
  <2>1. life'[d] = "in"
    BY <1>5 DEF Arrived, Moves, TypeOK
  <2>2. PICK m \in Messages : m = Message("arrived", d) /\ hotplug_msgs' = Append(hotplug_msgs, m)
    BY <1>5, MessageFacts DEF Arrived
  <2>3. Sent(d, "arrived")'
    BY <2>2, SentAppend
  <2> QED
    BY <2>1, <2>3 DEF Knows, Due
<1>6. CASE c = d /\ Left(c)
  <2>1. life'[d] = "gone"
    BY <1>6 DEF Left, Moves, TypeOK
  <2>2. PICK m \in Messages : m = Message("left", d) /\ hotplug_msgs' = Append(hotplug_msgs, m)
    BY <1>6, MessageFacts DEF Left
  <2>3. Sent(d, "left")'
    BY <2>2, SentAppend
  <2> QED
    BY <2>1, <2>3 DEF Knows, Due
<1> QED
  BY <1>3, <1>4, <1>5, <1>6

\* The walk comes to a callback: it is told, or the message is not for it.
LEMMA KnowsMatch ==
  ASSUME UsbHotplugAssumption, ~Hasty, TypeOK, ListInv, QuietInv, MessagesInv, ToldInv, [Next]_vars, Match,
         NEW k \in Concerned, k = handler.cb, NEW d \in Wanted[k],
         pc[k] \in {"enumerate", "registered"}, record[k] = "live"
  PROVE  Knows(k, d)'
<1> DEFINE m == handler.message
<1>1. /\ k \in Callbacks /\ k \in Inside /\ d \in Devices /\ Events[k] = {"arrived", "left"}
      /\ Wanted[k] \subseteq Devices
  BY DEF Concerned, UsbHotplugAssumption
<1>2. /\ handler.at = "visiting" /\ UNCHANGED <<life, hotplug_msgs, hotplug_cbs, record, pc, devs>>
      /\ told' = IF Matches(k, m.event, m.device) THEN Tell(k, m.event, m.device) ELSE told
  BY MatchFacts DEF Match
<1>3. ~ToTell(k, d) /\ ~ToTell(k, d)'
  <2>1. Nested = {}
    BY <1>2 DEF QuietInv
  <2> QED
    BY <1>1, <1>2, <2>1 DEF Nested, ToTell
<1>4. Knows(k, d) /\ MessagesOf(d)
  BY <1>1 DEF ToldInv, KnowsInv, MessagesInv
<1>5. m \in Messages
  BY <1>2 DEF ToldInv, HeldInv, Walking
<1>6. \A e : Held(d, e) <=> m = Message(e, d)
  BY <1>2 DEF Held, Walking
<1>7. \A e : Sent(d, e)' = Sent(d, e)
  BY <1>2 DEF Sent
<1>8. ASSUME NEW e \in {"arrived", "left"}, m = Message(e, d) PROVE told'[k][d] = e
  <2>1. m.event = e /\ m.device = d
    BY <1>8 DEF Message
  <2>2. Matches(k, e, d)
    BY <1>1 DEF Matches
  <2>3. told' = Tell(k, e, d)
    BY <1>2, <2>1, <2>2
  <2> QED
    BY <1>1, <2>2, <2>3 DEF Tell, TypeOK
<1> HIDE DEF m
<1>9. CASE m = Message("arrived", d)
  <2>1. told'[k][d] = "arrived" /\ Held(d, "arrived")
    BY <1>6, <1>8, <1>9
  <2>2. life[d] \notin {"out", "listed"} /\ (life[d] = "gone" => Sent(d, "left"))
    BY <1>4, <2>1 DEF MessagesOf
  <2> QED
    BY <1>2, <1>7, <2>1, <2>2 DEF Knows, Due
<1>10. CASE m = Message("left", d)
  <2>1. told'[k][d] = "left" /\ Held(d, "left")
    BY <1>6, <1>8, <1>10
  <2>2. life[d] = "gone"
    BY <1>4, <2>1 DEF MessagesOf
  <2> QED
    BY <1>2, <1>3, <2>1, <2>2 DEF Knows
<1>11. CASE \A e \in {"arrived", "left"} : m # Message(e, d)
  <2>1. told'[k][d] = told[k][d]
    <3>1. CASE Matches(k, m.event, m.device)
      <4>1. m.event \in {"arrived", "left"} /\ m.device \in Devices
        BY <1>1, <3>1 DEF Matches
      <4>2. m = Message(m.event, m.device)
        BY <1>5, <4>1 DEF Messages, Message
      <4>3. m.device # d
        BY <1>11, <4>1, <4>2
      <4>4. told' = Tell(k, m.event, m.device)
        BY <1>2, <3>1 DEF m
      <4> QED
        BY <1>1, <4>3, <4>4 DEF Tell, TypeOK
    <3>2. CASE ~Matches(k, m.event, m.device)
      BY <1>2, <3>2 DEF m
    <3> QED
      BY <3>1, <3>2
  <2>2. \A e \in {"arrived", "left"} : Due(k, d, e) => Sent(d, e)
    BY <1>6, <1>11 DEF Due
  <2>3. ToTell(k, d)' = ToTell(k, d)
    BY <1>2 DEF ToTell
  <2>4. record'[k] = "live" /\ life'[d] = life[d]
    BY <1>2
  <2> QED
    BY <1>1, <1>4, <2>1, <2>2, <2>3, <2>4, Kept
<1> QED
  BY <1>9, <1>10, <1>11

\* A registration lists the devices of the moment, and tells of them.
LEMMA KnowsProceed ==
  ASSUME UsbHotplugAssumption, ~Hasty, TypeOK, ListInv, ToldInv, [Next]_vars,
         NEW k \in Concerned, NEW d \in Wanted[k],
         record'[k] = "live", GetDeviceList(k) \/ TellOfPresent(k) \/ Registered(k)
  PROVE  Knows(k, d)'
<1>1. /\ k \in Callbacks /\ k \in Inside /\ d \in Devices /\ Events[k] = {"arrived", "left"}
  BY DEF Concerned, UsbHotplugAssumption
<1>2. Knows(k, d)
  BY DEF ToldInv, KnowsInv
<1>3. UNCHANGED <<life, record, handler, hotplug_msgs, hotplug_cbs>>
  BY DEF GetDeviceList, TellOfPresent, Registered
<1>4. Match => FALSE
  <2>1. Match => handler.at = "visiting" /\ handler'.at # "visiting"
    BY MatchFacts DEF Match
  <2> QED
    BY <1>3, <2>1
<1>5. CASE GetDeviceList(k)
  <2>1. pc[k] = "list" /\ told' = told /\ devs'[k] = usb_devs /\ pc'[k] = "enumerate"
    BY <1>1, <1>5 DEF GetDeviceList, Goto, TypeOK
  <2>2. told[k][d] = "nothing"
    BY <1>1, <2>1 DEF ToldInv, UntoldInv
  <2>3. ToTell(k, d)' <=> life[d] \in {"listed", "in"}
    BY <1>1, <2>1 DEF ToTell, usb_devs
  <2> QED
    BY <1>3, <2>1, <2>2, <2>3 DEF Knows
<1>6. CASE TellOfPresent(k)
  <2>1. pc[k] = "enumerate" /\ pc' = pc
    BY <1>6 DEF TellOfPresent
  <2>2. PICK c \in devs[k] : devs' = [devs EXCEPT ![k] = devs[k] \ {c}] /\ told' = Tell(k, "arrived", c)
    BY <1>6 DEF TellOfPresent
  <2>3. devs'[k] = devs[k] \ {c}
    BY <1>1, <2>2 DEF TypeOK
  <2>4. CASE c = d
    <3>1. Matches(k, "arrived", d)
      BY <1>1, <1>3 DEF Matches
    <3>2. told'[k][d] = "arrived"
      BY <1>1, <2>2, <2>4, <3>1 DEF Tell, TypeOK
    <3>3. ToTell(k, d) /\ life[d] # "out"
      BY <1>1, <2>1, <2>2, <2>4 DEF ToTell, ToldInv, PresentInv
    <3>4. life[d] = "gone" => Due(k, d, "left")
      BY <1>2, <1>3, <2>1, <3>3 DEF Knows
    <3>5. k \in Listed /\ k \in Listed'
      BY <1>1, <1>3 DEF ListInv, RecordsInv, Listed
    <3>6. life[d] = "gone" => Due(k, d, "left")'
      BY <1>1, <1>4, <3>4, <3>5, DueKept
    <3> QED
      BY <1>3, <3>2, <3>3, <3>6 DEF Knows
  <2>5. CASE c # d
    <3>1. told'[k][d] = told[k][d]
      BY <1>1, <2>2, <2>5 DEF Tell, TypeOK
    <3>2. ToTell(k, d)' = ToTell(k, d)
      BY <2>1, <2>3, <2>5 DEF ToTell
    <3> QED
      BY <1>1, <1>2, <1>3, <1>4, <2>1, <3>1, <3>2, Kept
  <2> QED
    BY <2>4, <2>5
<1>7. CASE Registered(k)
  <2>1. pc[k] = "enumerate" /\ devs[k] = {} /\ UNCHANGED <<devs, told>>
    BY <1>7 DEF Registered
  <2>2. ToTell(k, d)' = ToTell(k, d)
    BY <2>1 DEF ToTell
  <2> QED
    BY <1>1, <1>2, <1>3, <1>4, <2>1, <2>2, Kept
<1> QED
  BY <1>5, <1>6, <1>7

\* KnowsInv is inductive: a callback hears of what happens once, in order, and of what is there before it.
LEMMA KnowsNext ==
  ASSUME UsbHotplugAssumption, ~Hasty, TypeOK, ListInv, QuietInv, MessagesInv, ToldInv, [Next]_vars
  PROVE  KnowsInv'
<1> SUFFICES ASSUME NEW k \in Concerned, NEW d \in Wanted[k],
                    pc'[k] \in {"enumerate", "registered"}, record'[k] = "live"
             PROVE  Knows(k, d)'
  BY DEF KnowsInv, Knows
<1>1. k \in Callbacks /\ k \in Enumerate /\ d \in Devices
  BY DEF Concerned, UsbHotplugAssumption
<1>2. Knows(k, d)
  BY DEF ToldInv, KnowsInv
<1>3. CASE \E c \in Devices : Connect(c) \/ Arrived(c) \/ Disconnect(c) \/ Left(c)
  BY <1>1, <1>2, <1>3, KnowsBus
<1>4. CASE GetDeviceList(k) \/ TellOfPresent(k) \/ Registered(k)
  BY <1>4, KnowsProceed
<1>5. CASE Match /\ k = handler.cb
  <2>1. UNCHANGED <<record, pc>>
    BY <1>5 DEF Match
  <2> QED
    BY <1>5, <2>1, KnowsMatch
<1>6. CASE Exit
  <2>1. hotplug_cbs' = << >> /\ ListInv'
    BY <1>6, ListNext DEF Exit
  <2>2. k \in Listed'
    BY <1>1, <2>1 DEF ListInv, RecordsInv
  <2> QED
    BY <2>1, <2>2 DEF Listed, ToSet
<1>7. ASSUME record[k] = "live", pc'[k] = pc[k], devs'[k] = devs[k], life' = life,
             ~TellOfPresent(k), Match => k # handler.cb
      PROVE  Knows(k, d)'
  <2>1. told'[k] = told[k]
    BY <1>1, <1>7, WhoIsTold
  <2>2. ToTell(k, d)' = ToTell(k, d)
    BY <1>7 DEF ToTell
  <2> QED
    BY <1>1, <1>2, <1>7, <2>1, <2>2, Kept
<1>8. ASSUME NEW j \in Callbacks, Register(j) \/ CallDeregister(j) \/ ListFails(j) \/ Notify(j)
      PROVE  Knows(k, d)'
  <2>1. j # k
    BY <1>1, <1>8 DEF Register, CallDeregister, ListFails, Deregister, Notify, Goto, TypeOK
  <2>2. record[k] = "live" /\ pc'[k] = pc[k] /\ devs' = devs /\ life' = life /\ UNCHANGED handler
    BY <1>1, <1>8, <2>1 DEF Register, CallDeregister, ListFails, Deregister, Notify, Goto, TypeOK
  <2>3. ~Match
    BY <2>2, MatchFacts DEF Match
  <2>4. UNCHANGED told
    BY <1>8 DEF Register, CallDeregister, ListFails, Deregister, Notify
  <2>5. ToTell(k, d)' = ToTell(k, d)
    BY <2>2 DEF ToTell
  <2> QED
    BY <1>1, <1>2, <2>2, <2>3, <2>4, <2>5, Kept
<1>9. ASSUME NEW j \in Callbacks, j # k, GetDeviceList(j) \/ TellOfPresent(j) \/ Registered(j)
      PROVE  Knows(k, d)'
  <2>1. record[k] = "live" /\ pc'[k] = pc[k] /\ life' = life /\ UNCHANGED handler
    BY <1>1, <1>9 DEF GetDeviceList, TellOfPresent, Registered, Goto, TypeOK
  <2>2. devs'[k] = devs[k] /\ told'[k] = told[k]
    <3>1. CASE TellOfPresent(j)
      <4>1. PICK c : devs' = [devs EXCEPT ![j] = devs[j] \ {c}] /\ told' = Tell(j, "arrived", c)
        BY <3>1 DEF TellOfPresent
      <4> QED
        BY <1>1, <1>9, <4>1 DEF Tell, TypeOK
    <3>2. CASE GetDeviceList(j) \/ Registered(j)
      BY <1>1, <1>9, <3>2 DEF GetDeviceList, Registered, TypeOK
    <3> QED
      BY <1>9, <3>1, <3>2
  <2>3. ~Match
    BY <2>1, MatchFacts DEF Match
  <2>4. ToTell(k, d)' = ToTell(k, d)
    BY <2>1, <2>2 DEF ToTell
  <2> QED
    BY <1>1, <1>2, <2>1, <2>2, <2>3, <2>4, Kept
<1>10. CASE (Match /\ k # handler.cb) \/ TakeMessage \/ BeginWalk \/ Return \/ Step \/ UNCHANGED vars
  <2>1. UNCHANGED <<life, pc, devs>>
    BY <1>10 DEF Match, TakeMessage, BeginWalk, Return, Step, vars
  <2>2. record[k] = "live"
    <3>1. CASE Step
      <4>1. UNCHANGED record \/ record' = [record EXCEPT ![handler.cb] = "freed"]
        BY <3>1 DEF Step
      <4> QED
        BY <1>1, <4>1 DEF TypeOK
    <3>2. CASE (Match /\ k # handler.cb) \/ TakeMessage \/ BeginWalk \/ Return \/ UNCHANGED vars
      BY <3>2 DEF Match, TakeMessage, BeginWalk, Return, vars
    <3> QED
      BY <1>10, <3>1, <3>2
  <2>3. ~TellOfPresent(k)
    <3>1. TellOfPresent(k) => \E c \in devs[k] : devs'[k] = devs[k] \ {c}
      BY <1>1 DEF TellOfPresent, TypeOK
    <3> QED
      BY <2>1, <3>1
  <2>4. Match => k # handler.cb
    <3>1. Match => handler.at = "visiting" /\ handler' # handler
      BY MatchFacts DEF Match
    <3> QED
      BY <1>10, <3>1 DEF TakeMessage, BeginWalk, Return, Step, vars
  <2> QED
    BY <1>7, <2>1, <2>2, <2>3, <2>4
<1> QED
  BY <1>3, <1>4, <1>5, <1>6, <1>8, <1>9, <1>10 DEF Next, Bus, Handle, Proceed

-----------------------------------------------------------------------------
(* The theorems. *)

\* The invariant holds at first: nothing is registered and nothing is on its way.
LEMMA InvInit ==
  ASSUME UsbHotplugAssumption, Init
  PROVE  Inv
<1>1. /\ hotplug_cbs = << >> /\ hotplug_msgs = << >> /\ handler = Idle
      /\ life \in [Devices -> {"out", "in"}]
      /\ \A k \in Callbacks : record[k] = "none" /\ pc[k] = "start" /\ devs[k] = {}
      /\ \A k \in Callbacks : \A d \in Devices : told[k][d] = "nothing"
  BY DEF Init
<1>2. Listed = {} /\ ~Walking /\ handler.at = "idle" /\ Nested = {}
  BY <1>1 DEF Listed, ToSet, Walking, Idle, Nested, UsbHotplugAssumption
<1>3. TypeOK
  <2>1. hotplug_cbs \in Seq(Callbacks) /\ hotplug_msgs \in Seq(Messages) /\ IsInjective(hotplug_cbs)
    BY <1>1 DEF IsInjective
  <2>2. handler \in Walk
    BY <1>1 DEF Idle, Walk
  <2> QED
    BY <2>1, <2>2 DEF TypeOK, Init
<1>4. ListInv
  BY <1>1, <1>2 DEF ListInv, RecordsInv, WalkInv, EndInv
<1>5. QuietInv
  BY <1>2 DEF QuietInv
<1>6. MessagesInv
  <2>1. \A d, e : ~Sent(d, e) /\ ~Held(d, e)
    BY <1>1, <1>2 DEF Sent, Held, ToSet
  <2>2. \A d : InOrder(d)
    BY <1>1 DEF InOrder, Ordered
  <2> QED
    BY <2>1, <2>2 DEF MessagesInv, MessagesOf
<1>7. ToldInv
  BY <1>1, <1>2 DEF ToldInv, HeldInv, UntoldInv, PresentInv, KnowsInv, Knows, Concerned, UsbHotplugAssumption
<1> QED
  BY <1>3, <1>4, <1>5, <1>6, <1>7 DEF Inv

\* Every step keeps it.
LEMMA InvNext ==
  ASSUME UsbHotplugAssumption, ~Hasty, Inv, [Next]_vars
  PROVE  Inv'
<1> USE DEF Inv
<1>1. TypeOK' /\ ListInv' /\ QuietInv' /\ MessagesInv'
  BY TypeNext, ListNext, QuietNext, MessagesNext
<1>2. HeldInv' /\ UntoldInv' /\ PresentInv' /\ KnowsInv'
  BY HeldNext, UntoldNext, PresentNext, KnowsNext DEF ToldInv
<1> QED
  BY <1>1, <1>2 DEF ToldInv

\* What is reached is on the list, and what is on the list is not freed.
LEMMA InvSafe ==
  ASSUME UsbHotplugAssumption, Inv
  PROVE  NoUseAfterFree
<1> USE DEF Inv, ListInv
<1>1. SUFFICES ASSUME NEW k \in Reached PROVE record[k] # "freed"
  BY DEF NoUseAfterFree
<1>2. Listed \subseteq Callbacks
  BY NextFacts
<1>3. \A j \in Listed : record[j] # "freed"
  BY <1>2 DEF RecordsInv
<1>4. CASE k \in Callbacks /\ pc[k] \in {"list", "enumerate"}
  BY <1>4 DEF RecordsInv
<1>5. CASE Walking /\ k \in {handler.cb, handler.next} \ {None}
  <2>1. handler.cb \in Listed /\ handler.next \in Listed \cup {None}
    <3>1. handler.cb \in Listed /\ handler.next = NextOf(handler.cb)
      BY <1>5, NextFacts DEF WalkInv
    <3> QED
      BY <3>1, NextFacts
  <2> QED
    BY <1>3, <1>5, <2>1
<1> QED
  <2>1. handler \in Walk
    BY DEF TypeOK
  <2> QED
    BY <1>1, <1>3, <1>4, <1>5, <2>1 DEF Reached, Listed, Walking, Walk

\* When nothing is on its way, what a callback knows is what it has been told.
LEMMA InvTrue ==
  ASSUME UsbHotplugAssumption, Inv
  PROVE  ToldIsTrue
<1> SUFFICES ASSUME handler.at = "idle", hotplug_msgs = << >>,
                    NEW k \in Inside \cap Enumerate, NEW d \in Devices,
                    pc[k] = "registered", record[k] = "live", Events[k] = {"arrived", "left"}, d \in Wanted[k]
             PROVE  /\ life[d] = "in" => told[k][d] = "arrived"
                    /\ life[d] \in {"out", "gone"} => told[k][d] # "arrived"
  BY DEF ToldIsTrue
<1>1. Knows(k, d)
  BY DEF Inv, ToldInv, KnowsInv, Concerned
<1>2. \A e : ~Due(k, d, e)
  BY DEF Due, Sent, Held, Walking, ToSet
<1>3. ~ToTell(k, d)
  BY DEF ToTell
<1> QED
  BY <1>1, <1>2, <1>3 DEF Knows

\* Every variable keeps its type (hotplug.c): the list holds a record once, the queue holds messages.
THEOREM TypeCorrect ==
  ASSUME ~Hasty
  PROVE  Spec => []TypeOK
<1>1. Init => Inv
  BY UsbHotplugAssumption, InvInit
<1>2. Inv /\ [Next]_vars => Inv'
  BY UsbHotplugAssumption, InvNext
<1>3. Inv => TypeOK
  BY DEF Inv
<1> QED
  BY <1>1, <1>2, <1>3, PTL DEF Spec

\* No record is looked at after it has been freed (hotplug.c:172-202), however the threads, the bus
\* and the walk interleave and whatever is registered or deregistered within a callback; and when
\* nothing is under way a callback that was registered with the flag has last heard of each device
\* what is so (libusb.h:1918-1931).
THEOREM CallbacksAreToldTheTruthHolds ==
  ASSUME ~Hasty
  PROVE  Spec => []CallbacksAreToldTheTruth
<1>1. Init => Inv
  BY UsbHotplugAssumption, InvInit
<1>2. Inv /\ [Next]_vars => Inv'
  BY UsbHotplugAssumption, InvNext
<1>3. Inv => CallbacksAreToldTheTruth
  BY UsbHotplugAssumption, InvSafe, InvTrue DEF CallbacksAreToldTheTruth
<1> QED
  BY <1>1, <1>2, <1>3, PTL DEF Spec

-----------------------------------------------------------------------------
(* The condition variable of Windows.                                        *)

CONSTANTS WaitThreads, Patient, MaxCalls
VARIABLES mutex, waiters, not_waiting, event, condPc, r2, calls, due
C == INSTANCE UsbWinCond WITH Threads <- WaitThreads, pc <- condPc

\* Who is in the mutex has it; who is in a list waits, or has waited.
CondInv ==
  /\ C!TypeOK /\ condPc \in [WaitThreads -> {"out", "in", "waiting", "woken"}]
  /\ \A t \in WaitThreads : condPc[t] = "in" <=> mutex = t
  /\ C!WaitersAreListed

\* At the start nobody waits.
LEMMA CondInit == C!UsbWinCondAssumption /\ C!Init => CondInv
  BY DEF C!UsbWinCondAssumption, C!Init, CondInv, C!TypeOK, C!WaitersAreListed

\* Every step keeps the lists, the mutex and the events of those who are due.
LEMMA CondNext == C!UsbWinCondAssumption /\ CondInv /\ [C!Next]_C!vars => CondInv'
<1> SUFFICES ASSUME C!UsbWinCondAssumption, CondInv, [C!Next]_C!vars PROVE CondInv'
  OBVIOUS
<1> USE DEF C!UsbWinCondAssumption, CondInv, C!TypeOK, C!WaitersAreListed
<1>1. ASSUME NEW t \in WaitThreads, C!Lock(t) PROVE CondInv'
  BY <1>1 DEF C!Lock, C!Goes
<1>2. ASSUME NEW t \in WaitThreads, C!Unlock(t) PROVE CondInv'
  BY <1>2 DEF C!Unlock, C!Goes
<1>3. ASSUME NEW t \in WaitThreads, C!Broadcast(t) PROVE CondInv'
  BY <1>3 DEF C!Broadcast
<1>4. ASSUME NEW t \in WaitThreads, C!BeginWait(t) PROVE CondInv'
  BY <1>4 DEF C!BeginWait, C!Goes
<1>5. ASSUME NEW t \in WaitThreads, C!Wake(t) PROVE CondInv'
  BY <1>5 DEF C!Wake, C!Goes
<1>6. ASSUME NEW t \in WaitThreads, C!TimeOut(t) PROVE CondInv'
  BY <1>6 DEF C!TimeOut, C!Goes
<1>7. ASSUME NEW t \in WaitThreads, C!Return(t) PROVE CondInv'
  BY <1>7 DEF C!Return, C!Goes
<1>8. CASE UNCHANGED C!vars
  BY <1>8 DEF C!vars
<1> QED
  BY <1>1, <1>2, <1>3, <1>4, <1>5, <1>6, <1>7, <1>8 DEF C!Next

\* A broadcast misses nobody who waits: a thread is listed from the moment it gives the
\* mutex up until it has it again, and the event of who was there at a broadcast is set
\* until it wakes (threads_windows.c:129-158).
THEOREM WaitersAreListedHolds ==
  ASSUME C!UsbWinCondAssumption
  PROVE  C!Spec => []C!WaitersAreListed
<1>1. CondInv => C!WaitersAreListed
  BY DEF CondInv
<1> QED
  BY <1>1, CondInit, CondNext, PTL DEF C!Spec
-----------------------------------------------------------------------------
(* The tables of Windows and of OpenBSD and NetBSD: what is taken is the     *)
(* least that is free.                                                       *)

CONSTANTS MAX_FDS, MAXIMUM_WAIT_OBJECTS, Transfers, Writers, MaxWrites
VARIABLES poll_fd, lock, pending, set, count, done, pollPc, row, pc_writer, writes, polled, pollTold, poller
P == INSTANCE UsbWinPoll WITH pc <- pollPc, told <- pollTold

CONSTANTS Systems, Places, Ugen, Endpoints, Configs, Handles, Interfaces, Leaving, MaxFd, MaxLost, Again, Shared,
          Several
VARIABLES system, present, config, fds, cdesc, fd, held, scan, place, claimed, endpoints, bsdPc, node, ran, lost, stale
B == INSTANCE UsbBsd WITH pc <- bsdPc

\* A set of numbers that is not empty has a least one.
LEMMA LeastNumber ==
  ASSUME NEW T \in SUBSET Nat, T # {}
  PROVE  P!Min(T) \in T /\ B!Min(T) \in T
<1> DEFINE R == {ss \in Nat \X Nat : ss[1] < ss[2]}
<1>1. IsWellFoundedOn(R, Nat)
  BY NatLessThanWellFounded DEF OpToRel
<1>2. \E n \in T : \A m \in T : ~ (<<m, n>> \in R)
  <2> HIDE DEF R
  <2> QED BY <1>1, WFMin
<1>3. \A m, n \in Nat : m < n => <<m, n>> \in R
  OBVIOUS
<1> HIDE DEF R
<1>4. PICK n \in T : \A m \in T : ~ (<<m, n>> \in R)
  BY <1>2
<1>5. ASSUME NEW m \in T PROVE n <= m
  <2>1. m \in Nat /\ n \in Nat
    OBVIOUS
  <2>2. ~(m < n)
    BY <1>3, <1>4, <2>1
  <2> QED
    BY <2>1, <2>2
<1> QED
  BY <1>5 DEF P!Min, B!Min

-----------------------------------------------------------------------------
(* The poll of Windows.                                                      *)

Has == {"begin", "add", "submitted"}

\* A row has the transfer it was filled for, until it is freed; who fills one has its
\* lock and finds it free.
RowInv ==
  /\ P!TypeOK
  /\ pollPc \in [Transfers -> {"look", "enter", "fill", "refused", "ended"} \cup Has]
  /\ \A i \in P!Rows : poll_fd[i] = P!Pipe <=> i = 0
  /\ \A t \in Transfers : pollPc[t] \in Has => poll_fd[row[t]] = t
  /\ \A t \in Transfers : pollPc[t] = "fill" => lock[row[t]] = t /\ poll_fd[row[t]] = P!None
  /\ \A i \in P!Rows : poll_fd[i] \in Transfers => pollPc[poll_fd[i]] \in Has /\ row[poll_fd[i]] = i
  /\ \A i \in P!Rows : lock[i] \in Writers => i = 0

\* The pipe: its event is set early by who writes, with the lock.
PipeInv ==
  /\ count \in Nat /\ set \in BOOLEAN /\ pending \in BOOLEAN
  /\ pending <=> count = 0
  /\ set <=> count > 0 \/ lock[0] # P!None
  /\ pc_writer \in [Writers -> {"out", "count"}] /\ \A w \in Writers : pc_writer[w] = "count" => lock[0] = w

Wait == [fd : P!Rows, object : Transfers \cup {P!Pipe}]

\* Who is polled is in its row until the poller itself has handled it; what is
\* triggered is done, and stays so.
PollInv ==
  /\ poller \in [at : {"out", "collect", "handle"}, left : SUBSET P!Rows, triggered : SUBSET P!Rows, waits : SUBSET Wait]
  /\ \A i \in polled : i # 0 => poll_fd[i] \in Transfers /\ pollPc[poll_fd[i]] = "submitted"
  /\ poller.at = "collect" => poller.left \subseteq polled
  /\ poller.at \in {"collect", "handle"} => poller.triggered \subseteq polled
  /\ poller.at \in {"collect", "handle"} =>
       \A i \in poller.triggered : IF i = 0 THEN set ELSE poll_fd[i] \in done
  /\ poller.at = "collect" => \A w \in poller.waits : poll_fd[w.fd] = w.object /\ w.fd \in polled

PollAll == RowInv /\ PipeInv /\ PollInv

\* What the instance counts is what is counted.
LEMMA Counting == ASSUME NEW S PROVE P!IsFiniteSet(S) = IsFiniteSet(S) /\ P!Cardinality(S) = Cardinality(S)
<1>1. P!IsFiniteSet(S) = IsFiniteSet(S)
  BY DEF P!IsFiniteSet, IsFiniteSet
<1>2. P!Cardinality(S) = Cardinality(S)
  BY DEF P!Cardinality, Cardinality
<1> QED
  BY <1>1, <1>2

\* The pipe has a row.
LEMMA RowFacts == P!UsbWinPollAssumption => 0 \in P!Rows /\ P!Rows \subseteq Nat
  BY DEF P!UsbWinPollAssumption, P!Rows

\* With few transfers there are few objects to be waited for.
LEMMA FewWaits ==
  ASSUME P!FewAtATime, MAXIMUM_WAIT_OBJECTS \in Nat, RowInv, PollInv, poller.at = "collect"
  PROVE  ~(P!Cardinality(poller.waits) > MAXIMUM_WAIT_OBJECTS)
<1> DEFINE objects == Transfers \cup {P!Pipe}
           f == [w \in poller.waits |-> w.object]
<1>1. IsFiniteSet(Transfers) /\ Cardinality(Transfers) < MAXIMUM_WAIT_OBJECTS
  BY Counting DEF P!FewAtATime
<1>2. IsFiniteSet(objects) /\ Cardinality(objects) <= Cardinality(Transfers) + 1 /\ Cardinality(Transfers) \in Nat
  BY <1>1, FS_AddElement, FS_CardinalityType
<1>3. \A w \in poller.waits : w \in [fd : P!Rows, object : objects] /\ poll_fd[w.fd] = w.object
  BY DEF PollInv, Wait
<1>4. \A v, w \in poller.waits : v.object = w.object => v.fd = w.fd
  BY <1>3 DEF RowInv, P!TypeOK
<1>5. \A v, w \in poller.waits : v.object = w.object => v = w
  BY <1>3, <1>4
<1>6. f \in Injection(poller.waits, objects)
  BY <1>3, <1>5 DEF Injection, IsInjective
<1>7. IsFiniteSet(poller.waits) /\ Cardinality(poller.waits) <= Cardinality(objects)
  BY <1>2, <1>6, FS_Injection
<1>8. Cardinality(poller.waits) \in Nat /\ Cardinality(objects) \in Nat
  BY <1>2, <1>7, FS_CardinalityType
<1> QED
  BY <1>1, <1>2, <1>7, <1>8, Counting

\* At the start the pipe is in the first row, and it is all that is polled.
LEMMA PollInit == P!UsbWinPollAssumption /\ P!Init => PollAll
<1> SUFFICES ASSUME P!UsbWinPollAssumption, P!Init PROVE PollAll
  OBVIOUS
<1> USE DEF P!UsbWinPollAssumption, P!Init, P!None, P!Pipe, P!Rows
<1>1. RowInv
  BY DEF RowInv, P!TypeOK, Has
<1>2. PipeInv
  <2>1. count = 0 /\ lock[0] = P!None /\ pc_writer \in [Writers -> {"out", "count"}]
    OBVIOUS
  <2>2. pending \in BOOLEAN /\ set \in BOOLEAN /\ pending /\ ~set
    BY Zenon
  <2>3. \A w \in Writers : pc_writer[w] # "count"
    OBVIOUS
  <2>4. ~(count > 0)
    BY <2>1
  <2> QED
    BY <2>1, <2>2, <2>3, <2>4 DEF PipeInv
<1>3. PollInv
  BY DEF PollInv, P!Outside, Wait
<1> QED
  BY <1>1, <1>2, <1>3 DEF PollAll

\* A thread that has no row, and fills none, goes on with its search.
LEMMA SearchKeeps ==
  ASSUME P!UsbWinPollAssumption, PollAll, NEW t \in Transfers, pollPc[t] \notin Has \cup {"fill"},
         NEW p \in {"look", "enter", "refused"}, NEW r \in P!Rows,
         pollPc' = [pollPc EXCEPT ![t] = p], row' = [row EXCEPT ![t] = r],
         UNCHANGED <<poll_fd, lock, pending, set, count, done, pc_writer, writes, polled, pollTold, poller>>
  PROVE  PollAll'
<1> USE RowFacts
<1>1. /\ pollPc'[t] = p /\ \A u \in Transfers : u # t => pollPc'[u] = pollPc[u] /\ row'[u] = row[u]
      /\ pollPc' \in [Transfers -> {"look", "enter", "fill", "refused", "ended"} \cup Has] /\ row' \in [Transfers -> P!Rows]
  BY DEF PollAll, RowInv, P!TypeOK
<1>2. \A i \in P!Rows : poll_fd[i] # t
  BY DEF PollAll, RowInv
<1>3. RowInv'
  BY <1>1, <1>2 DEF PollAll, RowInv, P!TypeOK, Has
<1>4. PipeInv'
  BY DEF PollAll, PipeInv
<1>5. PollInv'
  BY <1>1, <1>2 DEF PollAll, PollInv, RowInv, P!TypeOK
<1> QED
  BY <1>3, <1>4, <1>5 DEF PollAll

\* Core tells of a change of the descriptors: the pipe is left, or signalled.
LEMMA TellKeeps ==
  ASSUME PipeInv, P!Tell, UNCHANGED <<lock, pc_writer>>
  PROVE  PipeInv' /\ (set => set')
<1>1. CASE UNCHANGED <<pending, set, count>>
  BY <1>1 DEF PipeInv
<1>2. CASE set' = TRUE /\ pending' = FALSE /\ count' = count + 1
  <2>1. set' /\ set' \in BOOLEAN /\ ~pending' /\ pending' \in BOOLEAN
    BY <1>2, Zenon
  <2> QED
    BY <1>2, <2>1 DEF PipeInv
<1> QED
  BY <1>1, <1>2 DEF P!Tell, P!Signal, P!pipe

\* What a submitting thread does to the rows.
LEMMA SubmitKeeps ==
  ASSUME P!UsbWinPollAssumption, PollAll, NEW t \in Transfers, P!Submit(t) \/ P!Finishes(t) \/ P!Again(t)
  PROVE  PollAll'
<1> USE RowFacts DEF P!UsbWinPollAssumption, P!None, P!Pipe
<1>0. ASSUME P!NextRow(t)
      PROVE  \E p \in {"look", "refused"}, r \in P!Rows : pollPc' = [pollPc EXCEPT ![t] = p] /\ row' = [row EXCEPT ![t] = r]
  BY <1>0 DEF P!NextRow, PollAll, RowInv, P!TypeOK
<1>1. CASE P!Look(t)
  <2>1. row[t] \in P!Rows /\ row = [row EXCEPT ![t] = row[t]]
    BY DEF PollAll, RowInv, P!TypeOK
  <2>2. \E p \in {"look", "enter", "refused"}, r \in P!Rows : pollPc' = [pollPc EXCEPT ![t] = p] /\ row' = [row EXCEPT ![t] = r]
    BY <1>0, <1>1, <2>1 DEF P!Look, P!Goes
  <2> QED
    BY <1>1, <2>2, SearchKeeps DEF P!Look, P!pipe, Has
<1>2. CASE P!Enter(t)
  <2>1. CASE poll_fd[row[t]] # P!None
    <3>1. P!NextRow(t) /\ UNCHANGED lock /\ pollPc[t] = "enter"
      BY <1>2, <2>1 DEF P!Enter
    <3> QED
      BY <1>0, <1>2, <3>1, SearchKeeps DEF P!Enter, P!pipe, Has
  <2>2. CASE poll_fd[row[t]] = P!None
    <3> USE <1>2, <2>2 DEF P!Enter, P!pipe
    <3>1. RowInv'
      BY DEF PollAll, RowInv, P!TypeOK, Has
    <3>2. PipeInv'
      BY DEF PollAll, RowInv, PipeInv, P!TypeOK
    <3>3. PollInv'
      BY DEF PollAll, RowInv, PollInv, P!TypeOK
    <3> QED
      BY <3>1, <3>2, <3>3 DEF PollAll
  <2> QED
    BY <2>1, <2>2
<1>3. CASE P!Fill(t)
  <2> USE <1>3 DEF P!Fill, P!Goes, P!pipe
  <2>1. RowInv'
    BY DEF PollAll, RowInv, PipeInv, PollInv, P!TypeOK, Has
  <2>2. PipeInv'
    BY DEF PollAll, RowInv, PipeInv, P!TypeOK
  <2>3. PollInv'
    BY DEF PollAll, RowInv, PipeInv, PollInv, P!TypeOK, Has
  <2> QED
    BY <2>1, <2>2, <2>3 DEF PollAll
<1>4. CASE P!Begin(t)
  <2> USE <1>4 DEF P!Begin, P!Goes, P!pipe
  <2>1. RowInv'
    BY DEF PollAll, RowInv, PipeInv, PollInv, P!TypeOK, Has
  <2>2. PipeInv'
    BY DEF PollAll, RowInv, PipeInv, P!TypeOK
  <2>3. PollInv'
    BY DEF PollAll, RowInv, PipeInv, PollInv, P!TypeOK, Has
  <2> QED
    BY <2>1, <2>2, <2>3 DEF PollAll
<1>5. CASE P!FreeFd(t)
  <2> USE <1>5 DEF P!FreeFd, P!Goes, P!pipe
  <2>1. RowInv'
    BY DEF PollAll, RowInv, PipeInv, PollInv, P!TypeOK, Has
  <2>2. PipeInv'
    BY DEF PollAll, RowInv, PipeInv, P!TypeOK
  <2>3. PollInv'
    BY DEF PollAll, RowInv, PipeInv, PollInv, P!TypeOK, Has
  <2> QED
    BY <2>1, <2>2, <2>3 DEF PollAll
<1>6. CASE P!Add(t)
  <2> USE <1>6 DEF P!Add, P!Goes
  <2>1. pollTold' = TRUE
    BY DEF P!Tell
  <2>2. RowInv'
    BY <2>1 DEF PollAll, RowInv, PipeInv, PollInv, P!TypeOK, Has
  <2>3. PipeInv' /\ (set => set')
    BY TellKeeps DEF PollAll
  <2>4. PollInv'
    BY <2>3 DEF PollAll, RowInv, PipeInv, PollInv, P!TypeOK, Has
  <2> QED
    BY <2>2, <2>3, <2>4 DEF PollAll
<1>7. CASE P!Finishes(t)
  <2> USE <1>7 DEF P!Finishes, P!threads, P!pipe
  <2>1. RowInv'
    BY DEF PollAll, RowInv, PipeInv, PollInv, P!TypeOK, Has
  <2>2. PipeInv'
    BY DEF PollAll, RowInv, PipeInv, P!TypeOK
  <2>3. PollInv'
    BY DEF PollAll, RowInv, PipeInv, PollInv, P!TypeOK, Has
  <2> QED
    BY <2>1, <2>2, <2>3 DEF PollAll
<1>8. CASE P!Again(t)
  BY <1>8, SearchKeeps DEF P!Again, P!pipe, Has
<1> QED
  BY <1>1, <1>2, <1>3, <1>4, <1>5, <1>6, <1>7, <1>8 DEF P!Submit

\* What a writer does to the pipe.
LEMMA WriteKeeps ==
  ASSUME P!UsbWinPollAssumption, PollAll, NEW w \in Writers, P!Write(w) \/ P!Count(w)
  PROVE  PollAll'
<1> USE RowFacts DEF P!UsbWinPollAssumption, P!None, P!Pipe
<1>1. CASE P!Write(w)
  <2> USE <1>1 DEF P!Write, P!pipe
  <2>1. RowInv'
    BY DEF PollAll, RowInv, PipeInv, PollInv, P!TypeOK, Has
  <2>2. PipeInv'
    <3>1. set' /\ set' \in BOOLEAN
      BY Zenon
    <3>2. lock'[0] = w /\ w # P!None /\ pc_writer' \in [Writers -> {"out", "count"}]
      BY DEF PollAll, RowInv, PipeInv, P!TypeOK
    <3>3. \A v \in Writers : pc_writer'[v] = "count" => v = w
      BY DEF PollAll, PipeInv
    <3> QED
      BY <3>1, <3>2, <3>3 DEF PollAll, PipeInv
  <2>3. PollInv'
    BY DEF PollAll, RowInv, PipeInv, PollInv, P!TypeOK, Has
  <2> QED
    BY <2>1, <2>2, <2>3 DEF PollAll
<1>2. CASE P!Count(w)
  <2> USE <1>2 DEF P!Count, P!pipe
  <2>1. RowInv'
    BY DEF PollAll, RowInv, PipeInv, PollInv, P!TypeOK, Has
  <2>2. PipeInv'
    <3>1. ~pending' /\ pending' \in BOOLEAN
      BY Zenon
    <3>2. lock[0] = w /\ set /\ lock'[0] = P!None /\ pc_writer' \in [Writers -> {"out", "count"}]
      BY DEF PollAll, RowInv, PipeInv, P!TypeOK
    <3>3. \A v \in Writers : pc_writer'[v] # "count"
      BY <3>2 DEF PollAll, PipeInv
    <3> QED
      BY <3>1, <3>2, <3>3 DEF PollAll, PipeInv
  <2>3. PollInv'
    BY DEF PollAll, RowInv, PipeInv, PollInv, P!TypeOK, Has
  <2> QED
    BY <2>1, <2>2, <2>3 DEF PollAll
<1> QED
  BY <1>1, <1>2

\* What the poller does.
LEMMA PollKeeps ==
  ASSUME P!UsbWinPollAssumption, P!FewAtATime, PollAll, P!Poll
  PROVE  PollAll'
<1> USE RowFacts DEF P!UsbWinPollAssumption, P!None, P!Pipe
<1>1. CASE P!Begins
  <2> USE <1>1 DEF P!Begins, P!Outside, P!threads, P!pipe
  <2>1. RowInv'
    BY DEF PollAll, RowInv, PipeInv, PollInv, P!TypeOK, Has
  <2>2. PipeInv'
    BY DEF PollAll, RowInv, PipeInv, P!TypeOK
  <2>3. PollInv'
    BY DEF PollAll, RowInv, PipeInv, PollInv, P!TypeOK, Has
  <2> QED
    BY <2>1, <2>2, <2>3 DEF PollAll
<1>2. CASE P!Collect
  <2> DEFINE i == P!Min(poller.left)
  <2>1. poller.at = "collect" /\ i \in poller.left /\ i \in polled /\ poller.left \subseteq polled
    BY <1>2, LeastNumber DEF P!Collect, PollAll, PollInv
  <2> HIDE DEF i
  <2>2. poll_fd[i] # P!None /\ (poll_fd[i] = P!Pipe <=> i = 0) /\ i \in P!Rows /\ poll_fd[i] \in Transfers \cup {P!Pipe}
    BY <2>1 DEF PollAll, RowInv, PollInv, P!TypeOK
  <2>3. \/ /\ P!Completed(i)
           /\ poller' = [poller EXCEPT !.left = @ \ {i}, !.triggered = @ \cup {i}]
        \/ poller' = [poller EXCEPT !.left = @ \ {i}, !.waits = @ \cup {[fd |-> i, object |-> poll_fd[i]]}]
    BY <1>2, <2>2 DEF P!Collect, i
  <2>4. P!Completed(i) => IF i = 0 THEN set ELSE poll_fd[i] \in done
    BY <2>2 DEF P!Completed, PollAll, PipeInv
  <2>5. UNCHANGED <<poll_fd, lock, pending, set, count, done, pollPc, row, pc_writer, writes, polled, pollTold>>
    BY <1>2 DEF P!Collect, P!pipe, P!threads
  <2>6. RowInv' /\ PipeInv'
    BY <2>5 DEF PollAll, RowInv, PipeInv, P!TypeOK
  <2>7. PollInv'
    <3> USE <2>1, <2>2, <2>5 DEF PollAll, PollInv
    <3>1. CASE P!Completed(i) /\ poller' = [poller EXCEPT !.left = @ \ {i}, !.triggered = @ \cup {i}]
      BY <3>1, <2>4
    <3>2. CASE poller' = [poller EXCEPT !.left = @ \ {i}, !.waits = @ \cup {[fd |-> i, object |-> poll_fd[i]]}]
      <4> DEFINE new == [fd |-> i, object |-> poll_fd[i]]
      <4>1. new \in Wait /\ new.fd = i /\ new.object = poll_fd[i]
        BY DEF Wait
      <4>2. poller' = [poller EXCEPT !.left = @ \ {i}, !.waits = @ \cup {new}]
        BY <3>2
      <4> HIDE DEF new
      <4>3. /\ poller'.at = "collect" /\ poller'.left = poller.left \ {i} /\ poller'.triggered = poller.triggered
            /\ poller'.waits = poller.waits \cup {new}
            /\ poller' \in [at : {"out", "collect", "handle"}, left : SUBSET P!Rows, triggered : SUBSET P!Rows, waits : SUBSET Wait]
        BY <4>1, <4>2
      <4> QED
        BY <4>1, <4>3
    <3> QED
      BY <2>3, <3>1, <3>2
  <2> QED
    BY <2>6, <2>7 DEF PollAll
<1>3. CASE P!Report
  <2>1. poller.at = "collect" /\ ~(P!Cardinality(poller.waits) > MAXIMUM_WAIT_OBJECTS)
    BY <1>3, FewWaits DEF P!Report, P!Collected, PollAll
  <2>2. \/ poller' = [poller EXCEPT !.at = "handle"]
        \/ \E w \in poller.waits :
             P!Signalled(w.object) /\ poller' = [poller EXCEPT !.at = "handle", !.triggered = {w.fd}]
    BY <1>3, <2>1 DEF P!Report
  <2>3. ASSUME NEW w \in poller.waits, P!Signalled(w.object)
        PROVE  w.fd \in polled /\ w.fd \in P!Rows /\ IF w.fd = 0 THEN set ELSE poll_fd[w.fd] \in done
    BY <2>1, <2>3 DEF PollAll, PollInv, Wait, RowInv, P!Signalled
  <2>4. UNCHANGED <<poll_fd, lock, pending, set, count, done, pollPc, row, pc_writer, writes, polled, pollTold>>
    BY <1>3 DEF P!Report, P!pipe, P!threads
  <2>5. RowInv' /\ PipeInv'
    BY <2>4 DEF PollAll, RowInv, PipeInv, P!TypeOK
  <2>6. PollInv'
    <3> USE <2>1, <2>4 DEF PollAll, PollInv
    <3>1. CASE poller' = [poller EXCEPT !.at = "handle"]
      BY <3>1
    <3>2. ASSUME NEW w \in poller.waits, P!Signalled(w.object), poller' = [poller EXCEPT !.at = "handle", !.triggered = {w.fd}]
          PROVE  PollInv'
      BY <2>3, <3>2
    <3> QED
      BY <2>2, <3>1, <3>2
  <2> QED
    BY <2>5, <2>6 DEF PollAll
<1>4. CASE P!HandlePipe
  <2> USE <1>4 DEF P!HandlePipe, P!ReadPipe, P!threads, P!pipe
  <2>1. RowInv'
    BY DEF PollAll, RowInv, PipeInv, PollInv, P!TypeOK, Has
  <2>2. PipeInv'
    <3>1. set \in BOOLEAN /\ pending \in BOOLEAN
      BY DEF PollAll, PipeInv
    <3>2. set' \in BOOLEAN /\ (set' <=> set /\ count' > 0) /\ pending' \in BOOLEAN /\ (pending' <=> pending \/ count' <= 0)
      BY <3>1, Zenon
    <3>3. count > 0 /\ count \in Nat /\ count' = count - 1 /\ lock[0] = P!None
      BY DEF PollAll, PipeInv
    <3> QED
      BY <3>2, <3>3 DEF PollAll, PipeInv
  <2>3. PollInv'
    BY DEF PollAll, RowInv, PipeInv, PollInv, P!TypeOK, Has
  <2> QED
    BY <2>1, <2>2, <2>3 DEF PollAll
<1>5. ASSUME NEW t \in Transfers, P!HandleTransfer(t) PROVE PollAll'
  <2> USE <1>5 DEF P!HandleTransfer
  <2>1. pollTold' = TRUE
    BY DEF P!Tell
  <2>2. RowInv'
    BY <2>1 DEF PollAll, RowInv, PipeInv, PollInv, P!TypeOK, Has
  <2>3. PipeInv' /\ (set => set')
    BY TellKeeps DEF PollAll
  <2>4. PollInv'
    BY <2>3 DEF PollAll, RowInv, PipeInv, PollInv, P!TypeOK, Has
  <2> QED
    BY <2>2, <2>3, <2>4 DEF PollAll
<1>6. CASE P!Ends
  <2> USE <1>6 DEF P!Ends, P!Outside, P!threads, P!pipe
  <2>1. RowInv'
    BY DEF PollAll, RowInv, PipeInv, PollInv, P!TypeOK, Has
  <2>2. PipeInv'
    BY DEF PollAll, RowInv, PipeInv, P!TypeOK
  <2>3. PollInv'
    BY DEF PollAll, RowInv, PipeInv, PollInv, P!TypeOK, Has
  <2> QED
    BY <2>1, <2>2, <2>3 DEF PollAll
<1> QED
  BY <1>1, <1>2, <1>3, <1>4, <1>5, <1>6 DEF P!Poll

\* Every step keeps the invariant.
LEMMA PollNext ==
  ASSUME P!UsbWinPollAssumption, P!FewAtATime
  PROVE  PollAll /\ [P!Next]_P!vars => PollAll'
<1> SUFFICES ASSUME PollAll, [P!Next]_P!vars PROVE PollAll'
  OBVIOUS
<1>1. CASE UNCHANGED P!vars
  <2> USE <1>1 DEF P!vars
  <2>1. RowInv'
    BY DEF PollAll, RowInv, PipeInv, PollInv, P!TypeOK, Has
  <2>2. PipeInv'
    BY DEF PollAll, RowInv, PipeInv, P!TypeOK
  <2>3. PollInv'
    BY DEF PollAll, RowInv, PipeInv, PollInv, P!TypeOK, Has
  <2> QED
    BY <2>1, <2>2, <2>3 DEF PollAll
<1> QED
  BY <1>1, SubmitKeeps, WriteKeeps, PollKeeps DEF P!Next

\* A row belongs to one transfer from the moment it is filled until it is freed, however
\* many look for one (poll_windows.c:335-345); the event, the status and the count of the
\* pipe agree whenever nobody is at it (671-720); and what poll reports is so, and it
\* does not fail, with as many transfers as can be waited for (561-602).
THEOREM PollIsTrueHolds ==
  ASSUME P!UsbWinPollAssumption, P!FewAtATime
  PROVE  P!Spec => [](P!RowsAreOwn /\ P!PipeAgrees /\ P!PollIsTrue)
<1>1. PollAll => P!RowsAreOwn
  BY DEF PollAll, RowInv, P!RowsAreOwn, Has
<1>2. PollAll => P!PipeAgrees
  BY DEF PollAll, PipeInv, P!PipeAgrees
<1>3. PollAll => P!PollIsTrue
  BY DEF PollAll, PollInv, RowInv, P!PollIsTrue, P!TypeOK
<1> QED
  BY <1>1, <1>2, <1>3, PollInit, PollNext, PTL DEF P!Spec

-----------------------------------------------------------------------------
(* The backends of OpenBSD and NetBSD.                                       *)

FdNumbers == 0 .. MaxFd
Numbers == FdNumbers \cup {B!None}
Files == [place : Places \cup {B!Bus, B!None}, node : Endpoints \cup {0}, timeout : Handles \cup {"none"}]
InCall == {"access", "timeout", "transfer", "done"}
OnEndpoint(f, p, e) == fds[f].place = p /\ fds[f].node = e

\* What has a place is a file; what is free has none.
TableInv ==
  /\ fds \in [FdNumbers -> Files]
  /\ \A f \in FdNumbers : fds[f] = B!Free <=> fds[f].place = B!None

\* A number that libusb keeps is that of a file of the device, and of the endpoint, it is kept for.
KeptInv ==
  /\ fd \in [Places -> Numbers] /\ endpoints \in [Handles -> [Endpoints -> Numbers]]
  /\ \A p \in Places : fd[p] # B!None => p \in B!InUse /\ OnEndpoint(fd[p], p, 0)
  /\ \A h \in Handles, e \in Endpoints :
       claimed[h] # {} /\ endpoints[h][e] # B!None => OnEndpoint(endpoints[h][e], place[h], e)

\* A device has one handle, a handle one interface.
HandleInv ==
  /\ place \in [Handles -> Places \cup {B!None}] /\ claimed \in [Handles -> SUBSET Interfaces]
  /\ bsdPc \in [Handles -> {"closed", "ready"} \cup InCall] /\ node \in [Handles -> Endpoints \cup {0}]
  /\ DOMAIN ran = Handles
  /\ \A h \in Handles : bsdPc[h] = "closed" <=> place[h] = B!None
  /\ \A g, h \in Handles : place[g] = place[h] /\ place[g] # B!None => g = h
  /\ \A h \in Handles : \A i, j \in claimed[h] : i = j
  /\ \A h \in Handles : claimed[h] # {} => bsdPc[h] # "closed"
  /\ \A h \in Handles : B!HasNode(place[h]) /\ place[h] # B!None => fd[place[h]] # B!None

\* Where a transfer is: its endpoint is claimed, open, and has its timeout.
CallInv ==
  \A h \in Handles :
    /\ bsdPc[h] \in InCall /\ node[h] # 0 => claimed[h] # {}
    /\ bsdPc[h] \in InCall => B!HasNode(place[h])
    /\ bsdPc[h] = "access" => node[h] # 0
    /\ bsdPc[h] \in {"timeout", "transfer"} => B!FdOf(h) # B!None
    /\ bsdPc[h] = "transfer" => fds[B!FdOf(h)].timeout = h
    /\ bsdPc[h] = "done" => ran[h] = [B!File(place[h], node[h]) EXCEPT !.timeout = h]

\* The loop over the bus, with its node.
ScanInv ==
  /\ system \in {"OpenBSD", "NetBSD"} /\ DOMAIN cdesc = Places /\ DOMAIN config = Places
  /\ scan \in [left : SUBSET Places, found : SUBSET Places, fd : Numbers, on : BOOLEAN]
  /\ ~scan.on => scan = B!NoScan
  /\ scan.fd # B!None => system = "OpenBSD" /\ fds[scan.fd].place = B!Bus

\* What is open is kept by the scan, a device or a handle, or is known to be lost.
LeakInv ==
  \A f \in FdNumbers : fds[f].place # B!None =>
    \/ f = scan.fd \/ f \in lost \/ \E p \in Places : fd[p] = f
    \/ \E h \in Handles, e \in Endpoints : claimed[h] # {} /\ endpoints[h][e] = f

BsdInv == TableInv /\ KeptInv /\ HandleInv /\ CallInv /\ ScanInv /\ LeakInv /\ B!CachedIsActive

\* Files, and what is none.
LEMMA FileFacts ==
  ASSUME B!UsbBsdAssumption
  PROVE  /\ B!None \notin Places \cup {B!Bus} /\ B!Bus \notin Places /\ B!None \notin FdNumbers
         /\ B!Free \in Files /\ B!Free.place = B!None /\ Places \subseteq Nat
         /\ \A p \in Places \cup {B!Bus}, n \in Endpoints \cup {0} :
              B!File(p, n) \in Files /\ B!File(p, n).place = p /\ B!File(p, n).node = n
  BY DEF B!UsbBsdAssumption, B!None, B!Bus, B!Free, B!File, Files, FdNumbers

\* open takes a number that is free.
LEMMA OpenedFacts ==
  ASSUME B!UsbBsdAssumption, TableInv, ~B!Full(fds), NEW file
  PROVE  LET f == B!Min(B!FreeFds(fds)) IN
         /\ f \in FdNumbers /\ fds[f].place = B!None
         /\ B!Opened(fds, file) = [fds EXCEPT ![f] = file]
<1>1. B!FreeFds(fds) = {f \in FdNumbers : fds[f] = B!Free} /\ FdNumbers \subseteq Nat
  BY DEF TableInv, B!FreeFds, FdNumbers
<1>2. B!Min(B!FreeFds(fds)) \in B!FreeFds(fds)
  BY <1>1, LeastNumber DEF B!Full
<1> QED
  BY <1>1, <1>2 DEF TableInv, B!Opened

\* At the start nothing is open.
LEMMA BsdInit == B!UsbBsdAssumption /\ B!Init => BsdInv
<1> SUFFICES ASSUME B!UsbBsdAssumption, B!Init PROVE BsdInv
  OBVIOUS
<1> USE FileFacts DEF B!Init
<1>1. TableInv
  BY DEF TableInv, FdNumbers
<1>2. KeptInv
  BY DEF KeptInv, Numbers, FdNumbers, B!UsbBsdAssumption
<1>3. HandleInv
  BY DEF HandleInv, InCall
<1>4. CallInv
  BY DEF CallInv, InCall
<1>5. ScanInv
  BY DEF ScanInv, B!NoScan, Numbers, B!UsbBsdAssumption
<1>6. LeakInv
  BY DEF LeakInv, FdNumbers
<1>7. B!CachedIsActive
  BY DEF B!CachedIsActive
<1> QED
  BY <1>1, <1>2, <1>3, <1>4, <1>5, <1>6, <1>7 DEF BsdInv

\* What a number that is kept stands for.
LEMMA KeptFacts ==
  ASSUME B!UsbBsdAssumption, BsdInv
  PROVE  /\ \A p \in Places : fd[p] # B!None =>
              fd[p] \in FdNumbers /\ fds[fd[p]].place = p /\ fds[fd[p]].node = 0 /\ fds[fd[p]] # B!Free
         /\ \A h \in Handles, e \in Endpoints : claimed[h] # {} /\ endpoints[h][e] # B!None =>
              /\ endpoints[h][e] \in FdNumbers /\ fds[endpoints[h][e]].place = place[h] /\ place[h] \in Places
              /\ fds[endpoints[h][e]].node = e /\ e # 0 /\ fds[endpoints[h][e]] # B!Free
         /\ scan.fd # B!None => scan.fd \in FdNumbers /\ fds[scan.fd].place = B!Bus
<1> USE FileFacts DEF BsdInv
<1>1. \A e \in Endpoints : e # 0
  BY DEF B!UsbBsdAssumption
<1>2. \A h \in Handles : claimed[h] # {} => place[h] \in Places
  BY DEF HandleInv
<1> QED
  BY <1>1, <1>2 DEF TableInv, KeptInv, ScanInv, Numbers, OnEndpoint

\* A device leaves.
LEMMA BsdUnplug ==
  ASSUME B!UsbBsdAssumption, BsdInv, NEW p \in Places, B!Unplug(p)
  PROVE  BsdInv'
<1>1. UNCHANGED <<system, config, fds, cdesc, fd, held, scan, place, claimed, endpoints, bsdPc, node, ran, lost, stale>>
      /\ present' \subseteq present
  BY DEF B!Unplug, B!device, B!handle, B!transfer
<1> QED
  BY <1>1 DEF BsdInv, TableInv, KeptInv, HandleInv, CallInv, ScanInv, LeakInv, OnEndpoint, B!InUse, B!HasNode, B!FdOf,
              B!CachedIsActive

\* A step of the call of h that opens and closes nothing, to the place "at", with endpoint n.
CallGoes(h, at, n) ==
  /\ UNCHANGED <<system, present, config, cdesc, fd, held, scan, place, claimed, endpoints, fds, lost, stale>>
  /\ bsdPc' = [bsdPc EXCEPT ![h] = at] /\ node' = [node EXCEPT ![h] = n]
  /\ DOMAIN ran' = Handles /\ \A g \in Handles : g # h => ran'[g] = ran[g]
  /\ at \in InCall /\ n # 0 => claimed[h] # {}
  /\ at \in InCall => B!HasNode(place[h])
  /\ at = "access" => n # 0
  /\ at \in {"timeout", "transfer"} => (IF n = 0 THEN fd[place[h]] ELSE endpoints[h][n]) # B!None
  /\ at = "transfer" => fds[IF n = 0 THEN fd[place[h]] ELSE endpoints[h][n]].timeout = h
  /\ at = "done" => ran'[h] = [B!File(place[h], n) EXCEPT !.timeout = h]

\* It keeps the invariant.
LEMMA CallKeeps ==
  ASSUME B!UsbBsdAssumption, BsdInv, NEW h \in Handles, bsdPc[h] # "closed",
         NEW at \in {"ready"} \cup InCall, NEW n \in Endpoints \cup {0}, CallGoes(h, at, n)
  PROVE  BsdInv'
<1> USE DEF CallGoes
<1>1. /\ bsdPc' \in [Handles -> {"closed", "ready"} \cup InCall] /\ node' \in [Handles -> Endpoints \cup {0}]
      /\ bsdPc'[h] = at /\ node'[h] = n /\ at # "closed"
      /\ \A g \in Handles : g # h => bsdPc'[g] = bsdPc[g] /\ node'[g] = node[g]
  BY DEF BsdInv, HandleInv, InCall
<1>2. TableInv' /\ KeptInv' /\ ScanInv' /\ LeakInv' /\ B!CachedIsActive'
  BY DEF BsdInv, TableInv, KeptInv, ScanInv, LeakInv, OnEndpoint, B!InUse, B!CachedIsActive
<1>3. HandleInv'
  BY <1>1 DEF BsdInv, HandleInv, B!HasNode
<1>4. CallInv'
  <2> SUFFICES ASSUME NEW g \in Handles
               PROVE  /\ bsdPc'[g] \in InCall /\ node'[g] # 0 => claimed[g] # {}
                      /\ bsdPc'[g] \in InCall => B!HasNode(place[g])
                      /\ bsdPc'[g] = "access" => node'[g] # 0
                      /\ bsdPc'[g] \in {"timeout", "transfer"} => B!FdOf(g)' # B!None
                      /\ bsdPc'[g] = "transfer" => fds[B!FdOf(g)'].timeout = g
                      /\ bsdPc'[g] = "done" => ran'[g] = [B!File(place[g], node'[g]) EXCEPT !.timeout = g]
    BY DEF CallInv, B!HasNode
  <2>1. CASE g = h
    BY <1>1, <2>1 DEF B!FdOf
  <2>2. CASE g # h
    BY <1>1, <2>2 DEF B!FdOf, BsdInv, CallInv
  <2> QED
    BY <2>1, <2>2
<1> QED
  BY <1>2, <1>3, <1>4 DEF BsdInv

\* What the numbers of a call stand for.
LEMMA CallFacts ==
  ASSUME B!UsbBsdAssumption, BsdInv, NEW h \in Handles, bsdPc[h] # "closed"
  PROVE  /\ place[h] \in Places /\ node[h] \in Endpoints \cup {0}
         /\ B!HasNode(place[h]) => fd[place[h]] # B!None
         /\ bsdPc[h] \in {"timeout", "transfer"} =>
              /\ B!FdOf(h) # B!None /\ B!FdOf(h) \in FdNumbers
              /\ fds[B!FdOf(h)].place = place[h] /\ fds[B!FdOf(h)].node = node[h]
<1>1. place[h] \in Places /\ node[h] \in Endpoints \cup {0} /\ (B!HasNode(place[h]) => fd[place[h]] # B!None)
  BY DEF BsdInv, HandleInv
<1>2. ASSUME bsdPc[h] \in {"timeout", "transfer"}
      PROVE  B!FdOf(h) # B!None /\ (node[h] # 0 => claimed[h] # {})
  BY <1>2 DEF BsdInv, CallInv, InCall
<1> QED
  BY <1>1, <1>2, KeptFacts DEF B!FdOf

\* A record of a file, with a timeout.
LEMMA WithTimeout ==
  ASSUME NEW file \in Files, NEW h
  PROVE  /\ [file EXCEPT !.timeout = h] = [B!File(file.place, file.node) EXCEPT !.timeout = h]
         /\ file.timeout = h => file = [B!File(file.place, file.node) EXCEPT !.timeout = h]
  BY DEF Files, B!File

\* The steps of a transfer beside the one that opens an endpoint and the one that sets the timeout.
LEMMA BsdCalls ==
  ASSUME B!UsbBsdAssumption, BsdInv, NEW h \in Handles,
         \/ B!Complete(h) \/ B!Transfer(h) \/ B!Ask(h) \/ B!SubmitControl(h)
         \/ \E e \in Endpoints : B!Submit(h, e)
  PROVE  BsdInv'
<1>1. bsdPc[h] # "closed"
      /\ UNCHANGED <<system, present, config, cdesc, fd, held, scan, place, claimed, endpoints, fds, lost, stale>>
  BY DEF B!Complete, B!Transfer, B!Ask, B!SubmitControl, B!Submit, B!Step, B!Back, B!Kept, B!Still, B!device, BsdInv, HandleInv
<1>2. node = [node EXCEPT ![h] = node[h]] /\ node[h] \in Endpoints \cup {0} /\ DOMAIN ran = Handles
  BY DEF BsdInv, HandleInv
<1>3. CASE B!Complete(h)
  <2>1. CallGoes(h, "ready", 0)
    BY <1>1, <1>2, <1>3 DEF B!Complete, B!Step, B!Back, CallGoes, InCall
  <2> QED
    BY <1>1, <2>1, CallKeeps
<1>4. CASE B!Transfer(h)
  <2>1. CASE B!Back(h) /\ UNCHANGED ran
    <3>1. CallGoes(h, "ready", 0)
      BY <1>1, <1>2, <2>1 DEF B!Step, B!Back, CallGoes, InCall
    <3> QED
      BY <1>1, <3>1, CallKeeps
  <2>2. CASE B!Reaches(B!FdOf(h)) /\ B!Step(h, "done") /\ ran' = [ran EXCEPT ![h] = fds[B!FdOf(h)]] /\ UNCHANGED node
    <3>1. /\ bsdPc[h] = "transfer" /\ fds[B!FdOf(h)] \in Files /\ fds[B!FdOf(h)].timeout = h
          /\ fds[B!FdOf(h)].place = place[h] /\ fds[B!FdOf(h)].node = node[h]
      BY <1>1, <1>4, CallFacts DEF B!Transfer, BsdInv, CallInv, TableInv
    <3> DEFINE file == fds[B!FdOf(h)]
    <3>0. file.timeout = h => file = [B!File(file.place, file.node) EXCEPT !.timeout = h]
      <4>1. file \in Files
        BY <3>1
      <4> HIDE DEF file
      <4> QED
        BY <4>1, WithTimeout
    <3>2. fds[B!FdOf(h)] = [B!File(place[h], node[h]) EXCEPT !.timeout = h]
      BY <3>0, <3>1
    <3>3. B!HasNode(place[h]) /\ (node[h] # 0 => claimed[h] # {})
      BY <3>1 DEF BsdInv, CallInv, InCall
    <3>4. CallGoes(h, "done", node[h])
      BY <1>1, <1>2, <2>2, <3>2, <3>3 DEF B!Step, CallGoes, InCall
    <3>5. "done" \in {"ready"} \cup InCall
      BY DEF InCall
    <3> QED
      BY <1>1, <1>2, <3>4, <3>5, CallKeeps
  <2> QED
    BY <1>4, <2>1, <2>2 DEF B!Transfer
<1>5. CASE B!Ask(h)
  <2>1. fd[place[h]] \in FdNumbers /\ fds[fd[place[h]]] \in Files /\ fds[fd[place[h]]].place = place[h] /\ fds[fd[place[h]]].node = 0
    BY <1>1, <1>5, CallFacts, KeptFacts DEF B!Ask, BsdInv, TableInv
  <2>2. [fds[fd[place[h]]] EXCEPT !.timeout = h] = [B!File(place[h], 0) EXCEPT !.timeout = h]
    BY <2>1, WithTimeout
  <2>3. ran'[h] = [B!File(place[h], 0) EXCEPT !.timeout = h] /\ DOMAIN ran' = Handles
        /\ \A g \in Handles : g # h => ran'[g] = ran[g]
    BY <1>2, <1>5, <2>2 DEF B!Ask
  <2>4. CallGoes(h, "done", 0)
    BY <1>1, <1>5, <2>3 DEF B!Ask, B!Step, CallGoes, InCall
  <2>5. "done" \in {"ready"} \cup InCall
    BY DEF InCall
  <2> QED
    BY <1>1, <2>4, <2>5, CallKeeps
<1>6. CASE B!SubmitControl(h)
  <2>1. CallGoes(h, "timeout", 0)
    BY <1>1, <1>2, <1>6, CallFacts DEF B!SubmitControl, B!Step, CallGoes, InCall
  <2>2. "timeout" \in {"ready"} \cup InCall
    BY DEF InCall
  <2> QED
    BY <1>1, <2>1, <2>2, CallKeeps
<1>7. ASSUME NEW e \in Endpoints, B!Submit(h, e) PROVE BsdInv'
  <2>1. e # 0
    BY DEF B!UsbBsdAssumption
  <2>2. CallGoes(h, "access", e)
    BY <1>1, <1>2, <1>7, <2>1 DEF B!Submit, B!Step, CallGoes, InCall
  <2>3. "access" \in {"ready"} \cup InCall
    BY DEF InCall
  <2> QED
    BY <1>1, <2>2, <2>3, CallKeeps
<1> QED
  BY <1>3, <1>4, <1>5, <1>6, <1>7

\* A file that is opened has a number that nobody keeps.
LEMMA OpenedKeeps ==
  ASSUME B!UsbBsdAssumption, BsdInv, ~B!Full(fds), NEW file \in Files, file.place # B!None,
         fds' = B!Opened(fds, file)
  PROVE  LET f == B!Min(B!FreeFds(fds)) IN
         /\ TableInv' /\ f \in FdNumbers /\ fds'[f] = file /\ \A g \in FdNumbers : g # f => fds'[g] = fds[g]
         /\ \A p \in Places : fd[p] # f
         /\ \A h \in Handles, e \in Endpoints : claimed[h] # {} => endpoints[h][e] # f
         /\ scan.fd # f
<1> DEFINE f == B!Min(B!FreeFds(fds))
<1>1. f \in FdNumbers /\ fds[f].place = B!None /\ fds' = [fds EXCEPT ![f] = file]
  BY OpenedFacts DEF BsdInv
<1> HIDE DEF f
<1>2. TableInv' /\ fds'[f] = file /\ \A g \in FdNumbers : g # f => fds'[g] = fds[g]
  BY <1>1, FileFacts DEF BsdInv, TableInv
<1>3. /\ \A p \in Places : fd[p] # f
      /\ \A h \in Handles, e \in Endpoints : claimed[h] # {} => endpoints[h][e] # f
      /\ scan.fd # f
  BY <1>1, KeptFacts, FileFacts
<1> QED
  BY <1>1, <1>2, <1>3 DEF f

\* Nothing happens to a file that a device or a handle keeps.
UsedKept ==
  /\ \A p \in Places : fd[p] # B!None => fds'[fd[p]] = fds[fd[p]]
  /\ \A h \in Handles, e \in Endpoints : claimed[h] # {} /\ endpoints[h][e] # B!None =>
       fds'[endpoints[h][e]] = fds[endpoints[h][e]]

\* Then the handles and their calls are as they were.
LEMMA UsedKeeps ==
  ASSUME B!UsbBsdAssumption, BsdInv, UsedKept, UNCHANGED <<system, fd, endpoints, place, claimed, bsdPc, node, ran>>
  PROVE  KeptInv' /\ HandleInv' /\ CallInv'
<1>1. KeptInv' /\ HandleInv'
  BY DEF UsedKept, BsdInv, KeptInv, HandleInv, OnEndpoint, B!InUse, B!HasNode
<1>2. CallInv'
  <2> SUFFICES ASSUME NEW g \in Handles
               PROVE  /\ bsdPc[g] \in InCall /\ node[g] # 0 => claimed[g] # {}
                      /\ bsdPc[g] \in InCall => B!HasNode(place[g])
                      /\ bsdPc[g] = "access" => node[g] # 0
                      /\ bsdPc[g] \in {"timeout", "transfer"} => B!FdOf(g) # B!None
                      /\ bsdPc[g] = "transfer" => fds'[B!FdOf(g)].timeout = g
                      /\ bsdPc[g] = "done" => ran[g] = [B!File(place[g], node[g]) EXCEPT !.timeout = g]
    BY DEF CallInv, B!HasNode, B!FdOf
  <2>1. bsdPc[g] = "transfer" => fds'[B!FdOf(g)] = fds[B!FdOf(g)]
    <3>1. SUFFICES ASSUME bsdPc[g] = "transfer" PROVE fds'[B!FdOf(g)] = fds[B!FdOf(g)]
      OBVIOUS
    <3>2. B!FdOf(g) # B!None /\ place[g] \in Places /\ node[g] \in Endpoints \cup {0} /\ (node[g] # 0 => claimed[g] # {})
      BY <3>1, CallFacts DEF BsdInv, CallInv, InCall
    <3> QED
      BY <3>2 DEF UsedKept, B!FdOf
  <2> QED
    BY <2>1 DEF BsdInv, CallInv
<1> QED
  BY <1>1, <1>2

\* Structs that nobody holds are freed; who is in use keeps its descriptor.
LEMMA KeepFacts ==
  ASSUME B!UsbBsdAssumption, BsdInv, NEW kept, B!Keep(kept), UNCHANGED <<place, config, present, stale>>
  PROVE  fd' = fd /\ B!CachedIsActive' /\ DOMAIN cdesc' = Places
<1>1. fd' = fd
  BY DEF B!Keep, BsdInv, KeptInv
<1>2. B!CachedIsActive' /\ DOMAIN cdesc' = Places
  BY DEF B!Keep, BsdInv, B!CachedIsActive
<1> QED
  BY <1>1, <1>2

\* The list is asked for.
LEMMA BsdBeginScan ==
  ASSUME B!UsbBsdAssumption, BsdInv, B!BeginScan
  PROVE  BsdInv'
<1>1. /\ UNCHANGED <<system, present, config, place, claimed, endpoints, bsdPc, node, ran, lost, stale>>
      /\ fd' = fd /\ B!CachedIsActive' /\ scan = B!NoScan /\ system \in {"OpenBSD", "NetBSD"}
      /\ DOMAIN cdesc' = Places /\ DOMAIN config = Places
  BY KeepFacts DEF B!BeginScan, B!handle, B!transfer, BsdInv, ScanInv
<1>2. CASE system = "OpenBSD" /\ ~B!Full(fds)
  <2> DEFINE f == B!Min(B!FreeFds(fds))
  <2>1. /\ fds' = B!Opened(fds, B!File(B!Bus, 0))
        /\ scan' = [left |-> Places, found |-> {}, fd |-> f, on |-> TRUE]
    BY <1>2 DEF B!BeginScan
  <2>2. /\ TableInv' /\ f \in FdNumbers /\ fds'[f] = B!File(B!Bus, 0) /\ \A g \in FdNumbers : g # f => fds'[g] = fds[g]
        /\ \A p \in Places : fd[p] # f
        /\ \A h \in Handles, e \in Endpoints : claimed[h] # {} => endpoints[h][e] # f
    BY <1>2, <2>1, OpenedKeeps, FileFacts
  <2> HIDE DEF f
  <2>3. UsedKept
    BY <2>2, KeptFacts DEF UsedKept
  <2>4. KeptInv' /\ HandleInv' /\ CallInv'
    BY <1>1, <2>3, UsedKeeps
  <2>5. ScanInv'
    BY <1>1, <1>2, <2>1, <2>2, FileFacts DEF ScanInv, Numbers
  <2>6. LeakInv'
    BY <1>1, <2>1, <2>2 DEF BsdInv, LeakInv, B!NoScan, FdNumbers, B!None
  <2> QED
    BY <1>1, <2>2, <2>4, <2>5, <2>6 DEF BsdInv
<1>3. CASE ~(system = "OpenBSD" /\ ~B!Full(fds))
  <2>1. fds' = fds /\ scan'.fd = B!None /\ scan' \in [left : SUBSET Places, found : SUBSET Places, fd : Numbers, on : BOOLEAN]
        /\ scan'.on
    BY <1>3 DEF B!BeginScan, Numbers
  <2>2. KeptInv' /\ HandleInv' /\ CallInv'
    BY <1>1, <2>1, UsedKeeps DEF UsedKept
  <2>3. TableInv' /\ ScanInv'
    BY <1>1, <2>1 DEF BsdInv, TableInv, ScanInv
  <2>4. LeakInv'
    BY <1>1, <2>1 DEF BsdInv, LeakInv, B!NoScan
  <2> QED
    BY <1>1, <2>2, <2>3, <2>4 DEF BsdInv
<1> QED
  BY <1>2, <1>3

\* What a call forgets to close is lost, and nothing else.
LEMMA LoseKeeps ==
  ASSUME B!UsbBsdAssumption, BsdInv, NEW p \in Places \cup {B!Bus}, B!Lose(B!File(p, 0)),
         UNCHANGED <<system, fd, endpoints, place, claimed, bsdPc, node, ran>>, scan'.fd = scan.fd
  PROVE  /\ TableInv' /\ KeptInv' /\ HandleInv' /\ CallInv' /\ LeakInv'
         /\ scan.fd # B!None => fds'[scan.fd] = fds[scan.fd]
<1> DEFINE f == B!Min(B!FreeFds(fds))
<1>1. /\ fds' = B!Opened(fds, B!File(p, 0)) /\ ~B!Full(fds) /\ lost' = lost \cup {f}
      /\ B!File(p, 0) \in Files /\ B!File(p, 0).place # B!None
  BY FileFacts DEF B!Lose
<1>2. /\ TableInv' /\ f \in FdNumbers /\ \A g \in FdNumbers : g # f => fds'[g] = fds[g]
      /\ \A q \in Places : fd[q] # f
      /\ \A h \in Handles, e \in Endpoints : claimed[h] # {} => endpoints[h][e] # f
      /\ scan.fd # f
  BY <1>1, OpenedKeeps
<1> HIDE DEF f
<1>3. UsedKept
  BY <1>2, KeptFacts DEF UsedKept
<1>4. KeptInv' /\ HandleInv' /\ CallInv'
  BY <1>3, UsedKeeps
<1>5. LeakInv'
  BY <1>1, <1>2 DEF BsdInv, LeakInv
<1>6. scan.fd # B!None => fds'[scan.fd] = fds[scan.fd]
  BY <1>2, KeptFacts
<1> QED
  BY <1>2, <1>4, <1>5, <1>6

\* The node of the bus is closed.
LEMMA CloseBusKeeps ==
  ASSUME B!UsbBsdAssumption, BsdInv, fds' = B!CloseAll(fds, {scan.fd}), scan'.fd = B!None,
         UNCHANGED <<system, fd, endpoints, place, claimed, bsdPc, node, ran, lost>>
  PROVE  TableInv' /\ KeptInv' /\ HandleInv' /\ CallInv' /\ LeakInv'
<1>1. fds' = [f \in FdNumbers |-> IF f = scan.fd THEN B!Free ELSE fds[f]]
  BY DEF B!CloseAll, BsdInv, TableInv
<1>2. TableInv'
  <2>1. B!Free \in Files /\ B!Free.place = B!None
    BY FileFacts
  <2>2. fds \in [FdNumbers -> Files] /\ \A f \in FdNumbers : fds[f] = B!Free <=> fds[f].place = B!None
    BY DEF BsdInv, TableInv
  <2> QED
    BY <1>1, <2>1, <2>2 DEF TableInv
<1>3. UsedKept
  <2>1. \A f \in FdNumbers : fds[f].place \in Places => fds'[f] = fds[f]
    <3>1. scan.fd # B!None => fds[scan.fd].place = B!Bus
      BY KeptFacts
    <3> QED
      BY <1>1, <3>1, FileFacts
  <2>2. \A p \in Places : fd[p] # B!None => fd[p] \in FdNumbers /\ fds[fd[p]].place = p
    BY KeptFacts
  <2>3. \A h \in Handles, e \in Endpoints : claimed[h] # {} /\ endpoints[h][e] # B!None =>
          endpoints[h][e] \in FdNumbers /\ fds[endpoints[h][e]].place = place[h] /\ place[h] \in Places
    BY KeptFacts
  <2> QED
    BY <2>1, <2>2, <2>3 DEF UsedKept
<1>4. KeptInv' /\ HandleInv' /\ CallInv'
  BY <1>3, UsedKeeps
<1>5. LeakInv'
  <2>1. \A f \in FdNumbers : fds'[f].place # B!None => f # scan.fd /\ fds[f].place # B!None
    BY <1>1, FileFacts
  <2> QED
    BY <2>1 DEF BsdInv, LeakInv
<1> QED
  BY <1>2, <1>4, <1>5

\* The loop over the bus.
LEMMA BsdScan ==
  ASSUME B!UsbBsdAssumption, BsdInv, B!Scan
  PROVE  BsdInv'
<1> DEFINE scans == [left : SUBSET Places, found : SUBSET Places, fd : Numbers, on : BOOLEAN]
<1>0. /\ UNCHANGED <<system, present, config, place, claimed, endpoints, bsdPc, node, ran, stale>>
      /\ system \in {"OpenBSD", "NetBSD"} /\ DOMAIN cdesc = Places /\ DOMAIN config = Places
      /\ scan \in scans /\ (scan.fd # B!None => system = "OpenBSD" /\ fds[scan.fd].place = B!Bus)
      /\ fd \in [Places -> Numbers]
  BY DEF B!Scan, B!handle, B!transfer, BsdInv, ScanInv, KeptInv
<1>1. ASSUME B!Scanning PROVE B!at \in Places
  BY <1>0, <1>1, LeastNumber, FileFacts DEF B!Scanning, B!at
<1>2. ASSUME NEW more \in SUBSET {B!at}, B!Scanning, B!Found(more)
      PROVE  scan' \in scans /\ scan'.fd = scan.fd /\ scan'.on
  BY <1>0, <1>1, <1>2 DEF B!Found, B!Scanning
<1>3. CASE (B!List \/ B!Skip) /\ fds' = fds /\ fd' = fd /\ lost' = lost
  <2>1. scan' \in scans /\ scan'.fd = scan.fd /\ scan'.on
    BY <1>2, <1>3 DEF B!List, B!Skip
  <2>2. KeptInv' /\ HandleInv' /\ CallInv'
    BY <1>0, <1>3, UsedKeeps DEF UsedKept
  <2>4. DOMAIN cdesc' = Places /\ \A p \in Places : cdesc'[p] # B!None => cdesc'[p] = cdesc[p] \/ cdesc'[p] = config[p]
    <3>1. \/ cdesc' = cdesc
          \/ cdesc' = [cdesc EXCEPT ![B!at] = IF @ = B!None THEN config[B!at] ELSE @]
      BY <1>3 DEF B!List, B!Skip, B!device
    <3> QED
      BY <1>0, <3>1
  <2>3. TableInv' /\ ScanInv' /\ LeakInv'
    BY <1>0, <1>3, <2>1, <2>4 DEF BsdInv, TableInv, ScanInv, LeakInv
  <2>5. B!CachedIsActive'
    BY <1>0, <2>4 DEF BsdInv, B!CachedIsActive
  <2> QED
    BY <2>2, <2>3, <2>5 DEF BsdInv
<1>4. CASE B!SkipAndLose
  <2>1. scan' \in scans /\ scan'.fd = scan.fd /\ scan'.on
    BY <1>2, <1>4 DEF B!SkipAndLose
  <2>2. UNCHANGED <<fd, cdesc>> /\ \E p \in Places \cup {B!Bus} : B!Lose(B!File(p, 0))
    BY <1>0, <1>1, <1>4 DEF B!SkipAndLose, B!device
  <2>3. /\ TableInv' /\ KeptInv' /\ HandleInv' /\ CallInv' /\ LeakInv'
        /\ scan.fd # B!None => fds'[scan.fd] = fds[scan.fd]
    BY <1>0, <2>1, <2>2, LoseKeeps
  <2>4. ScanInv' /\ B!CachedIsActive'
    BY <1>0, <2>1, <2>2, <2>3 DEF BsdInv, ScanInv, B!CachedIsActive
  <2> QED
    BY <2>3, <2>4 DEF BsdInv
<1>5. CASE B!ScanFails
  <2>1. scan' = B!NoScan /\ fd' = fd /\ B!CachedIsActive' /\ ScanInv' /\ scan'.fd = B!None
    BY <1>0, <1>5, KeepFacts DEF B!ScanFails, ScanInv, B!NoScan, Numbers
  <2>2. CASE fds' = B!CloseAll(fds, {scan.fd}) /\ lost' = lost
    BY <1>0, <2>1, <2>2, CloseBusKeeps DEF BsdInv
  <2>3. CASE system # "OpenBSD" /\ \E p \in Places : B!Lose(B!File(p, 0))
    BY <1>0, <2>1, <2>3, LoseKeeps DEF BsdInv
  <2>4. CASE system # "OpenBSD" /\ fds' = fds /\ lost' = lost
    <3>1. KeptInv' /\ HandleInv' /\ CallInv'
      BY <1>0, <2>1, <2>4, UsedKeeps DEF UsedKept
    <3>2. TableInv' /\ LeakInv'
      BY <1>0, <2>1, <2>4 DEF BsdInv, TableInv, LeakInv
    <3> QED
      BY <2>1, <3>1, <3>2 DEF BsdInv
  <2> QED
    BY <1>0, <1>1, <1>5, <2>2, <2>3, <2>4 DEF B!ScanFails
<1>6. CASE B!EndScan
  <2>1. /\ scan' = B!NoScan /\ fd' = fd /\ B!CachedIsActive' /\ ScanInv' /\ scan'.fd = B!None
        /\ fds' = B!CloseAll(fds, {scan.fd}) /\ lost' = lost
    BY <1>0, <1>6, KeepFacts DEF B!EndScan, ScanInv, B!NoScan, Numbers
  <2> QED
    BY <1>0, <2>1, CloseBusKeeps DEF BsdInv
<1>7. (B!List \/ B!Skip) => fds' = fds /\ fd' = fd /\ lost' = lost
  BY DEF B!List, B!Skip, B!device
<1> QED
  BY <1>3, <1>4, <1>5, <1>6, <1>7 DEF B!Scan

\* What a handle is, while it is open.
LEMMA HandleFacts ==
  ASSUME B!UsbBsdAssumption, BsdInv, NEW h \in Handles, bsdPc[h] = "ready"
  PROVE  /\ place[h] \in Places /\ claimed[h] \in SUBSET Interfaces
         /\ \A g \in Handles : g # h => place[g] # place[h]
         /\ B!HasNode(place[h]) => fd[place[h]] # B!None
<1> QED
  BY FileFacts DEF BsdInv, HandleInv

\* An interface is claimed: its endpoints are not open.
LEMMA BsdClaim ==
  ASSUME B!UsbBsdAssumption, BsdInv, ~Several, NEW h \in Handles, NEW i \in Interfaces, B!Claim(h, i)
  PROVE  BsdInv'
<1>1. /\ UNCHANGED <<system, present, config, cdesc, fd, held, scan, place, fds, bsdPc, node, ran, lost, stale>>
      /\ bsdPc[h] = "ready" /\ claimed[h] = {}
      /\ claimed' = [claimed EXCEPT ![h] = @ \cup {i}]
      /\ endpoints' = [endpoints EXCEPT ![h] = [e \in Endpoints |-> B!None]]
  BY DEF B!Claim, B!device, B!transfer, B!Still
<1>2. /\ claimed' \in [Handles -> SUBSET Interfaces] /\ claimed'[h] = {i}
      /\ \A g \in Handles : g # h => claimed'[g] = claimed[g]
  BY <1>1 DEF BsdInv, HandleInv
<1>3. /\ endpoints' \in [Handles -> [Endpoints -> Numbers]]
      /\ \A e \in Endpoints : endpoints'[h][e] = B!None
      /\ \A g \in Handles : g # h => endpoints'[g] = endpoints[g]
  BY <1>1 DEF BsdInv, KeptInv, Numbers
<1>4. TableInv' /\ ScanInv' /\ B!CachedIsActive'
  BY <1>1 DEF BsdInv, TableInv, ScanInv, B!CachedIsActive
<1>5. KeptInv'
  <2>1. \A p \in Places : fd[p] # B!None => p \in B!InUse' /\ OnEndpoint(fd[p], p, 0)'
    BY <1>1 DEF BsdInv, KeptInv, B!InUse, OnEndpoint
  <2>2. ASSUME NEW g \in Handles, NEW e \in Endpoints, claimed'[g] # {}, endpoints'[g][e] # B!None
        PROVE  OnEndpoint(endpoints[g][e], place[g], e)' /\ endpoints'[g][e] = endpoints[g][e]
    BY <1>1, <1>2, <1>3, <2>2 DEF BsdInv, KeptInv, OnEndpoint
  <2>3. fd' \in [Places -> Numbers]
    BY <1>1 DEF BsdInv, KeptInv
  <2> QED
    BY <1>1, <1>3, <2>1, <2>2, <2>3 DEF KeptInv, OnEndpoint
<1>6. HandleInv'
  <2>1. \A g \in Handles : \A j, k \in claimed'[g] : j = k
    BY <1>2 DEF BsdInv, HandleInv
  <2>2. \A g \in Handles : claimed'[g] # {} => bsdPc[g] # "closed"
    BY <1>1, <1>2 DEF BsdInv, HandleInv
  <2> QED
    BY <1>1, <1>2, <2>1, <2>2 DEF BsdInv, HandleInv, B!HasNode
<1>7. CallInv'
  <2>1. bsdPc'[h] = "ready" /\ "ready" \notin InCall \cup {"access", "timeout", "transfer", "done"}
    BY <1>1 DEF InCall
  <2> QED
    BY <1>1, <1>2, <1>3, <2>1 DEF BsdInv, CallInv, B!FdOf, B!HasNode
<1>8. LeakInv'
  <2> SUFFICES ASSUME NEW f \in FdNumbers, fds[f].place # B!None
               PROVE  \/ f = scan.fd \/ f \in lost \/ \E p \in Places : fd[p] = f
                      \/ \E g \in Handles, e \in Endpoints : claimed'[g] # {} /\ endpoints'[g][e] = f
    BY <1>1 DEF LeakInv
  <2>1. \/ f = scan.fd \/ f \in lost \/ \E p \in Places : fd[p] = f
        \/ \E g \in Handles, e \in Endpoints : claimed[g] # {} /\ endpoints[g][e] = f
    BY DEF BsdInv, LeakInv
  <2>2. ASSUME NEW g \in Handles, NEW e \in Endpoints, claimed[g] # {}, endpoints[g][e] = f
        PROVE  claimed'[g] # {} /\ endpoints'[g][e] = f
    BY <1>1, <1>2, <1>3, <2>2
  <2> QED
    BY <2>1, <2>2
<1> QED
  BY <1>4, <1>5, <1>6, <1>7, <1>8 DEF BsdInv

\* It is released: what its endpoints had open is closed.
LEMMA BsdRelease ==
  ASSUME B!UsbBsdAssumption, BsdInv, NEW h \in Handles, NEW i \in Interfaces, B!Release(h, i)
  PROVE  BsdInv'
<1> DEFINE mine == B!Range(endpoints[h])
<1>1. /\ UNCHANGED <<system, present, config, cdesc, fd, held, scan, place, endpoints, bsdPc, node, ran, lost, stale>>
      /\ bsdPc[h] = "ready" /\ claimed[h] = {i}
      /\ claimed' = [claimed EXCEPT ![h] = @ \ {i}]
      /\ fds' = B!CloseAll(fds, mine)
  BY DEF B!Release, B!device, B!transfer, B!Still, BsdInv, HandleInv
<1>2. /\ claimed' \in [Handles -> SUBSET Interfaces] /\ claimed'[h] = {}
      /\ \A g \in Handles : g # h => claimed'[g] = claimed[g]
  BY <1>1 DEF BsdInv, HandleInv
<1>3. /\ \A f \in mine : \E e \in Endpoints : endpoints[h][e] = f
      /\ \A e \in Endpoints : endpoints[h][e] \in mine
  BY DEF BsdInv, KeptInv, B!Range
<1> HIDE DEF mine
<1>4. fds' = [f \in FdNumbers |-> IF f \in mine THEN B!Free ELSE fds[f]]
  BY <1>1 DEF B!CloseAll, BsdInv, TableInv
<1>5. TableInv'
  BY <1>4, FileFacts DEF BsdInv, TableInv
<1>6. ASSUME NEW f \in FdNumbers, f \in mine
      PROVE  fds[f].place = place[h] /\ fds[f].node # 0 /\ place[h] \in Places
  <2>1. PICK e \in Endpoints : endpoints[h][e] = f
    BY <1>3, <1>6
  <2> QED
    BY <1>1, <1>6, <2>1, KeptFacts, FileFacts
<1>7. \A p \in Places : fd[p] # B!None => fds'[fd[p]] = fds[fd[p]]
  BY <1>4, <1>6, KeptFacts
<1>8. ASSUME NEW g \in Handles, NEW e \in Endpoints, claimed'[g] # {}, endpoints[g][e] # B!None
      PROVE  g # h /\ fds'[endpoints[g][e]] = fds[endpoints[g][e]]
  <2>1. g # h /\ claimed[g] # {}
    BY <1>2, <1>8
  <2>2. place[g] # place[h]
    BY <1>1, <2>1, HandleFacts
  <2>3. endpoints[g][e] \in FdNumbers /\ fds[endpoints[g][e]].place = place[g]
    BY <1>8, <2>1, KeptFacts
  <2> QED
    BY <1>4, <1>6, <2>1, <2>2, <2>3
<1>9. ScanInv' /\ B!CachedIsActive'
  <2>1. scan.fd # B!None => fds'[scan.fd] = fds[scan.fd]
    BY <1>4, <1>6, KeptFacts, FileFacts
  <2> QED
    BY <1>1, <2>1 DEF BsdInv, ScanInv, B!CachedIsActive
<1>10. KeptInv'
  <2>1. \A p \in Places : fd[p] # B!None => p \in B!InUse' /\ OnEndpoint(fd[p], p, 0)'
    BY <1>1, <1>7 DEF BsdInv, KeptInv, B!InUse, OnEndpoint
  <2>2. ASSUME NEW g \in Handles, NEW e \in Endpoints, claimed'[g] # {}, endpoints[g][e] # B!None
        PROVE  OnEndpoint(endpoints[g][e], place[g], e)'
    <3>1. fds'[endpoints[g][e]] = fds[endpoints[g][e]] /\ claimed[g] # {}
      BY <1>2, <1>8, <2>2
    <3> QED
      BY <1>1, <2>2, <3>1 DEF BsdInv, KeptInv, OnEndpoint
  <2>3. fd' \in [Places -> Numbers] /\ endpoints' \in [Handles -> [Endpoints -> Numbers]]
    BY <1>1 DEF BsdInv, KeptInv
  <2> QED
    BY <1>1, <2>1, <2>2, <2>3 DEF KeptInv, OnEndpoint
<1>11. HandleInv'
  <2>1. \A g \in Handles : \A j, k \in claimed'[g] : j = k
    BY <1>2 DEF BsdInv, HandleInv
  <2>2. \A g \in Handles : claimed'[g] # {} => bsdPc[g] # "closed"
    BY <1>1, <1>2 DEF BsdInv, HandleInv
  <2> QED
    BY <1>1, <1>2, <2>1, <2>2 DEF BsdInv, HandleInv, B!HasNode
<1>12. CallInv'
  <2>1. bsdPc'[h] = "ready" /\ "ready" \notin InCall \cup {"access", "timeout", "transfer", "done"}
    BY <1>1 DEF InCall
  <2>2. ASSUME NEW g \in Handles, g # h, bsdPc[g] = "transfer"
        PROVE  fds'[B!FdOf(g)] = fds[B!FdOf(g)]
    <3>1. B!FdOf(g) # B!None /\ place[g] \in Places /\ node[g] \in Endpoints \cup {0} /\ (node[g] # 0 => claimed[g] # {})
      BY <2>2, CallFacts DEF BsdInv, CallInv, InCall
    <3>2. CASE node[g] = 0
      BY <1>7, <3>1, <3>2 DEF B!FdOf
    <3>3. CASE node[g] # 0
      BY <1>2, <1>8, <2>2, <3>1, <3>3 DEF B!FdOf
    <3> QED
      BY <3>2, <3>3
  <2> SUFFICES ASSUME NEW g \in Handles
               PROVE  /\ bsdPc'[g] \in InCall /\ node[g] # 0 => claimed'[g] # {}
                      /\ bsdPc'[g] \in InCall => B!HasNode(place[g])
                      /\ bsdPc'[g] = "access" => node[g] # 0
                      /\ bsdPc'[g] \in {"timeout", "transfer"} => B!FdOf(g) # B!None
                      /\ bsdPc'[g] = "transfer" => fds'[B!FdOf(g)].timeout = g
                      /\ bsdPc'[g] = "done" => ran[g] = [B!File(place[g], node[g]) EXCEPT !.timeout = g]
    BY <1>1 DEF CallInv, B!HasNode, B!FdOf
  <2>3. CASE g = h
    BY <2>1, <2>3
  <2>4. CASE g # h
    BY <1>1, <1>2, <2>2, <2>4 DEF BsdInv, CallInv
  <2> QED
    BY <2>3, <2>4
<1>13. LeakInv'
  <2> SUFFICES ASSUME NEW f \in FdNumbers, fds'[f].place # B!None
               PROVE  \/ f = scan.fd \/ f \in lost \/ \E p \in Places : fd[p] = f
                      \/ \E g \in Handles, e \in Endpoints : claimed'[g] # {} /\ endpoints[g][e] = f
    BY <1>1 DEF LeakInv
  <2>1. f \notin mine /\ fds[f].place # B!None
    BY <1>4, FileFacts
  <2>2. \/ f = scan.fd \/ f \in lost \/ \E p \in Places : fd[p] = f
        \/ \E g \in Handles, e \in Endpoints : claimed[g] # {} /\ endpoints[g][e] = f
    BY <2>1 DEF BsdInv, LeakInv
  <2>3. ASSUME NEW g \in Handles, NEW e \in Endpoints, claimed[g] # {}, endpoints[g][e] = f
        PROVE  claimed'[g] # {}
    BY <1>2, <1>3, <2>1, <2>3
  <2> QED
    BY <2>2, <2>3
<1> QED
  BY <1>5, <1>9, <1>10, <1>11, <1>12, <1>13 DEF BsdInv

\* The handle is closed, and the descriptor of its device.
LEMMA BsdClose ==
  ASSUME B!UsbBsdAssumption, BsdInv, NEW h \in Handles, B!Close(h)
  PROVE  BsdInv'
<1> DEFINE p == place[h]
<1>0. p \in Places /\ \A g \in Handles : g # h => place[g] # p
  BY HandleFacts DEF B!Close
<1>1. /\ UNCHANGED <<system, present, config, held, scan, claimed, node, ran, lost, stale>>
      /\ bsdPc[h] = "ready" /\ claimed[h] = {}
      /\ fds' = B!CloseAll(fds, {fd[p]}) /\ fd' = [fd EXCEPT ![p] = B!None]
      /\ place' = [place EXCEPT ![h] = B!None] /\ bsdPc' = [bsdPc EXCEPT ![h] = "closed"]
      /\ endpoints' = [endpoints EXCEPT ![h] = [e \in Endpoints |-> 0]]
      /\ DOMAIN cdesc' = Places /\ \A q \in Places : cdesc'[q] = cdesc[q] \/ cdesc'[q] = B!None
  BY DEF B!Close, B!Still
<1> HIDE DEF p
<1>2. /\ place' \in [Handles -> Places \cup {B!None}] /\ place'[h] = B!None
      /\ bsdPc' \in [Handles -> {"closed", "ready"} \cup InCall] /\ bsdPc'[h] = "closed"
      /\ \A g \in Handles : g # h => place'[g] = place[g] /\ bsdPc'[g] = bsdPc[g] /\ endpoints'[g] = endpoints[g]
      /\ endpoints' \in [Handles -> [Endpoints -> Numbers]]
      /\ fd' \in [Places -> Numbers] /\ fd'[p] = B!None /\ \A q \in Places : q # p => fd'[q] = fd[q]
  <2>1. 0 \in Numbers /\ B!None \in Numbers
    BY DEF Numbers, FdNumbers, B!UsbBsdAssumption
  <2> QED
    BY <1>0, <1>1, <2>1 DEF BsdInv, KeptInv, HandleInv
<1>3. fds' = [f \in FdNumbers |-> IF f = fd[p] THEN B!Free ELSE fds[f]]
  BY <1>1 DEF B!CloseAll, BsdInv, TableInv
<1>4. fd[p] # B!None => fds[fd[p]].place = p
  BY <1>0, KeptFacts
<1>5. \A f \in FdNumbers : fds[f].place # p => fds'[f] = fds[f]
  BY <1>3, <1>4, FileFacts
<1>6. /\ \A q \in Places : q # p /\ fd[q] # B!None => fds'[fd[q]] = fds[fd[q]]
      /\ \A g \in Handles, e \in Endpoints : g # h /\ claimed[g] # {} /\ endpoints[g][e] # B!None =>
           fds'[endpoints[g][e]] = fds[endpoints[g][e]]
      /\ scan.fd # B!None => fds'[scan.fd] = fds[scan.fd]
  BY <1>0, <1>5, KeptFacts, FileFacts
<1>7. TableInv'
  BY <1>3, FileFacts DEF BsdInv, TableInv
<1>8. KeptInv'
  <2>1. ASSUME NEW q \in Places, fd'[q] # B!None PROVE q \in B!InUse' /\ OnEndpoint(fd[q], q, 0)'
    <3>1. q # p /\ fd'[q] = fd[q] /\ fd[q] # B!None
      BY <1>2, <2>1
    <3>2. PICK g \in Handles : place[g] = q
      BY <3>1 DEF BsdInv, KeptInv, B!InUse
    <3>3. place'[g] = q
      BY <1>2, <3>1, <3>2 DEF p
    <3> QED
      BY <1>6, <3>1, <3>3, FileFacts DEF BsdInv, KeptInv, B!InUse, OnEndpoint
  <2>2. ASSUME NEW g \in Handles, NEW e \in Endpoints, claimed[g] # {}, endpoints'[g][e] # B!None
        PROVE  OnEndpoint(endpoints[g][e], place[g], e)'
    <3>1. g # h /\ place'[g] = place[g] /\ endpoints'[g][e] = endpoints[g][e] /\ endpoints[g][e] # B!None
      BY <1>1, <1>2, <2>2
    <3>2. fds'[endpoints[g][e]] = fds[endpoints[g][e]] /\ OnEndpoint(endpoints[g][e], place[g], e)
      BY <1>6, <2>2, <3>1 DEF BsdInv, KeptInv
    <3> QED
      BY <3>1, <3>2 DEF OnEndpoint
  <2>3. /\ fd' \in [Places -> Numbers] /\ endpoints' \in [Handles -> [Endpoints -> Numbers]]
        /\ claimed' = claimed
    BY <1>1, <1>2
  <2> QED
    BY <2>1, <2>2, <2>3 DEF KeptInv, OnEndpoint
<1>9. HandleInv'
  <2>1. \A g, k \in Handles : place'[g] = place'[k] /\ place'[g] # B!None => g = k
    BY <1>2 DEF BsdInv, HandleInv
  <2>2. \A g \in Handles : B!HasNode(place'[g]) /\ place'[g] # B!None => fd'[place'[g]] # B!None
    BY <1>0, <1>2 DEF BsdInv, HandleInv, B!HasNode
  <2>3. \A g \in Handles : bsdPc'[g] = "closed" <=> place'[g] = B!None
    BY <1>2 DEF BsdInv, HandleInv
  <2>4. \A g \in Handles : claimed'[g] # {} => bsdPc'[g] # "closed"
    BY <1>1, <1>2 DEF BsdInv, HandleInv
  <2> QED
    BY <1>1, <1>2, <2>1, <2>2, <2>3, <2>4 DEF BsdInv, HandleInv, B!HasNode
<1>10. CallInv'
  <2> SUFFICES ASSUME NEW g \in Handles
               PROVE  /\ bsdPc'[g] \in InCall /\ node[g] # 0 => claimed[g] # {}
                      /\ bsdPc'[g] \in InCall => B!HasNode(place'[g])
                      /\ bsdPc'[g] = "access" => node[g] # 0
                      /\ bsdPc'[g] \in {"timeout", "transfer"} => B!FdOf(g)' # B!None
                      /\ bsdPc'[g] = "transfer" => fds'[B!FdOf(g)'].timeout = g
                      /\ bsdPc'[g] = "done" => ran[g] = [B!File(place'[g], node[g]) EXCEPT !.timeout = g]
    BY <1>1 DEF CallInv, B!HasNode, B!FdOf
  <2>1. CASE g = h
    BY <1>2, <2>1 DEF InCall
  <2>2. CASE g # h
    <3>1. place'[g] = place[g] /\ place[g] # p /\ bsdPc'[g] = bsdPc[g] /\ endpoints'[g] = endpoints[g]
      BY <1>0, <1>2, <2>2
    <3>2. ASSUME bsdPc[g] \in {"timeout", "transfer"}
          PROVE  B!FdOf(g)' = B!FdOf(g) /\ fds'[B!FdOf(g)] = fds[B!FdOf(g)]
      <4>1. /\ B!FdOf(g) # B!None /\ place[g] \in Places /\ node[g] \in Endpoints \cup {0} /\ (node[g] # 0 => claimed[g] # {})
            /\ B!FdOf(g) \in FdNumbers /\ fds[B!FdOf(g)].place = place[g]
        BY <3>2, CallFacts DEF BsdInv, CallInv, InCall
      <4>2. B!FdOf(g)' = B!FdOf(g)
        BY <1>1, <1>2, <3>1, <4>1 DEF B!FdOf
      <4> QED
        BY <1>5, <3>1, <4>1, <4>2
    <3> QED
      BY <3>1, <3>2 DEF BsdInv, CallInv
  <2> QED
    BY <2>1, <2>2
<1>11. ScanInv' /\ B!CachedIsActive'
  <2>1. ScanInv'
    BY <1>1, <1>6 DEF BsdInv, ScanInv
  <2>2. B!CachedIsActive'
    BY <1>1 DEF BsdInv, B!CachedIsActive
  <2> QED
    BY <2>1, <2>2
<1>12. LeakInv'
  <2> SUFFICES ASSUME NEW f \in FdNumbers, fds'[f].place # B!None
               PROVE  \/ f = scan.fd \/ f \in lost \/ \E q \in Places : fd'[q] = f
                      \/ \E g \in Handles, e \in Endpoints : claimed[g] # {} /\ endpoints'[g][e] = f
    BY <1>1 DEF LeakInv
  <2>1. f # fd[p] /\ fds[f].place # B!None
    BY <1>3, FileFacts
  <2>2. \/ f = scan.fd \/ f \in lost \/ \E q \in Places : fd[q] = f
        \/ \E g \in Handles, e \in Endpoints : claimed[g] # {} /\ endpoints[g][e] = f
    BY <2>1 DEF BsdInv, LeakInv
  <2>3. ASSUME NEW q \in Places, fd[q] = f PROVE fd'[q] = f
    BY <1>2, <2>1, <2>3
  <2>4. ASSUME NEW g \in Handles, NEW e \in Endpoints, claimed[g] # {}, endpoints[g][e] = f
        PROVE  endpoints'[g][e] = f
    BY <1>1, <1>2, <2>4
  <2> QED
    BY <2>2, <2>3, <2>4
<1> QED
  BY <1>7, <1>8, <1>9, <1>10, <1>11, <1>12 DEF BsdInv

\* A device that no handle uses is opened.
LEMMA BsdOpen ==
  ASSUME B!UsbBsdAssumption, BsdInv, ~Shared, NEW h \in Handles, NEW p \in Places, B!Open(h, p)
  PROVE  BsdInv'
<1> DEFINE f == B!Min(B!FreeFds(fds))
           opens == B!HasNode(p) /\ p \in present /\ ~B!Full(fds)
<1>1. /\ UNCHANGED <<system, present, config, cdesc, held, scan, claimed, endpoints, node, ran, lost, stale>>
      /\ bsdPc[h] = "closed" /\ p \notin B!InUse
      /\ fds' = IF opens THEN B!Opened(fds, B!File(p, 0)) ELSE fds
      /\ fd' = [fd EXCEPT ![p] = IF opens THEN f ELSE B!None]
      /\ IF opens \/ ~B!HasNode(p)
         THEN place' = [place EXCEPT ![h] = p] /\ bsdPc' = [bsdPc EXCEPT ![h] = "ready"]
         ELSE UNCHANGED <<place, bsdPc>>
  BY DEF B!Open, B!Still
<1>2. /\ place[h] = B!None /\ claimed[h] = {} /\ fd[p] = B!None /\ fd \in [Places -> Numbers]
      /\ \A g \in Handles : place[g] # p
  BY <1>1, FileFacts DEF BsdInv, HandleInv, KeptInv, B!InUse
<1>3. /\ opens => /\ f \in FdNumbers /\ TableInv' /\ fds'[f] = B!File(p, 0) /\ \A g \in FdNumbers : g # f => fds'[g] = fds[g]
                  /\ \A q \in Places : fd[q] # f
                  /\ \A g \in Handles, e \in Endpoints : claimed[g] # {} => endpoints[g][e] # f
                  /\ scan.fd # f
      /\ ~opens => fds' = fds
  <2>1. B!File(p, 0) \in Files /\ B!File(p, 0).place # B!None
    BY FileFacts
  <2> QED
    BY <1>1, <2>1, OpenedKeeps
<1>4. CASE ~opens /\ B!HasNode(p)
  <2>1. fd' = fd /\ place' = place /\ bsdPc' = bsdPc /\ fds' = fds
    BY <1>1, <1>2, <1>4
  <2>2. KeptInv' /\ HandleInv' /\ CallInv'
    BY <1>1, <2>1, UsedKeeps DEF UsedKept
  <2> QED
    BY <1>1, <2>1, <2>2 DEF BsdInv, TableInv, ScanInv, LeakInv, B!CachedIsActive
<1>5. CASE opens \/ ~B!HasNode(p)
  <2>1. /\ place' \in [Handles -> Places \cup {B!None}] /\ place'[h] = p
        /\ bsdPc' \in [Handles -> {"closed", "ready"} \cup InCall] /\ bsdPc'[h] = "ready"
        /\ \A g \in Handles : g # h => place'[g] = place[g] /\ bsdPc'[g] = bsdPc[g]
        /\ fd' \in [Places -> Numbers] /\ fd'[p] = (IF opens THEN f ELSE B!None)
        /\ \A q \in Places : q # p => fd'[q] = fd[q]
    <3>1. f \in Numbers \/ ~opens
      BY <1>3 DEF Numbers
    <3>2. B!None \in Numbers
      BY DEF Numbers
    <3> HIDE DEF f, opens
    <3> QED
      BY <1>1, <1>2, <1>5, <3>1, <3>2 DEF BsdInv, HandleInv
  <2>2. opens <=> B!HasNode(p)
    BY <1>5
  <2> HIDE DEF f, opens
  <2>3. UsedKept
    BY <1>3, KeptFacts DEF UsedKept
  <2>4. TableInv' /\ ScanInv' /\ B!CachedIsActive'
    <3>1. TableInv'
      BY <1>3 DEF BsdInv, TableInv
    <3>2. scan.fd # B!None => fds'[scan.fd] = fds[scan.fd]
      BY <1>3, KeptFacts
    <3> QED
      BY <1>1, <3>1, <3>2 DEF BsdInv, ScanInv, B!CachedIsActive
  <2>5. KeptInv'
    <3>1. ASSUME NEW q \in Places, fd'[q] # B!None PROVE q \in B!InUse' /\ OnEndpoint(fd[q], q, 0)'
      <4>1. CASE q = p
        BY <1>3, <2>1, <3>1, <4>1, FileFacts DEF B!InUse, OnEndpoint
      <4>2. CASE q # p
        <5>1. fd'[q] = fd[q] /\ fds'[fd[q]] = fds[fd[q]] /\ q \in B!InUse /\ OnEndpoint(fd[q], q, 0)
          BY <2>1, <2>3, <3>1, <4>2 DEF BsdInv, KeptInv, UsedKept
        <5>2. PICK g \in Handles : place[g] = q
          BY <5>1 DEF B!InUse
        <5>3. place'[g] = q
          BY <1>2, <2>1, <5>2, FileFacts
        <5> QED
          BY <5>1, <5>3, FileFacts DEF B!InUse, OnEndpoint
      <4> QED
        BY <4>1, <4>2
    <3>2. ASSUME NEW g \in Handles, NEW e \in Endpoints, claimed[g] # {}, endpoints[g][e] # B!None
          PROVE  OnEndpoint(endpoints[g][e], place[g], e)'
      <4>1. g # h /\ fds'[endpoints[g][e]] = fds[endpoints[g][e]]
        BY <1>2, <2>3, <3>2 DEF UsedKept
      <4> QED
        BY <1>1, <2>1, <3>2, <4>1 DEF BsdInv, KeptInv, OnEndpoint
    <3>3. endpoints' \in [Handles -> [Endpoints -> Numbers]]
      BY <1>1 DEF BsdInv, KeptInv
    <3> QED
      BY <1>1, <2>1, <3>1, <3>2, <3>3 DEF KeptInv, OnEndpoint
  <2>6. HandleInv'
    <3>1. \A g, k \in Handles : place'[g] = place'[k] /\ place'[g] # B!None => g = k
      BY <1>2, <2>1 DEF BsdInv, HandleInv
    <3>2. \A g \in Handles : B!HasNode(place'[g]) /\ place'[g] # B!None => fd'[place'[g]] # B!None
      <4> TAKE g \in Handles
      <4>1. CASE g = h
        BY <1>3, <2>1, <2>2, <4>1, FileFacts
      <4>2. CASE g # h
        BY <1>2, <2>1, <4>2 DEF BsdInv, HandleInv, B!HasNode
      <4> QED
        BY <4>1, <4>2
    <3>3. \A g \in Handles : bsdPc'[g] = "closed" <=> place'[g] = B!None
      BY <2>1, FileFacts DEF BsdInv, HandleInv
    <3>4. \A g \in Handles : claimed'[g] # {} => bsdPc'[g] # "closed"
      BY <1>1, <1>2, <2>1 DEF BsdInv, HandleInv
    <3> QED
      BY <1>1, <2>1, <3>1, <3>2, <3>3, <3>4 DEF BsdInv, HandleInv, B!HasNode
  <2>7. CallInv'
    <3> SUFFICES ASSUME NEW g \in Handles
                 PROVE  /\ bsdPc'[g] \in InCall /\ node[g] # 0 => claimed[g] # {}
                        /\ bsdPc'[g] \in InCall => B!HasNode(place'[g])
                        /\ bsdPc'[g] = "access" => node[g] # 0
                        /\ bsdPc'[g] \in {"timeout", "transfer"} => B!FdOf(g)' # B!None
                        /\ bsdPc'[g] = "transfer" => fds'[B!FdOf(g)'].timeout = g
                        /\ bsdPc'[g] = "done" => ran[g] = [B!File(place'[g], node[g]) EXCEPT !.timeout = g]
      BY <1>1 DEF CallInv, B!HasNode, B!FdOf
    <3>1. CASE g = h
      BY <2>1, <3>1 DEF InCall
    <3>2. CASE g # h
      <4>1. place'[g] = place[g] /\ place[g] # p /\ bsdPc'[g] = bsdPc[g]
        BY <1>2, <2>1, <3>2
      <4>2. ASSUME bsdPc[g] \in {"timeout", "transfer"}
            PROVE  B!FdOf(g)' = B!FdOf(g) /\ fds'[B!FdOf(g)] = fds[B!FdOf(g)]
        <5>1. /\ B!FdOf(g) # B!None /\ place[g] \in Places /\ node[g] \in Endpoints \cup {0} /\ (node[g] # 0 => claimed[g] # {})
          BY <4>2, CallFacts DEF BsdInv, CallInv, InCall
        <5>2. B!FdOf(g)' = B!FdOf(g)
          BY <1>1, <2>1, <4>1, <5>1 DEF B!FdOf
        <5>3. fds'[B!FdOf(g)] = fds[B!FdOf(g)]
          BY <2>3, <5>1 DEF UsedKept, B!FdOf
        <5> QED
          BY <5>2, <5>3
      <4> QED
        BY <4>1, <4>2 DEF BsdInv, CallInv
    <3> QED
      BY <3>1, <3>2
  <2>8. LeakInv'
    <3> SUFFICES ASSUME NEW k \in FdNumbers, fds'[k].place # B!None
                 PROVE  \/ k = scan.fd \/ k \in lost \/ \E q \in Places : fd'[q] = k
                        \/ \E g \in Handles, e \in Endpoints : claimed[g] # {} /\ endpoints[g][e] = k
      BY <1>1 DEF LeakInv
    <3>1. CASE opens /\ k = f
      BY <2>1, <3>1
    <3>2. CASE ~(opens /\ k = f)
      <4>1. fds[k].place # B!None
        BY <1>3, <3>2
      <4>2. \A q \in Places : fd[q] = k => fd'[q] = k
        BY <1>2, <2>1, FileFacts
      <4> QED
        BY <4>1, <4>2 DEF BsdInv, LeakInv
    <3> QED
      BY <3>1, <3>2
  <2> QED
    BY <2>4, <2>5, <2>6, <2>7, <2>8 DEF BsdInv
<1> QED
  BY <1>4, <1>5

\* The transfer opens its endpoint, unless it is open.
LEMMA BsdAccess ==
  ASSUME B!UsbBsdAssumption, BsdInv, NEW h \in Handles, B!Access(h)
  PROVE  BsdInv'
<1> DEFINE e == node[h]
           f == B!Min(B!FreeFds(fds))
<1>1. /\ UNCHANGED <<system, present, config, cdesc, fd, held, scan, place, claimed, ran, lost, stale>>
      /\ bsdPc[h] = "access" /\ DOMAIN ran = Handles /\ node = [node EXCEPT ![h] = e]
  BY DEF B!Access, B!Kept, B!device, B!Still, BsdInv, HandleInv
<1>2. e \in Endpoints /\ claimed[h] # {} /\ place[h] \in Places /\ B!HasNode(place[h])
  <2>1. place[h] \in Places
    BY <1>1, FileFacts DEF BsdInv, HandleInv
  <2> QED
    BY <1>1, <2>1 DEF BsdInv, HandleInv, CallInv, InCall
<1>3. endpoints \in [Handles -> [Endpoints -> Numbers]]
  BY DEF BsdInv, KeptInv
<1>4. CASE endpoints[h][e] >= 0 /\ B!Step(h, "timeout") /\ UNCHANGED <<fds, endpoints, node>>
  <2>1. endpoints[h][e] # B!None /\ e # 0
    BY <1>2, <1>4 DEF B!None, B!UsbBsdAssumption
  <2>2. CallGoes(h, "timeout", e)
    BY <1>1, <1>2, <1>4, <2>1 DEF B!Step, CallGoes, InCall
  <2>3. "timeout" \in {"ready"} \cup InCall /\ bsdPc[h] # "closed"
    BY <1>1 DEF InCall
  <2> QED
    BY <1>2, <2>2, <2>3, CallKeeps
<1>5. CASE B!Back(h) /\ UNCHANGED <<fds, endpoints>>
  <2>1. CallGoes(h, "ready", 0)
    BY <1>1, <1>5 DEF B!Step, B!Back, CallGoes, InCall
  <2>2. bsdPc[h] # "closed"
    BY <1>1
  <2> QED
    BY <2>1, <2>2, CallKeeps
<1>6. CASE /\ endpoints[h][e] < 0 /\ ~B!Full(fds) /\ fds' = B!Opened(fds, B!File(place[h], e))
           /\ endpoints' = [endpoints EXCEPT ![h][e] = f]
           /\ B!Step(h, "timeout") /\ UNCHANGED node
  <2>1. B!File(place[h], e) \in Files /\ B!File(place[h], e).place = place[h] /\ B!File(place[h], e).node = e
        /\ place[h] # B!None
    BY <1>2, FileFacts
  <2>2. /\ TableInv' /\ f \in FdNumbers /\ fds'[f] = B!File(place[h], e) /\ \A g \in FdNumbers : g # f => fds'[g] = fds[g]
        /\ \A p \in Places : fd[p] # f
        /\ \A g \in Handles, n \in Endpoints : claimed[g] # {} => endpoints[g][n] # f
        /\ scan.fd # f
    BY <1>6, <2>1, OpenedKeeps
  <2> HIDE DEF f, e
  <2>3. UsedKept
    BY <2>2, KeptFacts DEF UsedKept
  <2>4. /\ endpoints' \in [Handles -> [Endpoints -> Numbers]] /\ endpoints'[h][e] = f
        /\ \A n \in Endpoints : n # e => endpoints'[h][n] = endpoints[h][n]
        /\ \A g \in Handles : g # h => endpoints'[g] = endpoints[g]
    BY <1>2, <1>3, <1>6, <2>2 DEF Numbers
  <2>5. /\ bsdPc' \in [Handles -> {"closed", "ready"} \cup InCall] /\ bsdPc'[h] = "timeout"
        /\ \A g \in Handles : g # h => bsdPc'[g] = bsdPc[g]
    BY <1>6 DEF B!Step, BsdInv, HandleInv, InCall
  <2>6. ScanInv' /\ B!CachedIsActive'
    <3>1. scan.fd # B!None => fds'[scan.fd] = fds[scan.fd]
      BY <2>2, KeptFacts
    <3> QED
      BY <1>1, <3>1 DEF BsdInv, ScanInv, B!CachedIsActive
  <2>7. KeptInv'
    <3>1. \A p \in Places : fd[p] # B!None => p \in B!InUse' /\ OnEndpoint(fd[p], p, 0)'
      BY <1>1, <2>3 DEF BsdInv, KeptInv, B!InUse, OnEndpoint, UsedKept
    <3>2. ASSUME NEW g \in Handles, NEW n \in Endpoints, claimed[g] # {}, endpoints'[g][n] # B!None
          PROVE  OnEndpoint(endpoints[g][n], place[g], n)'
      <4>1. CASE g = h /\ n = e
        BY <1>1, <2>1, <2>2, <2>4, <4>1 DEF OnEndpoint
      <4>2. CASE ~(g = h /\ n = e)
        <5>1. endpoints'[g][n] = endpoints[g][n]
          BY <2>4, <4>2
        <5>2. fds'[endpoints[g][n]] = fds[endpoints[g][n]] /\ OnEndpoint(endpoints[g][n], place[g], n)
          BY <2>3, <3>2, <5>1 DEF BsdInv, KeptInv, UsedKept
        <5> QED
          BY <1>1, <5>1, <5>2 DEF OnEndpoint
      <4> QED
        BY <4>1, <4>2
    <3>3. fd' \in [Places -> Numbers]
      BY <1>1 DEF BsdInv, KeptInv
    <3> QED
      BY <1>1, <2>4, <3>1, <3>2, <3>3 DEF KeptInv, OnEndpoint
  <2>8. HandleInv'
    <3>1. \A g \in Handles : bsdPc'[g] = "closed" <=> bsdPc[g] = "closed"
      BY <1>1, <2>5
    <3> QED
      BY <1>1, <1>6, <2>5, <3>1 DEF BsdInv, HandleInv, B!HasNode
  <2>9. CallInv'
    <3> SUFFICES ASSUME NEW g \in Handles
                 PROVE  /\ bsdPc'[g] \in InCall /\ node[g] # 0 => claimed[g] # {}
                        /\ bsdPc'[g] \in InCall => B!HasNode(place[g])
                        /\ bsdPc'[g] = "access" => node[g] # 0
                        /\ bsdPc'[g] \in {"timeout", "transfer"} => B!FdOf(g)' # B!None
                        /\ bsdPc'[g] = "transfer" => fds'[B!FdOf(g)'].timeout = g
                        /\ bsdPc'[g] = "done" => ran[g] = [B!File(place[g], node[g]) EXCEPT !.timeout = g]
      BY <1>1, <1>6 DEF CallInv, B!HasNode, B!FdOf
    <3>1. CASE g = h
      <4>1. B!FdOf(g)' = f \/ e = 0
        BY <1>6, <2>4, <3>1 DEF B!FdOf, e
      <4>2. e # 0 /\ f # B!None
        BY <1>2, <2>2, FileFacts DEF B!UsbBsdAssumption
      <4> QED
        BY <1>2, <2>5, <3>1, <4>1, <4>2
    <3>2. CASE g # h
      <4>1. bsdPc'[g] = bsdPc[g] /\ B!FdOf(g)' = B!FdOf(g)
        BY <1>1, <1>6, <2>4, <2>5, <3>2 DEF B!FdOf
      <4>2. ASSUME bsdPc[g] = "transfer" PROVE fds'[B!FdOf(g)] = fds[B!FdOf(g)]
        <5>1. /\ B!FdOf(g) # B!None /\ place[g] \in Places /\ node[g] \in Endpoints \cup {0} /\ (node[g] # 0 => claimed[g] # {})
          BY <4>2, CallFacts DEF BsdInv, CallInv, InCall
        <5> QED
          BY <2>3, <5>1 DEF UsedKept, B!FdOf
      <4> QED
        BY <4>1, <4>2 DEF BsdInv, CallInv
    <3> QED
      BY <3>1, <3>2
  <2>10. LeakInv'
    <3> SUFFICES ASSUME NEW k \in FdNumbers, fds'[k].place # B!None
                 PROVE  \/ k = scan.fd \/ k \in lost \/ \E q \in Places : fd[q] = k
                        \/ \E g \in Handles, n \in Endpoints : claimed[g] # {} /\ endpoints'[g][n] = k
      BY <1>1 DEF LeakInv
    <3>1. CASE k = f
      BY <1>2, <2>4, <3>1
    <3>2. CASE k # f
      <4>1. \/ k = scan.fd \/ k \in lost \/ \E q \in Places : fd[q] = k
            \/ \E g \in Handles, n \in Endpoints : claimed[g] # {} /\ endpoints[g][n] = k
        BY <2>2, <3>2 DEF BsdInv, LeakInv
      <4>2. ASSUME NEW g \in Handles, NEW n \in Endpoints, claimed[g] # {}, endpoints[g][n] = k
            PROVE  endpoints'[g][n] = k
        <5>1. ~(g = h /\ n = e)
          BY <1>6, <4>2 DEF FdNumbers, e
        <5> QED
          BY <2>4, <4>2, <5>1
      <4> QED
        BY <4>1, <4>2
    <3> QED
      BY <3>1, <3>2
  <2> QED
    BY <2>2, <2>6, <2>7, <2>8, <2>9, <2>10 DEF BsdInv
<1>7. endpoints[h][e] < 0 <=> ~(endpoints[h][e] >= 0)
  <2>1. endpoints[h][e] \in Numbers
    BY <1>2, <1>3
  <2>2. Numbers \subseteq Int
    BY DEF Numbers, FdNumbers, B!None, B!UsbBsdAssumption
  <2>3. \A k \in Int : k < 0 <=> ~(k >= 0)
    OBVIOUS
  <2> HIDE DEF e
  <2> QED
    BY <2>1, <2>2, <2>3
<1> QED
  BY <1>4, <1>5, <1>6, <1>7 DEF B!Access

\* The timeout of the call becomes that of its file.
LEMMA BsdSetTimeout ==
  ASSUME B!UsbBsdAssumption, BsdInv, NEW h \in Handles, B!SetTimeout(h)
  PROVE  BsdInv'
<1> DEFINE k == B!FdOf(h)
<1>1. /\ UNCHANGED <<system, present, config, cdesc, fd, held, scan, place, claimed, endpoints, ran, lost, stale>>
      /\ bsdPc[h] = "timeout" /\ DOMAIN ran = Handles /\ node = [node EXCEPT ![h] = node[h]]
  BY DEF B!SetTimeout, B!Kept, B!device, B!Still, BsdInv, HandleInv
<1>2. CASE B!Back(h) /\ UNCHANGED fds
  <2>1. CallGoes(h, "ready", 0)
    BY <1>1, <1>2 DEF B!Step, B!Back, CallGoes, InCall
  <2>2. bsdPc[h] # "closed"
    BY <1>1
  <2> QED
    BY <2>1, <2>2, CallKeeps
<1>3. CASE fds' = [fds EXCEPT ![k].timeout = h] /\ B!Step(h, "transfer") /\ UNCHANGED node
  <2>1. k \in FdNumbers /\ k # B!None /\ fds[k].place = place[h] /\ place[h] \in Places
    BY <1>1, CallFacts
  <2>2. B!FdOf(h)' = k
    BY <1>1, <1>3 DEF B!FdOf
  <2> HIDE DEF k
  <2>3. /\ fds' \in [FdNumbers -> Files] /\ fds'[k].timeout = h
        /\ \A f \in FdNumbers : fds'[f].place = fds[f].place /\ fds'[f].node = fds[f].node
        /\ \A f \in FdNumbers : f # k => fds'[f] = fds[f]
    BY <1>3, <2>1 DEF BsdInv, TableInv, Files
  <2>4. TableInv'
    <3> SUFFICES ASSUME NEW f \in FdNumbers PROVE fds'[f] = B!Free <=> fds'[f].place = B!None
      BY <2>3 DEF TableInv
    <3>1. CASE f = k
      BY <2>1, <2>3, <3>1, FileFacts
    <3>2. CASE f # k
      BY <2>3, <3>2 DEF BsdInv, TableInv
    <3> QED
      BY <3>1, <3>2
  <2>5. /\ bsdPc' \in [Handles -> {"closed", "ready"} \cup InCall] /\ bsdPc'[h] = "transfer"
        /\ \A g \in Handles : g # h => bsdPc'[g] = bsdPc[g]
    BY <1>3 DEF B!Step, BsdInv, HandleInv, InCall
  <2>6. ScanInv' /\ B!CachedIsActive'
    BY <1>1, <2>3, KeptFacts DEF BsdInv, ScanInv, B!CachedIsActive
  <2>7. KeptInv'
    <3>1. ASSUME NEW p \in Places, fd[p] # B!None PROVE p \in B!InUse' /\ OnEndpoint(fd[p], p, 0)'
      <4>1. fd[p] \in FdNumbers /\ p \in B!InUse /\ OnEndpoint(fd[p], p, 0)
        BY <3>1, KeptFacts DEF BsdInv, KeptInv
      <4> QED
        BY <1>1, <2>3, <4>1 DEF B!InUse, OnEndpoint
    <3>2. ASSUME NEW g \in Handles, NEW n \in Endpoints, claimed[g] # {}, endpoints[g][n] # B!None
          PROVE  OnEndpoint(endpoints[g][n], place[g], n)'
      <4>1. endpoints[g][n] \in FdNumbers /\ OnEndpoint(endpoints[g][n], place[g], n)
        BY <3>2, KeptFacts DEF BsdInv, KeptInv
      <4> QED
        BY <1>1, <2>3, <4>1 DEF OnEndpoint
    <3>3. fd' \in [Places -> Numbers] /\ endpoints' \in [Handles -> [Endpoints -> Numbers]]
      BY <1>1 DEF BsdInv, KeptInv
    <3> QED
      BY <1>1, <3>1, <3>2, <3>3 DEF KeptInv, OnEndpoint
  <2>8. HandleInv'
    <3>1. \A g \in Handles : bsdPc'[g] = "closed" <=> bsdPc[g] = "closed"
      BY <1>1, <2>5
    <3> QED
      BY <1>1, <1>3, <2>5, <3>1 DEF BsdInv, HandleInv, B!HasNode
  <2>9. CallInv'
    <3> SUFFICES ASSUME NEW g \in Handles
                 PROVE  /\ bsdPc'[g] \in InCall /\ node[g] # 0 => claimed[g] # {}
                        /\ bsdPc'[g] \in InCall => B!HasNode(place[g])
                        /\ bsdPc'[g] = "access" => node[g] # 0
                        /\ bsdPc'[g] \in {"timeout", "transfer"} => B!FdOf(g)' # B!None
                        /\ bsdPc'[g] = "transfer" => fds'[B!FdOf(g)'].timeout = g
                        /\ bsdPc'[g] = "done" => ran[g] = [B!File(place[g], node[g]) EXCEPT !.timeout = g]
      BY <1>1, <1>3 DEF CallInv, B!HasNode, B!FdOf
    <3>1. CASE g = h
      <4>1. B!HasNode(place[h]) /\ (node[h] # 0 => claimed[h] # {})
        BY <1>1 DEF BsdInv, CallInv, InCall
      <4> QED
        BY <2>1, <2>2, <2>3, <2>5, <3>1, <4>1
    <3>2. CASE g # h
      <4>1. bsdPc'[g] = bsdPc[g] /\ B!FdOf(g)' = B!FdOf(g)
        BY <1>1, <1>3, <2>5, <3>2 DEF B!FdOf
      <4>2. ASSUME bsdPc[g] = "transfer" PROVE fds'[B!FdOf(g)] = fds[B!FdOf(g)]
        <5>1. B!FdOf(g) \in FdNumbers /\ fds[B!FdOf(g)].place = place[g]
          BY <4>2, CallFacts
        <5>2. place[g] # place[h]
          BY <2>1, <3>2, FileFacts DEF BsdInv, HandleInv
        <5> QED
          BY <2>1, <2>3, <5>1, <5>2
      <4> QED
        BY <4>1, <4>2 DEF BsdInv, CallInv
    <3> QED
      BY <3>1, <3>2
  <2>10. LeakInv'
    BY <1>1, <2>3 DEF BsdInv, LeakInv
  <2> QED
    BY <2>4, <2>6, <2>7, <2>8, <2>9, <2>10 DEF BsdInv
<1> QED
  BY <1>2, <1>3 DEF B!SetTimeout

\* The configuration of the device of the handle is changed.
LEMMA BsdSetConfiguration ==
  ASSUME B!UsbBsdAssumption, BsdInv, NEW h \in Handles, NEW c \in Configs, B!SetConfiguration(h, c)
  PROVE  BsdInv'
<1> DEFINE p == place[h]
<1>1. UNCHANGED <<system, present, fd, held, scan, place, claimed, endpoints, bsdPc, node, ran>>
      /\ bsdPc[h] = "ready" /\ DOMAIN config = Places /\ DOMAIN cdesc = Places
  BY DEF B!SetConfiguration, B!handle, B!transfer, BsdInv, ScanInv
<1>2. p \in Places /\ fds[fd[p]].place = p
  BY <1>1, HandleFacts, KeptFacts DEF B!SetConfiguration
<1>3. DOMAIN config' = Places /\ \A q \in Places : q # p => config'[q] = config[q]
  BY <1>1, <1>2 DEF B!SetConfiguration
<1>4. CASE cdesc' = [cdesc EXCEPT ![p] = config'[p]] /\ stale' = stale \ {p} /\ UNCHANGED <<fds, lost>>
  <2>1. KeptInv' /\ HandleInv' /\ CallInv'
    BY <1>1, <1>4, UsedKeeps DEF UsedKept
  <2>2. B!CachedIsActive'
    BY <1>1, <1>2, <1>3, <1>4 DEF BsdInv, B!CachedIsActive
  <2>3. TableInv' /\ ScanInv' /\ LeakInv'
    BY <1>1, <1>3, <1>4 DEF BsdInv, TableInv, ScanInv, LeakInv
  <2> QED
    BY <2>1, <2>2, <2>3 DEF BsdInv
<1>5. CASE stale' = stale \cup {p} /\ UNCHANGED cdesc /\ (UNCHANGED <<fds, lost>> \/ B!Lose(B!File(B!Bus, 0)))
  <2>1. B!CachedIsActive'
    BY <1>1, <1>3, <1>5 DEF BsdInv, B!CachedIsActive
  <2>2. CASE UNCHANGED <<fds, lost>>
    <3>1. KeptInv' /\ HandleInv' /\ CallInv'
      BY <1>1, <2>2, UsedKeeps DEF UsedKept
    <3>2. TableInv' /\ ScanInv' /\ LeakInv'
      BY <1>1, <1>3, <1>5, <2>2 DEF BsdInv, TableInv, ScanInv, LeakInv
    <3> QED
      BY <2>1, <3>1, <3>2 DEF BsdInv
  <2>3. CASE B!Lose(B!File(B!Bus, 0))
    <3>1. /\ TableInv' /\ KeptInv' /\ HandleInv' /\ CallInv' /\ LeakInv'
          /\ scan.fd # B!None => fds'[scan.fd] = fds[scan.fd]
      BY <1>1, <2>3, LoseKeeps
    <3>2. ScanInv'
      BY <1>1, <1>3, <1>5, <3>1 DEF BsdInv, ScanInv
    <3> QED
      BY <2>1, <3>1, <3>2 DEF BsdInv
  <2> QED
    BY <1>5, <2>2, <2>3
<1> QED
  BY <1>4, <1>5 DEF B!SetConfiguration

\* Every step keeps the invariant.
LEMMA BsdNext ==
  ASSUME B!UsbBsdAssumption, ~Shared, ~Several, BsdInv, [B!Next]_(B!vars)
  PROVE  BsdInv'
<1>1. CASE UNCHANGED B!vars
  <2>1. UNCHANGED <<system, present, config, cdesc, fd, held, scan, place, claimed, endpoints, fds, bsdPc, node, ran, lost, stale>>
    BY <1>1 DEF B!vars, B!device, B!handle, B!transfer
  <2>2. KeptInv' /\ HandleInv' /\ CallInv'
    BY <2>1, UsedKeeps DEF UsedKept
  <2> QED
    BY <2>1, <2>2 DEF BsdInv, TableInv, ScanInv, LeakInv, B!CachedIsActive
<1>2. ASSUME NEW p \in Places, B!Unplug(p) PROVE BsdInv'
  BY <1>2, BsdUnplug
<1>3. CASE B!BeginScan \/ B!Scan
  BY <1>3, BsdBeginScan, BsdScan
<1>4. ASSUME NEW h \in Handles, NEW p \in Places, B!Open(h, p) PROVE BsdInv'
  BY <1>4, BsdOpen
<1>5. ASSUME NEW h \in Handles, NEW i \in Interfaces, B!Claim(h, i) \/ B!Release(h, i) PROVE BsdInv'
  BY <1>5, BsdClaim, BsdRelease
<1>6. ASSUME NEW h \in Handles, NEW c \in Configs, B!SetConfiguration(h, c) PROVE BsdInv'
  BY <1>6, BsdSetConfiguration
<1>7. ASSUME NEW h \in Handles, (\E e \in Endpoints : B!Submit(h, e)) \/ B!Ask(h) \/ B!SubmitControl(h) \/ B!Transfer(h) \/ B!Complete(h)
      PROVE  BsdInv'
  BY <1>7, BsdCalls
<1>8. ASSUME NEW h \in Handles, B!Close(h) \/ B!Access(h) \/ B!SetTimeout(h) PROVE BsdInv'
  BY <1>8, BsdClose, BsdAccess, BsdSetTimeout
<1> QED
  BY <1>1, <1>2, <1>3, <1>4, <1>5, <1>6, <1>7, <1>8 DEF B!Next

\* Requests of OpenBSD and NetBSD go to the device and the endpoint they are for,
\* nothing leaks that is not known to, and the descriptor that is kept is that of
\* the active configuration: the three properties of UsbBsd, where a device has
\* one handle and a handle one interface.
THEOREM BsdNumbersAreTrueHolds ==
  ASSUME B!UsbBsdAssumption, ~Shared, ~Several
  PROVE  B!Spec => [](B!RequestsReachTheirDevice /\ B!OnlyFailuresLeak /\ B!CachedIsActive)
<1>1. BsdInv /\ [B!Next]_(B!vars) => BsdInv'
  BY BsdNext
<1>2. BsdInv => B!RequestsReachTheirDevice /\ B!OnlyFailuresLeak /\ B!CachedIsActive
  <2> SUFFICES ASSUME BsdInv PROVE B!RequestsReachTheirDevice /\ B!OnlyFailuresLeak /\ B!CachedIsActive
    OBVIOUS
  <2>1. B!RequestsReachTheirDevice
    BY DEF BsdInv, CallInv, B!RequestsReachTheirDevice
  <2>2. B!OnlyFailuresLeak
    <3> SUFFICES ASSUME NEW f \in FdNumbers, fds[f].place # B!None PROVE f \in B!Known \cup lost
      BY DEF BsdInv, TableInv, B!OnlyFailuresLeak
    <3>1. ASSUME NEW h \in Handles, NEW e \in Endpoints, claimed[h] # {}, endpoints[h][e] = f
          PROVE  f \in B!Known
      <4>1. f \in B!Range(endpoints[h])
        BY <3>1 DEF BsdInv, KeptInv, B!Range
      <4> QED
        BY <3>1, <4>1 DEF B!Known
    <3>2. f = scan.fd \/ (\E p \in Places : fd[p] = f) => f \in B!Known
      BY DEF B!Known
    <3> QED
      BY <3>1, <3>2 DEF BsdInv, LeakInv
  <2> QED
    BY <2>1, <2>2 DEF BsdInv
<1> QED
  BY <1>1, <1>2, BsdInit, PTL DEF B!Spec
================================================================================
