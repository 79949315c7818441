---------------------------- MODULE UsbInterfaces ----------------------------
(***************************************************************************)
(* The interfaces of a device, as its handles claim, release and reset     *)
(* them (core.c, linux_usbfs.c).  A handle keeps a mask of what it has     *)
(* claimed, under its lock; the kernel keeps who drives each interface: a  *)
(* driver of its own, or usbfs for one of the handles.  The two must agree *)
(* although the kernel is asked in several calls, some of them outside the *)
(* lock, and other programs have handles of the same device.               *)
(*                                                                         *)
(* A step is a call of the kernel, with what follows until the next.       *)
(* External: usbfs, the drivers of the kernel, the loading of a driver.    *)
(***************************************************************************)
EXTENDS Naturals, FiniteSets

CONSTANTS Threads, Handles,
          HandleOf,        \* the handle a thread uses
          MaxInterface,    \* interfaces are 0 .. MaxInterface
          Native,          \* those the kernel has a driver for
          MaxLoads,        \* bound: how often a driver is loaded again
          DetachOverlaps,  \* a call that detaches a driver may overlap calls for other handles
          CallsOverlap,    \* resets and settings may overlap other calls for the handle
          MaxResets        \* bound: how often the device is reset

Interfaces == 0 .. MaxInterface
None == "none"
Driver == "driver"

ASSUME UsbInterfacesAssumption ==
  /\ HandleOf \in [Threads -> Handles] /\ MaxInterface \in Nat /\ Native \subseteq Interfaces
  /\ MaxLoads \in Nat /\ DetachOverlaps \in BOOLEAN /\ CallsOverlap \in BOOLEAN
  /\ MaxResets \in Nat /\ {None, Driver} \cap (Handles \cup Threads) = {}

VARIABLES
  plugged,
  old,         \* the kernel has no IOCTL_USBFS_DISCONNECT_CLAIM
  driver,      \* who drives each interface
  loads, resets,
  claimed,     \* per handle: claimed_interfaces
  auto,        \* per handle: auto_detach_kernel_driver
  lock,        \* per handle: the thread that has its lock
  pc, at,      \* per thread: its place in its call, the interface it is about
  ret,         \* per thread: what its reset will return
  away,        \* history: their driver was detached by a call for that, or by a handle
               \* that does not attach it again
  adrift,      \* history, per handle: let go by a reset that failed
  before       \* history, per thread: what its handle had claimed before its reset

vars == <<plugged, old, driver, loads, resets, claimed, auto, lock, pc, at, ret, away, adrift, before>>

Holding == {"detach_to_claim", "claim_at_last", "claim_again", "attach_again"}
TypeOK ==
  /\ plugged \in BOOLEAN /\ old \in BOOLEAN /\ loads \in 0 .. MaxLoads /\ resets \in 0 .. MaxResets
  /\ driver \in [Interfaces -> {None, Driver} \cup Handles]
  /\ claimed \in [Handles -> SUBSET Interfaces] /\ auto \in [Handles -> BOOLEAN]
  /\ lock \in [Handles -> Threads \cup {None}]
  /\ pc \in [Threads -> Holding \cup {"idle", "set", "detach", "let_go", "reset"}]
  /\ at \in [Threads -> 0 .. MaxInterface + 1] /\ ret \in [Threads -> {"ok", "NOT_FOUND"}]
  /\ away \subseteq Interfaces /\ adrift \in [Handles -> SUBSET Interfaces] /\ before \in [Threads -> SUBSET Interfaces]

Init ==
  /\ plugged = TRUE /\ old \in BOOLEAN /\ loads = 0 /\ resets = 0
  /\ driver = [i \in Interfaces |-> IF i \in Native THEN Driver ELSE None]
  /\ claimed = [h \in Handles |-> {}] /\ auto = [h \in Handles |-> FALSE] /\ lock = [h \in Handles |-> None]
  /\ pc = [t \in Threads |-> "idle"] /\ at = [t \in Threads |-> 0] /\ ret = [t \in Threads |-> "ok"]
  /\ away = {} /\ adrift = [h \in Handles |-> {}] /\ before = [t \in Threads |-> {}]

-----------------------------------------------------------------------------
At(t, place) == pc[t] = place
Goto(t, place) == pc' = [pc EXCEPT ![t] = place]
Ret(t, r) == ret' = [ret EXCEPT ![t] = r]
Of(h) == {t \in Threads : HandleOf[t] = h}
Has(h, i) == i \in claimed[h]
Free(h) == lock[h] = None
Take(t) == lock' = [lock EXCEPT ![HandleOf[t]] = t]
Drop(t) == lock' = [lock EXCEPT ![HandleOf[t]] = None]
About(t, i) == at' = [at EXCEPT ![t] = i]
Drives(i, who) == driver' = [driver EXCEPT ![i] = who]
Counts(h, i) == claimed' = [claimed EXCEPT ![h] = @ \cup {i}]
CountsNoMore(h, i) == claimed' = [claimed EXCEPT ![h] = @ \ {i}]
Resetting(t) == before[t] # {}

world == <<plugged, old, loads>>
notes == <<adrift, before, resets>>

-----------------------------------------------------------------------------
(* The kernel. *)

\* A driver is loaded and takes an interface that nobody has.
Load(i) ==
  /\ plugged /\ i \in Native /\ driver[i] = None /\ loads < MaxLoads
  /\ loads' = loads + 1 /\ Drives(i, Driver) /\ away' = away \ {i}
  /\ UNCHANGED <<plugged, old, claimed, auto, lock, pc, at, ret, notes>>

Unplug ==
  /\ plugged
  /\ plugged' = FALSE /\ driver' = [i \in Interfaces |-> None]
  /\ UNCHANGED <<old, loads, claimed, auto, lock, pc, at, ret, away, notes>>

\* What the kernel allows: IOCTL_USBFS_CLAIMINTF, RELEASEINTF, DISCONNECT_CLAIM, CONNECT.
MayClaim(h, i) == plugged /\ driver[i] \in {None, h}
MayRelease(h, i) == plugged /\ driver[i] = h
MayDisconnectClaim(i) == plugged /\ driver[i] \notin Handles
MayConnect(i) == plugged /\ driver[i] = None /\ i \in Native

-----------------------------------------------------------------------------
(* Calls.  One that is refused and changes nothing is no step.  What programs   *)
(* keep apart is said by two constants.                                         *)

\* Calls that ask who drives an interface and detach in a second call of the kernel.
LooksFirst(t, call) == call = "detach" \/ (old /\ (call = "reset" \/ (call = "claim" /\ auto[HandleOf[t]])))
Looked(t) == At(t, "detach") \/ (old /\ pc[t] \in {"detach_to_claim", "claim_at_last", "let_go", "reset", "claim_again"})
MayBegin(t, call) ==
  /\ At(t, "idle")
  /\ DetachOverlaps \/ \A u \in Threads \ {t} : (LooksFirst(t, call) => At(u, "idle")) /\ ~Looked(u)
  /\ CallsOverlap \/ \A u \in Of(HandleOf[t]) \ {t} :
       At(u, "idle") \/ (call \notin {"reset", "set"} /\ pc[u] \notin {"let_go", "reset", "claim_again", "set"}
                                                       /\ ~Resetting(u))

\* libusb_set_auto_detach_kernel_driver, before anything is claimed.
SetAuto(h) ==
  /\ claimed[h] = {} /\ \A t \in Of(h) : At(t, "idle")
  /\ auto' = [auto EXCEPT ![h] = ~@]
  /\ UNCHANGED <<world, driver, claimed, lock, pc, at, ret, away, notes>>

\* libusb_close and libusb_open of the same device: the kernel lets go what is left.
Reopen(h) ==
  /\ plugged /\ \A t \in Of(h) : At(t, "idle")
  /\ driver' = [i \in Interfaces |-> IF driver[i] = h THEN None ELSE driver[i]]
  /\ claimed' = [claimed EXCEPT ![h] = {}] /\ auto' = [auto EXCEPT ![h] = FALSE]
  /\ adrift' = [adrift EXCEPT ![h] = {}] /\ away' = away \cup adrift[h] \cup {i \in Interfaces : driver[i] = h}
  /\ UNCHANGED <<world, lock, pc, at, ret, before, resets>>

-----------------------------------------------------------------------------
(* libusb_claim_interface *)

\* claim_interface
Claim(t, i) ==
  LET h == HandleOf[t]
  IN /\ MayBegin(t, "claim") /\ Free(h) /\ ~Has(h, i) /\ ~auto[h] /\ MayClaim(h, i)
     /\ Drives(i, h) /\ Counts(h, i) /\ away' = away \cup {i}
     /\ UNCHANGED <<world, auto, lock, pc, at, ret, notes>>

\* Mutant: what a reset could not claim again still counts.
Claimed_StillCounts(t, i, ok) ==
  LET h == HandleOf[t]
  IN /\ IF ok THEN Drives(i, h) ELSE UNCHANGED driver
     /\ away' = IF ok /\ ~auto[h] THEN away \cup {i} ELSE away
     /\ IF Resetting(t)
        THEN /\ IF ok THEN UNCHANGED <<claimed, ret>> ELSE UNCHANGED claimed /\ Ret(t, "NOT_FOUND")
             /\ Goto(t, "claim_again") /\ About(t, i + 1) /\ UNCHANGED lock
        ELSE /\ IF ok THEN Counts(h, i) ELSE UNCHANGED claimed
             /\ Goto(t, "idle") /\ About(t, 0) /\ UNCHANGED ret
             /\ IF At(t, "idle") THEN UNCHANGED lock ELSE Drop(t)

\* Mutant: the reset does not say that it could not claim again.
Claimed_Untold(t, i, ok) ==
  LET h == HandleOf[t]
  IN /\ IF ok THEN Drives(i, h) ELSE UNCHANGED driver
     /\ away' = IF ok /\ ~auto[h] THEN away \cup {i} ELSE away
     /\ IF Resetting(t)
        THEN /\ IF ok THEN UNCHANGED <<claimed, ret>> ELSE CountsNoMore(h, i) /\ UNCHANGED ret
             /\ Goto(t, "claim_again") /\ About(t, i + 1) /\ UNCHANGED lock
        ELSE /\ IF ok THEN Counts(h, i) ELSE UNCHANGED claimed
             /\ Goto(t, "idle") /\ About(t, 0) /\ UNCHANGED ret
             /\ IF At(t, "idle") THEN UNCHANGED lock ELSE Drop(t)

\* What follows the last call of detach_kernel_driver_and_claim: libusb_claim_interface
\* counts the interface, op_reset_device no longer counts one it could not have.
Claimed(t, i, ok) ==
  LET h == HandleOf[t]
  IN /\ IF ok THEN Drives(i, h) ELSE UNCHANGED driver
     /\ away' = IF ok /\ ~auto[h] THEN away \cup {i} ELSE away
     /\ IF Resetting(t)
        THEN /\ IF ok THEN UNCHANGED <<claimed, ret>> ELSE CountsNoMore(h, i) /\ Ret(t, "NOT_FOUND")
             /\ Goto(t, "claim_again") /\ About(t, i + 1) /\ UNCHANGED lock
        ELSE /\ IF ok THEN Counts(h, i) ELSE UNCHANGED claimed
             /\ Goto(t, "idle") /\ About(t, 0) /\ UNCHANGED ret
             /\ IF At(t, "idle") THEN UNCHANGED lock ELSE Drop(t)

\* detach_kernel_driver_and_claim where the kernel does it in one call.
DisconnectClaim(t, i) == ~old /\ Claimed(t, i, MayDisconnectClaim(i))

\* Where it does not, op_detach_kernel_driver asks first who drives the interface.
LookToDetach(t, i) ==
  /\ old /\ Take(t) /\ About(t, i)
  /\ Goto(t, IF driver[i] \in Handles THEN "claim_at_last" ELSE "detach_to_claim")
  /\ UNCHANGED <<driver, claimed, ret, away>>

ClaimDriven(t, i) ==
  /\ MayBegin(t, "claim") /\ Free(HandleOf[t]) /\ ~Has(HandleOf[t], i) /\ auto[HandleOf[t]]
  /\ DisconnectClaim(t, i) \/ LookToDetach(t, i)
  /\ UNCHANGED <<world, auto, notes>>

DetachToClaim(t) ==
  /\ At(t, "detach_to_claim")
  /\ \/ /\ plugged /\ Goto(t, "claim_at_last") /\ Drives(at[t], None)
        /\ away' = IF auto[HandleOf[t]] THEN away ELSE away \cup {at[t]}
        /\ UNCHANGED <<claimed, lock, at, ret>>
     \/ ~plugged /\ Claimed(t, at[t], FALSE)
  /\ UNCHANGED <<world, auto, notes>>

ClaimAtLast(t) ==
  /\ At(t, "claim_at_last") /\ Claimed(t, at[t], MayClaim(HandleOf[t], at[t]))
  /\ UNCHANGED <<world, auto, notes>>

-----------------------------------------------------------------------------
(* libusb_release_interface, op_release_interface *)

\* It counts as claimed until the kernel has let it go.
Release(t, i) ==
  LET h == HandleOf[t]
  IN /\ MayBegin(t, "release") /\ Free(h) /\ Has(h, i) /\ MayRelease(h, i)
     /\ Drives(i, None) /\ CountsNoMore(h, i)
     /\ IF auto[h] THEN Take(t) /\ Goto(t, "attach_again") /\ About(t, i) ELSE UNCHANGED <<lock, pc, at>>
     /\ UNCHANGED <<world, auto, ret, away, notes>>

Connects(i) ==
  IF MayConnect(i) THEN Drives(i, Driver) /\ away' = away \ {i} ELSE UNCHANGED <<driver, away>>

\* Mutant: the driver is not attached again.
AttachAgain_Leaves(t) ==
  /\ At(t, "attach_again") /\ Goto(t, "idle") /\ About(t, 0) /\ Drop(t)
  /\ UNCHANGED <<world, driver, away, claimed, auto, ret, notes>>

\* auto_detach_kernel_driver attaches the driver again; whether that works is not asked.
AttachAgain(t) ==
  /\ At(t, "attach_again") /\ Connects(at[t])
  /\ Goto(t, "idle") /\ About(t, 0) /\ Drop(t)
  /\ UNCHANGED <<world, claimed, auto, ret, notes>>

-----------------------------------------------------------------------------
(* libusb_detach_kernel_driver, libusb_attach_kernel_driver: without the lock.   *)

\* Mutant: whoever drives the interface is detached.
LookWhoDrives_Anybody(t, i) ==
  /\ MayBegin(t, "detach") /\ plugged
  /\ Goto(t, "detach") /\ About(t, i)
  /\ UNCHANGED <<world, driver, claimed, auto, lock, ret, away, notes>>

\* op_detach_kernel_driver asks who drives the interface, and leaves one of usbfs alone.
LookWhoDrives(t, i) ==
  /\ MayBegin(t, "detach") /\ plugged /\ driver[i] \notin Handles
  /\ Goto(t, "detach") /\ About(t, i)
  /\ UNCHANGED <<world, driver, claimed, auto, lock, ret, away, notes>>

\* IOCTL_USBFS_DISCONNECT takes the interface from whoever has it by now.
Detach(t) ==
  /\ At(t, "detach") /\ Goto(t, "idle") /\ About(t, 0)
  /\ Drives(at[t], None) /\ away' = away \cup {at[t]}
  /\ UNCHANGED <<world, claimed, auto, lock, ret, notes>>

Attach(t, i) ==
  /\ MayBegin(t, "attach") /\ MayConnect(i) /\ Connects(i)
  /\ UNCHANGED <<world, claimed, auto, lock, pc, at, ret, notes>>

-----------------------------------------------------------------------------
(* libusb_set_interface_alt_setting, libusb_set_configuration *)

\* The mask is looked at under the lock, the kernel asked after it.
BeginSet(t, i) ==
  /\ MayBegin(t, "set") /\ Free(HandleOf[t]) /\ plugged /\ Has(HandleOf[t], i)
  /\ Goto(t, "set") /\ About(t, i)
  /\ UNCHANGED <<world, driver, claimed, auto, lock, ret, away, notes>>

\* The kernel claims an interface nobody has for a handle that sets it.
Set(t) ==
  /\ At(t, "set") /\ Goto(t, "idle") /\ About(t, 0)
  /\ IF MayClaim(HandleOf[t], at[t])
     THEN /\ Drives(at[t], HandleOf[t])
          /\ away' = IF auto[HandleOf[t]] THEN away ELSE away \cup {at[t]}
     ELSE UNCHANGED <<driver, away>>
  /\ UNCHANGED <<world, claimed, auto, lock, ret, notes>>

\* The kernel sets no configuration while an interface is driven; the interfaces of the
\* new one find their drivers.
SetConfiguration(t) ==
  /\ MayBegin(t, "configure") /\ plugged /\ \A i \in Interfaces : driver[i] = None
  /\ driver' = [i \in Interfaces |-> IF i \in Native THEN Driver ELSE None] /\ away' = {}
  /\ UNCHANGED <<world, claimed, auto, lock, pc, at, ret, notes>>

-----------------------------------------------------------------------------
(* libusb_reset_device, op_reset_device *)

\* The first interface the handle counts as claimed, from the i-th on.
IsNext(h, i, j) == j \in claimed[h] /\ j >= i /\ \A k \in claimed[h] : k < i \/ k >= j

BeginReset(t) ==
  /\ MayBegin(t, "reset") /\ resets < MaxResets /\ claimed[HandleOf[t]] # {}
  /\ Goto(t, "let_go") /\ before' = [before EXCEPT ![t] = claimed[HandleOf[t]]] 
  /\ adrift' = [adrift EXCEPT ![HandleOf[t]] = {}] /\ resets' = resets + 1
  /\ UNCHANGED <<world, driver, claimed, auto, lock, at, ret, away>>

\* What is claimed is released, without the lock; the mask is kept.
LetGo(t) ==
  /\ At(t, "let_go")
  /\ \/ \E i \in Interfaces :
          /\ IsNext(HandleOf[t], at[t], i) /\ About(t, i + 1)
          /\ IF MayRelease(HandleOf[t], i) THEN Drives(i, None) ELSE UNCHANGED driver
          /\ UNCHANGED pc
     \/ /\ \A i \in claimed[HandleOf[t]] : i < at[t]
        /\ Goto(t, "reset") /\ About(t, 0) /\ UNCHANGED driver
  /\ UNCHANGED <<world, claimed, auto, lock, ret, away, notes>>

Reset(t) ==
  /\ At(t, "reset") /\ Free(HandleOf[t]) /\ plugged
  /\ Take(t) /\ Goto(t, "claim_again")
  /\ UNCHANGED <<world, driver, claimed, auto, at, ret, away, notes>>

\* A reset that fails leaves the mask as it was.
ResetFails(t) ==
  /\ At(t, "reset") /\ Free(HandleOf[t]) /\ Goto(t, "idle")
  /\ adrift' = [adrift EXCEPT ![HandleOf[t]] = claimed[HandleOf[t]]] /\ before' = [before EXCEPT ![t] = {}]
  /\ UNCHANGED <<world, driver, claimed, auto, lock, at, ret, away, resets>>

\* What was claimed is claimed again, one after the other; what is lost is not counted.
ClaimBack(t) ==
  /\ At(t, "claim_again")
  /\ \/ \E i \in Interfaces :
          /\ IsNext(HandleOf[t], at[t], i)
          /\ DisconnectClaim(t, i) \/ LookToDetach(t, i)
          /\ UNCHANGED before
     \/ /\ \A i \in claimed[HandleOf[t]] : i < at[t]
        /\ Goto(t, "idle") /\ About(t, 0) /\ Drop(t) /\ before' = [before EXCEPT ![t] = {}] /\ Ret(t, "ok")
        /\ UNCHANGED <<driver, claimed, away>>
  /\ UNCHANGED <<world, auto, adrift, resets>>

-----------------------------------------------------------------------------
Step(t) ==
  \/ DetachToClaim(t) \/ ClaimAtLast(t) \/ AttachAgain(t) \/ Detach(t) \/ Set(t)
  \/ SetConfiguration(t) \/ BeginReset(t) \/ LetGo(t) \/ Reset(t) \/ ResetFails(t) \/ ClaimBack(t)
  \/ \E i \in Interfaces :
       Claim(t, i) \/ ClaimDriven(t, i) \/ Release(t, i) \/ LookWhoDrives(t, i)
         \/ Attach(t, i) \/ BeginSet(t, i)
Next ==
  \/ Unplug \/ \E i \in Interfaces : Load(i)
  \/ \E h \in Handles : SetAuto(h) \/ Reopen(h)
  \/ \E t \in Threads : Step(t)
Spec == Init /\ [][Next]_vars

-----------------------------------------------------------------------------
(* Properties. *)

HeldBy(h) == {i \in Interfaces : driver[i] = h}
BetweenResets(h) == \A t \in Of(h) : pc[t] \notin {"let_go", "reset"} /\ ~Resetting(t)

\* What a handle counts as claimed (core.c:1590-1593, 1634-1636) is what the kernel has
\* claimed for it, whoever loads drivers, detaches or resets in between; but for what a
\* reset that failed has let go (linux_usbfs.c:1457-1475).
ClaimsAreTrue ==
  plugged => \A h \in Handles : BetweenResets(h) =>
    claimed[h] \ adrift[h] \subseteq HeldBy(h) /\ HeldBy(h) \subseteq claimed[h]

\* When no call is under way, an interface is without the driver the kernel has for it
\* only if a program has asked for that, or has claimed it without asking for the driver
\* back: one whose driver was detached for a claim has it back (linux_usbfs.c:1683-1695).
DriversComeBack ==
  plugged /\ (\A t \in Threads : At(t, "idle")) =>
    \A i \in Native : driver[i] = None => i \in away \/ \E h \in Handles : i \in adrift[h]

\* What a handle has claimed is its own in the kernel, and the drivers that were
\* detached for it are attached again.
ClaimsAndDriversAgree == ClaimsAreTrue /\ DriversComeBack

\* Nobody takes an interface from the handle it is claimed for: it is lost with the claim,
\* in a reset of its own, or with the device.  Detaching looks who drives an interface and
\* then detaches whoever does (linux_usbfs.c:1586-1590).
NothingIsStolen ==
  [][\A i \in Interfaces, h \in Handles :
       driver[i] = h /\ driver'[i] # h =>
         ~plugged' \/ i \notin claimed'[h] \/ \E t \in Of(h) : At(t, "let_go")]_vars

\* A reset that reports success has brought back all that was claimed before it, although
\* it was free for anybody meanwhile (linux_usbfs.c:1477-1494).
ResetTellsWhatIsLost ==
  [][\A t \in Threads :
       At(t, "claim_again") /\ pc'[t] = "idle" /\ ret[t] = "ok" /\ plugged' =>
         before[t] \subseteq claimed'[HandleOf[t]] /\ \A i \in before[t] : driver'[i] = HandleOf[t]]_vars

\* No interface is taken from another handle, and a reset reports the claims it has lost.
NothingIsLostInSilence == NothingIsStolen /\ ResetTellsWhatIsLost
=============================================================================
