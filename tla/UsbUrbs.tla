------------------------------ MODULE UsbUrbs ------------------------------
(***************************************************************************)
(* A transfer and its URBs (linux_usbfs.c).  A bulk transfer may be split  *)
(* into URBs that are all submitted at once, an isochronous one is split   *)
(* by its packets.  The device serves the URBs of the endpoint in order,   *)
(* and may end one short or with a fault while others are still being      *)
(* submitted; what is not needed is discarded and must come back from the  *)
(* kernel before the transfer ends and its URBs are freed.                 *)
(*                                                                         *)
(* One transfer after the other, on one endpoint.  Three threads: one      *)
(* submits, one cancels (the application, or a timeout), one handles       *)
(* events.  They share the transfer under its lock; between their calls    *)
(* into the kernel the device goes on.  A byte (in an isochronous transfer *)
(* a packet) is known by its number in the order the device has sent it.   *)
(* External: the kernel, with the bulk continuation of lines 87-91.        *)
(***************************************************************************)
EXTENDS Integers, SequencesExt, FiniteSetsExt

CONSTANTS Kinds,        \* transfers: type, out, cap, length, packets, strict, faults (see Kind)
          MaxBulk,      \* MAX_BULK_BUFFER_LENGTH, in units of data
          MaxIso,       \* MAX_ISO_BUFFER_LENGTH
          Refusals,     \* why the kernel may refuse a URB: "memory"
          FaultsEarly   \* the device may end a URB badly while others are submitted

None == "none"
Caps == {"scatter-gather", "continuation", "no limit", "none"}
Faults == {"stall", "error", "overflow"}
\* A kind of transfer: strict is LIBUSB_TRANSFER_SHORT_NOT_OK, faults are the ways
\* its device may fail.  What fails of an isochronous one are packets, which have
\* their own results.
Kind == [type : {"control", "bulk", "interrupt", "iso"}, out : BOOLEAN, cap : Caps,
         length : Nat, packets : Seq(Nat), strict : BOOLEAN, faults : SUBSET Faults]

UsbUrbsAssumption ==
  /\ Kinds \subseteq Kind /\ Kinds # {}
  /\ MaxBulk \in Nat \ {0} /\ MaxIso \in Nat \ {0}
  /\ Refusals \subseteq {"memory"} /\ FaultsEarly \in BOOLEAN
  /\ \A k \in Kinds : k.type = "iso" => k.faults = {} /\ ~k.strict

-----------------------------------------------------------------------------
(* How a transfer is split. *)

\* submit_bulk_transfer: one URB where the kernel takes any length.
Continues(k) == k.type \in {"bulk", "interrupt"} /\ k.cap = "continuation"
BulkLength(k) == IF k.cap \in {"scatter-gather", "no limit"} THEN Max({k.length, 1}) ELSE MaxBulk
BulkUrbs(k) ==
  LET whole == k.length \div BulkLength(k)
      rest == k.length % BulkLength(k)
  IN IF k.length = 0 THEN <<0>>
     ELSE [i \in 1 .. whole |-> BulkLength(k)] \o IF rest > 0 THEN <<rest>> ELSE << >>

\* submit_iso_transfer: a packet that has no room goes to the next URB; each URB as
\* the sequence of the lengths of its packets.
IsoUrbs(packets) ==
  FoldLeft(LAMBDA urbs, p :
             IF p > MaxIso - FoldLeft(+, 0, Last(urbs)) THEN Append(urbs, <<p>>)
             ELSE Front(urbs) \o <<Append(Last(urbs), p)>>,
           << << >> >>, packets)

\* A packet that no URB has room for is refused.
PacketsFit(k) == k.type = "iso" => \A i \in DOMAIN k.packets : k.packets[i] <= MaxIso

\* The number of units of each URB: bytes, or packets.
UnitsOf(k) ==
  CASE k.type = "control" -> <<k.length>>
    [] k.type = "iso" -> LET u == IsoUrbs(k.packets) IN [i \in DOMAIN u |-> Len(u[i])]
    [] OTHER -> BulkUrbs(k)

\* How many of them a transfer is of.
LengthOf(k) == IF k.type = "iso" THEN Len(k.packets) ELSE k.length

\* A transfer that may stall is a continuation or has one URB (else see usb_stall).
StallsContinue ==
  \A k \in Kinds : k.type \in {"bulk", "interrupt"} /\ "stall" \in k.faults /\ ~Continues(k) => Len(UnitsOf(k)) = 1
\* An isochronous transfer is split into sequences of packets, each of which goes on
\* where the one before it ends.
IsoSplits ==
  \A k \in Kinds : k.type = "iso" =>
    LET u == IsoUrbs(k.packets) IN
    /\ u \in Seq(Seq(Nat))
    /\ \E first \in [1 .. Len(u) + 1 -> 0 .. Len(k.packets)] :
         /\ first[1] = 0 /\ first[Len(u) + 1] = Len(k.packets)
         /\ \A i \in DOMAIN u : first[i + 1] = first[i] + Len(u[i])

-----------------------------------------------------------------------------
VARIABLES
  kind,         \* the transfer of the moment
  plugged,
  urbs,         \* per URB: where the kernel has it, how it has ended, with how many units (actual) from which on
  done,         \* the URBs that have ended, in the order they are reaped
  refuses,      \* the kernel takes no more URBs of this continuation
  sent,         \* how many units the device has sent, or taken
  priv,         \* linux_transfer_priv: urbs (not freed), action, retired, status, packets
  buffer, transferred,
  phase,        \* of the transfer: "idle", "submitting", "flying", "cancelling"
  work,         \* who holds the lock, the URB it submits or discards next, the last one
  handler,      \* what the event handler is about, the URB it has reaped
  reported,     \* history: how the transfer has ended
  past          \* history: how the device has cut the transfer short, "refused", "asked"

vars == <<kind, plugged, urbs, done, refuses, sent, priv, buffer, transferred, phase, work,
          handler, reported, past>>
kernel == <<urbs, done, refuses, sent>>
data == <<buffer, transferred>>

NewUrb(n) == [at |-> None, status |-> None, room |-> n, from |-> 0, actual |-> 0]
NoPriv == [urbs |-> FALSE, action |-> "NORMAL", retired |-> 0, status |-> "COMPLETED", packets |-> << >>]
NoWork == [who |-> None, at |-> 0, last |-> 0]
Idle == [at |-> "poll", urb |-> 0, status |-> None]

N == Len(urbs)
Offset(i) == (i - 1) * BulkLength(kind)
Locked == work.who # None

TypeOK ==
  /\ kind \in Kinds /\ plugged \in BOOLEAN
  /\ \A i \in 1 .. N :
       /\ urbs[i].at \in {None, "queued", "done"}
       /\ urbs[i].status \in Faults \cup {None, "ok", "short", "killed", "unlinked", "shutdown"}
       /\ urbs[i].from \in 0 .. sent /\ urbs[i].actual \in 0 .. urbs[i].room
  /\ done \in Seq(1 .. N) /\ IsInjective(done) /\ Range(done) = {i \in 1 .. N : urbs[i].at = "done"}
  /\ refuses \in BOOLEAN /\ sent \in 0 .. Len(buffer)
  /\ priv.urbs \in BOOLEAN /\ priv.retired \in 0 .. N
  /\ priv.action \in {"NORMAL", "SUBMIT_FAILED", "CANCELLED", "COMPLETED_EARLY", "ERROR"}
  /\ transferred \in 0 .. Len(buffer)
  /\ phase \in {"idle", "submitting", "flying", "cancelling"}
  /\ work.who \in {None, "submit", "withdraw", "cancel", "handle"} /\ work.at \in 0 .. N + 1 /\ work.last \in 0 .. N + 1
  /\ handler.at \in {"poll", "handle", "complete", "off"} /\ handler.urb \in 0 .. N
  /\ reported \in {None, "COMPLETED", "STALL", "OVERFLOW", "ERROR", "CANCELLED", "NO_DEVICE"}
  /\ past \subseteq Faults \cup {"short", "refused", "asked"}

Init ==
  /\ kind \in Kinds
  /\ plugged = TRUE
  /\ urbs = << >> /\ done = << >> /\ refuses = FALSE /\ sent = 0 /\ past = {}
  /\ priv = NoPriv /\ buffer = << >> /\ transferred = 0
  /\ phase = "idle" /\ work = NoWork /\ handler = Idle /\ reported = None

-----------------------------------------------------------------------------
(* Submission, under the lock. *)

\* The URBs of the next transfer; the kernel knows a new one by its first URB.
Submit ==
  /\ phase = "idle" /\ ~Locked
  /\ kind' \in Kinds /\ PacketsFit(kind')
  /\ LET units == UnitsOf(kind')
     IN /\ urbs' = [i \in DOMAIN units |-> NewUrb(units[i])] /\ buffer' = [i \in 1 .. LengthOf(kind') |-> 0]
        /\ work' = [who |-> "submit", at |-> 1, last |-> Len(units)]
  /\ done' = << >> /\ refuses' = FALSE /\ sent' = 0 /\ past' = {} /\ transferred' = 0 /\ reported' = None
  /\ priv' = [NoPriv EXCEPT !.urbs = TRUE]
  /\ phase' = "submitting"
  /\ UNCHANGED <<plugged, handler>>

\* IOCTL_USBFS_SUBMITURB takes it, until the last: then the transfer is in flight.
SubmitUrb ==
  /\ work.who = "submit" /\ work.at <= N /\ plugged /\ ~refuses
  /\ urbs' = [urbs EXCEPT ![work.at].at = "queued"]
  /\ work' = [work EXCEPT !.at = @ + 1]
  /\ UNCHANGED <<kind, plugged, done, refuses, sent, priv, data, phase, handler, reported, past>>

\* Mutant: the URB that has been refused is counted twice.
Unsubmitted_OneMore(i) == N - i + 2

\* Mutant: the URB that has been refused is not counted.
Unsubmitted_OneLess(i) == N - i

\* The URBs that have not been submitted count as retired.
Unsubmitted(i) == N - i + 1

\* The first is refused: the submission fails.
FirstRefused ==
  /\ work.who = "submit" /\ work.at = 1 /\ (~plugged \/ Refusals # {})
  /\ priv' = [priv EXCEPT !.urbs = FALSE]
  /\ phase' = "idle" /\ work' = NoWork
  /\ UNCHANGED <<kind, plugged, kernel, data, handler, reported, past>>

\* A later one is refused since the transfer did not need it: what is submitted
\* will be reaped.
RefusedAsEarly ==
  /\ work.who = "submit" /\ work.at \in 2 .. N /\ plugged /\ refuses
  /\ priv' = [priv EXCEPT !.action = "COMPLETED_EARLY", !.retired = @ + Unsubmitted(work.at)]
  /\ work' = [work EXCEPT !.at = N + 1]
  /\ UNCHANGED <<kind, plugged, kernel, data, phase, handler, reported, past>>

\* Or it fails, and those before it are discarded.
LaterRefused ==
  /\ work.who = "submit" /\ work.at \in 2 .. N /\ (~plugged \/ (Refusals # {} /\ ~refuses))
  /\ priv' = [priv EXCEPT !.action = "SUBMIT_FAILED", !.retired = @ + Unsubmitted(work.at)]
  /\ work' = [who |-> "withdraw", at |-> work.at - 1, last |-> 1]
  /\ past' = past \cup {"refused"}
  /\ UNCHANGED <<kind, plugged, kernel, data, phase, handler, reported>>

\* libusb_submit_transfer: in flight, unless the device has been seen to leave.
Submitted ==
  /\ \/ work.who = "submit" /\ work.at = N + 1
     \/ work.who = "withdraw" /\ work.at < work.last
  /\ IF handler.at = "off"
     THEN priv' = [priv EXCEPT !.urbs = FALSE] /\ phase' = "idle"
     ELSE phase' = "flying" /\ UNCHANGED priv
  /\ work' = NoWork
  /\ UNCHANGED <<kind, plugged, kernel, data, handler, reported, past>>

-----------------------------------------------------------------------------
(* The kernel and the device. *)

Queued == {i \in 1 .. N : urbs[i].at = "queued"}

\* The sequence of the URBs of the set S, from the first to the last.
Ascending(S) ==
  {s \in [1 .. Cardinality(S) -> S] : ToSet(s) = S /\ \A m, n \in DOMAIN s : m < n => s[m] < s[n]}

\* URB i ends with n units; after a fault, or a short end that counts as one, the
\* others of a continuation come back empty.
End(i, status, n) ==
  LET bad == status \in Faults \cup {"short"} /\ Continues(kind)
      others == IF bad THEN Queued \ {i} ELSE {}
  IN /\ urbs' = [j \in 1 .. N |->
                   IF j = i THEN [urbs[j] EXCEPT !.at = "done", !.status = status, !.from = sent, !.actual = n]
                   ELSE IF j \in others THEN [urbs[j] EXCEPT !.at = "done", !.status = "unlinked", !.from = sent + n]
                   ELSE urbs[j]]
     /\ \E rest \in Ascending(others) : done' = done \o <<i>> \o rest
     /\ refuses' = (refuses \/ bad)
     /\ sent' = sent + n

\* What comes after the first is beyond the end of the transfer.
Cut(how) == IF past \cap (Faults \cup {"short"}) = {} THEN past \cup {how} ELSE past

\* The device serves the first: whole, or short when it sends less.
Serve ==
  /\ Queued # {}
  /\ LET i == Min(Queued)
         whole == urbs[i].room
         least == IF kind.out \/ kind.type = "iso" THEN whole ELSE 0
         strict == Continues(kind) /\ ~kind.out /\ i < N
     IN \E n \in least .. whole :
          /\ End(i, IF n < whole /\ strict THEN "short" ELSE "ok", n)
          /\ past' = IF n < whole THEN Cut("short") ELSE past
  /\ UNCHANGED <<kind, plugged, priv, data, phase, work, handler, reported>>

\* Or it fails; more than the URB holds can only come to the last (line 2284).
Fail ==
  /\ Queued # {} /\ (FaultsEarly \/ phase # "submitting")
  /\ LET i == Min(Queued)
     IN \E f \in kind.faults :
          /\ past' = Cut(f)
          /\ IF f = "overflow" THEN i = N /\ End(i, f, urbs[i].room)
             ELSE \E n \in 0 .. Max({urbs[i].room - 1, 0}) : End(i, f, n)
  /\ UNCHANGED <<kind, plugged, priv, data, phase, work, handler, reported>>

Unplug ==
  /\ plugged
  /\ plugged' = FALSE
  /\ urbs' = [i \in 1 .. N |-> IF i \in Queued THEN [urbs[i] EXCEPT !.at = "done", !.status = "shutdown", !.from = sent]
                              ELSE urbs[i]]
  /\ \E rest \in Ascending(Queued) : done' = done \o rest
  /\ UNCHANGED <<kind, refuses, sent, priv, data, phase, work, handler, reported, past>>

\* IOCTL_USBFS_DISCARDURB: it ends at once, with what it has got if it was served.
Discard(i) ==
  IF i \in Queued
  THEN \E n \in 0 .. IF i = Min(Queued) THEN Max({urbs[i].room - 1, 0}) ELSE 0 : End(i, "killed", n)
  ELSE UNCHANGED kernel

-----------------------------------------------------------------------------
(* discard_urbs: from the last to the first.  The lock is held throughout. *)

DiscardNext ==
  /\ work.who \in {"withdraw", "cancel", "handle"} /\ work.at >= work.last
  /\ Discard(work.at)
  /\ work' = [work EXCEPT !.at = @ - 1]
  /\ UNCHANGED <<kind, plugged, priv, data, phase, handler, reported, past>>

Unlock ==
  /\ work.who \in {"cancel", "handle"} /\ work.at < work.last
  /\ work' = NoWork
  /\ UNCHANGED <<kind, plugged, kernel, priv, data, phase, handler, reported, past>>


\* op_cancel_transfer: a bulk transfer that has failed stays failed.
Cancelled(action) == IF kind.type = "bulk" /\ action = "ERROR" THEN action ELSE "CANCELLED"

Cancel ==
  /\ phase = "flying" /\ ~Locked
  /\ phase' = "cancelling"
  /\ priv' = [priv EXCEPT !.action = Cancelled(@)]
  /\ work' = IF priv.urbs THEN [who |-> "cancel", at |-> N, last |-> 1] ELSE NoWork
  /\ past' = past \cup {"asked"}
  /\ UNCHANGED <<kind, plugged, kernel, data, handler, reported>>

-----------------------------------------------------------------------------
(* Completion. *)

\* reap_for_handle: the kernel copies what the URB has got to its place.
Reap ==
  /\ handler.at = "poll" /\ done # << >>
  /\ LET i == Head(done)
     IN /\ handler' = [Idle EXCEPT !.at = "handle", !.urb = i]
        /\ buffer' = IF kind.type \in {"bulk", "interrupt"}
                     THEN [p \in DOMAIN buffer |->
                             IF p - Offset(i) \in 1 .. urbs[i].actual THEN urbs[i].from + p - Offset(i) ELSE buffer[p]]
                     ELSE buffer
        /\ urbs' = [urbs EXCEPT ![i].at = None]
  /\ done' = Tail(done)
  /\ UNCHANGED <<kind, plugged, refuses, sent, priv, transferred, phase, work, reported, past>>

TransferStatus(s) ==
  CASE s \in {"ok", "short"} -> "COMPLETED" [] s = "stall" -> "STALL" [] s = "overflow" -> "OVERFLOW"
    [] s \in {"killed", "unlinked"} -> "CANCELLED" [] s = "shutdown" -> "NO_DEVICE" [] OTHER -> "ERROR"

\* The transfer has ended: its URBs are freed and the lock is released; how it has
\* ended is said afterwards.
Completed(p) ==
  /\ priv' = [p EXCEPT !.urbs = FALSE]
  /\ handler' = [at |-> "complete", urb |-> 0, status |-> p.status]
  /\ UNCHANGED work
Awaits(p) == priv' = p /\ handler' = Idle /\ UNCHANGED work
DiscardRest(p, i) ==
  /\ priv' = p /\ handler' = Idle
  /\ work' = [who |-> "handle", at |-> N, last |-> i + 1]

\* handle_control_completion
HandleControl ==
  /\ handler.at = "handle" /\ ~Locked /\ kind.type = "control"
  /\ transferred' = transferred + urbs[1].actual
  /\ Completed([priv EXCEPT !.status =
                  IF priv.action = "CANCELLED" THEN "CANCELLED" ELSE TransferStatus(urbs[1].status)])
  /\ UNCHANGED <<kind, plugged, kernel, buffer, phase, reported, past>>

\* Mutant: what comes late stays where it is.
Moved_Not(i) == buffer

\* Surplus data is moved up to what has been received before.
Moved(i) ==
  LET u == urbs[i]
  IN [p \in DOMAIN buffer |-> IF p - transferred \in 1 .. u.actual THEN u.from + p - transferred ELSE buffer[p]]

Retired == [priv EXCEPT !.retired = @ + 1]

\* Mutant: the last URB of an early end decides.
Settled_Early(p) == IF p.status = "COMPLETED" THEN [p EXCEPT !.status = "ERROR"] ELSE p

\* A transfer that has been torn down is in error unless it has ended early.
Settled(p) == IF p.action # "COMPLETED_EARLY" /\ p.status = "COMPLETED" THEN [p EXCEPT !.status = "ERROR"] ELSE p

\* handle_bulk_completion of a transfer that is being torn down.
HandleSurplus ==
  /\ handler.at = "handle" /\ ~Locked /\ kind.type \in {"bulk", "interrupt"} /\ priv.action # "NORMAL"
  /\ buffer' = Moved(handler.urb)
  /\ transferred' = transferred + urbs[handler.urb].actual
  /\ IF Retired.retired = N THEN Completed(Settled(Retired)) ELSE Awaits(Retired)
  /\ UNCHANGED <<kind, plugged, kernel, phase, reported, past>>

\* The first error stays.
Noted(p, s) ==
  CASE s = "shutdown" -> [p EXCEPT !.status = "NO_DEVICE"]
    [] s = "error" -> [p EXCEPT !.action = "ERROR", !.status = IF @ = "COMPLETED" THEN "ERROR" ELSE @]
    [] OTHER -> [p EXCEPT !.status = IF @ = "COMPLETED" THEN TransferStatus(s) ELSE @]

\* handle_bulk_completion: the last URB ends the transfer, and so does one that has
\* failed or is short when the rest has been discarded and reaped.
HandleBulk ==
  /\ handler.at = "handle" /\ ~Locked /\ kind.type \in {"bulk", "interrupt"} /\ priv.action = "NORMAL"
  /\ LET i == handler.urb
         u == urbs[i]
         short == u.actual < u.room
         early == [Retired EXCEPT !.action = "COMPLETED_EARLY"]
         next == IF u.status \in {"stall", "error", "shutdown"} THEN Noted(Retired, u.status) ELSE early
     IN /\ transferred' = transferred + u.actual
        /\ CASE u.status = "overflow" -> Completed(Noted(Retired, "overflow"))
             [] u.status \in {"ok", "short", "killed", "unlinked"} /\ i = N -> Completed(Retired)
             [] u.status \in {"ok", "short", "killed", "unlinked"} /\ i < N /\ ~short -> Awaits(Retired)
             [] OTHER -> IF Retired.retired = N THEN Completed(next) ELSE DiscardRest(next, i)
  /\ UNCHANGED <<kind, plugged, kernel, buffer, phase, reported, past>>

\* handle_iso_completion: the results of the packets follow those before.
HandleIso ==
  /\ handler.at = "handle" /\ ~Locked /\ kind.type = "iso"
  /\ LET i == handler.urb
         u == urbs[i]
         results == [j \in 1 .. u.room |-> IF j <= u.actual THEN u.from + j ELSE 0]
         p == [Retired EXCEPT !.packets = @ \o results]
         ended == IF p.action # "NORMAL" THEN p.retired = N ELSE i = N
     IN IF ended
        THEN Completed([p EXCEPT !.status = IF p.action = "CANCELLED" THEN "CANCELLED"
                                           ELSE IF p.action # "NORMAL" THEN "ERROR"
                                           ELSE IF u.status \in {"ok", "killed"} THEN "COMPLETED" ELSE "NO_DEVICE"])
        ELSE Awaits(p)
  /\ UNCHANGED <<kind, plugged, kernel, data, phase, reported, past>>

\* handle_bulk_completion looks whether the transfer has been cancelled when it has
\* released the lock, so that it may be cancelled even now.
Outcome ==
  IF kind.type \in {"bulk", "interrupt"} /\ priv.action = "CANCELLED" THEN "CANCELLED" ELSE handler.status

\* The application wants all or nothing and has got less.
Lacking == kind.strict /\ transferred # kind.length

\* usbi_handle_transfer_completion: the callback; the transfer may be used again.
Complete ==
  /\ handler.at = "complete"
  /\ reported' = IF Outcome = "COMPLETED" /\ Lacking THEN "ERROR" ELSE Outcome
  /\ phase' = "idle" /\ handler' = Idle
  /\ UNCHANGED <<kind, plugged, kernel, priv, data, work, past>>

\* usbi_handle_disconnect, when poll says so: nothing is reaped any more.
Disconnect ==
  /\ handler.at = "poll" /\ ~plugged /\ ~Locked
  /\ handler' = [Idle EXCEPT !.at = "off"]
  /\ IF phase \in {"flying", "cancelling"}
     THEN priv' = [priv EXCEPT !.urbs = FALSE] /\ reported' = "NO_DEVICE" /\ phase' = "idle"
     ELSE UNCHANGED <<priv, reported, phase>>
  /\ UNCHANGED <<kind, plugged, kernel, data, work, past>>

-----------------------------------------------------------------------------
Proceed ==
  \/ SubmitUrb \/ FirstRefused \/ RefusedAsEarly \/ LaterRefused \/ Submitted
  \/ DiscardNext \/ Unlock
  \/ Reap \/ HandleControl \/ HandleSurplus \/ HandleBulk \/ HandleIso \/ Complete \/ Disconnect

Next == Submit \/ Cancel \/ Serve \/ Fail \/ Unplug \/ Proceed

Spec == Init /\ [][Next]_vars

\* The threads go on, and the device answers.
FairSpec == Spec /\ WF_vars(Proceed) /\ WF_vars(Serve)

-----------------------------------------------------------------------------
\* "wait for their completion before reporting results" (lines 2324-2325, and
\* 1888-1908): while the kernel has a URB that may be reaped, or the handler has
\* reaped it, the URBs of the transfer are not freed.
FreedOnlyWhenRetired ==
  handler.at # "off" =>
    /\ \A i \in 1 .. N : urbs[i].at # None => priv.urbs
    /\ handler.at = "handle" => priv.urbs

\* When a transfer ends, what it is said to have received is what the device has
\* sent, from the first byte, in order and without a hole, whichever URBs it came
\* in (lines 2218-2248), and each packet has its own result (2366-2410).
WholeAndInOrder ==
  reported \notin {None, "NO_DEVICE"} =>
    /\ kind.type # "iso" => transferred = sent
    /\ kind.type \in {"bulk", "interrupt"} /\ ~kind.out => \A p \in 1 .. transferred : buffer[p] = p
    /\ kind.type = "iso" /\ reported = "COMPLETED" => priv.packets = [p \in 1 .. Len(kind.packets) |-> p]

\* A transfer is completed when the device has not failed, and has sent all where a
\* short answer counts as an error (io.c:1635-1644); stalled when it has stalled,
\* and so on; an error is due to the device, to a URB that the kernel has refused or
\* to such an answer; what is cancelled has been asked to be.
StatusIsTrue ==
  /\ reported = "COMPLETED" => past \cap Faults = {} /\ ~Lacking
  /\ reported = "STALL" => "stall" \in past
  /\ reported = "OVERFLOW" => "overflow" \in past
  /\ reported = "ERROR" => past \cap {"error", "refused"} # {} \/ Lacking
  /\ reported = "CANCELLED" => "asked" \in past

\* What the application is told of a transfer is what has become of it.
ReportIsTrue == StatusIsTrue /\ WholeAndInOrder

\* Every transfer that is submitted ends: the URBs that are refused, discarded or
\* retired add up whatever their order.
EveryTransferEnds == (phase # "idle") ~> (phase = "idle")
=============================================================================
