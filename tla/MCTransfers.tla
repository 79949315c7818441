------------------------------ MODULE MCTransfers ------------------------------
(***************************************************************************)
(* Four parts that share no state, one at a time.  Of the Linux backend of *)
(* libusb: the URBs of a transfer (UsbUrbs: up to three URBs), the claims  *)
(* and drivers of interfaces (UsbInterfaces: two handles, one of them used *)
(* by two threads), the descriptors of configurations (UsbDescriptors).    *)
(* Of the HAL: the frames of two CAN sockets (Can).  Which part it is, is  *)
(* chosen at the start.                                                    *)
(***************************************************************************)
EXTENDS UsbInterfaces, Sequences

VARIABLES part,
          u_kind, u_plugged, u_urbs, u_done, u_refuses, u_sent, u_priv, u_buffer, u_transferred, u_phase,
          u_work, u_handler, u_reported, u_past,
          d_device, d_sysfs_has_descriptors,
          c_rx, c_error, c_frames, c_pc, c_call, c_result, c_ret, c_accepted, c_got

urbVars ==
  <<u_kind, u_plugged, u_urbs, u_done, u_refuses, u_sent, u_priv, u_buffer, u_transferred, u_phase,
    u_work, u_handler, u_reported, u_past>>
descriptorVars == <<d_device, d_sysfs_has_descriptors>>
canVars == <<c_rx, c_error, c_frames, c_pc, c_call, c_result, c_ret, c_accepted, c_got>>
sumVars == <<part, vars, urbVars, descriptorVars, canVars>>

\* Interface 0 has a driver of the kernel, interface 1 has none.
MCHandleOf == [t1 |-> "h", t2 |-> "h", t3 |-> "g"]
ASSUME ~DetachOverlaps /\ ~CallsOverlap

\* The descriptors (see Config, Interface and Plain of UsbDescriptors).
Descriptor(type, length, number, says, missing) ==
  [type |-> type, length |-> length, number |-> number, says |-> says, missing |-> missing, total |-> 0]
MCFirsts == {Descriptor("config", 9, 1, n, m) : n \in {1, 2}, m \in {0, 1}} \cup {Descriptor("config", 10, 1, 1, 0)}
MCOthers ==
  {Descriptor("config", 9, 2, 2, 0), Descriptor("interface", 9, 0, 0, 0), Descriptor("interface", 9, 0, 1, 0),
   Descriptor("interface", 9, 1, 1, 0), Descriptor("interface", 9, 1, 3, 0),
   Descriptor("endpoint", 7, 0, 0, 0), Descriptor("other", 3, 0, 0, 0), Descriptor("other", 1, 0, 0, 0)}
D == INSTANCE UsbDescriptors WITH
  Firsts <- MCFirsts, Others <- MCOthers, MaxDescriptors <- 5, USB_MAXINTERFACES <- 2, USB_MAXENDPOINTS <- 2,
  device <- d_device, sysfs_has_descriptors <- d_sysfs_has_descriptors

\* Every way to split a transfer; a stall only where the kernel ends the continuation.
Sort(type, out, cap, length, packets, faults) ==
  [type |-> type, out |-> out, cap |-> cap, length |-> length, packets |-> packets,
   strict |-> type \in {"control", "interrupt"}, faults |-> faults]
AllFaults == {"stall", "error", "overflow"}
MCKinds ==
  {Sort("control", FALSE, "none", 2, << >>, {"stall", "error"}),
   Sort("bulk", FALSE, "continuation", 5, << >>, AllFaults),
   Sort("bulk", TRUE, "continuation", 4, << >>, AllFaults),
   Sort("bulk", FALSE, "none", 5, << >>, {"error", "overflow"}),
   Sort("interrupt", FALSE, "none", 4, << >>, {"error"}),
   Sort("bulk", FALSE, "scatter-gather", 5, << >>, AllFaults),
   Sort("bulk", FALSE, "no limit", 0, << >>, AllFaults),
   Sort("iso", FALSE, "none", 0, <<2, 2, 1, 3>>, {}),
   Sort("iso", FALSE, "none", 0, <<2, 5>>, {})}

U == INSTANCE UsbUrbs WITH
  Kinds <- MCKinds, MaxBulk <- 2, MaxIso <- 4, Refusals <- {"memory"}, FaultsEarly <- FALSE,
  kind <- u_kind, plugged <- u_plugged, urbs <- u_urbs, done <- u_done, refuses <- u_refuses, sent <- u_sent,
  priv <- u_priv, buffer <- u_buffer, transferred <- u_transferred, phase <- u_phase, work <- u_work,
  handler <- u_handler, reported <- u_reported, past <- u_past

\* Two sockets; one thread reads a socket at a time.
CanSockets == {5, 6}
CanCalls == [op : {"read"}, sock : CanSockets, length : {0}] \cup [op : {"send"}, sock : {6}, length : {8}]
OneReader(c, d) == ~(c.op = "read" /\ d.op = "read" /\ c.sock = d.sock)
C == INSTANCE Can WITH
  Threads <- {"t1", "t2"}, Calls <- CanCalls, MayOverlap <- OneReader, Sockets <- CanSockets, Lengths <- {0},
  MaxFrames <- 3, MaxQueue <- 2, Garbage <- {200}, Failures <- {"select", "write", "down"},
  rx <- c_rx, error <- c_error, frames <- c_frames, pc <- c_pc, call <- c_call, result <- c_result,
  ret <- c_ret, accepted <- c_accepted, got <- c_got

ASSUME U!UsbUrbsAssumption /\ U!StallsContinue /\ U!IsoSplits /\ C!CanAssumption /\ C!OneReader

\* The parts that are not chosen are as good in one state as in another.
SumInit ==
  /\ part \in {"urbs", "interfaces", "descriptors", "can"} /\ Init /\ U!Init /\ D!Init /\ C!Init
  /\ part # "urbs" => u_kind = CHOOSE k \in MCKinds : TRUE
  /\ part # "interfaces" => ~old
  /\ part # "descriptors" => d_device = <<Descriptor("config", 9, 1, 1, 0)>> /\ ~d_sysfs_has_descriptors

Urbs(A) == part = "urbs" /\ A /\ UNCHANGED <<part, vars, descriptorVars, canVars>>
Sockets(A) == part = "can" /\ A /\ UNCHANGED <<part, vars, urbVars, descriptorVars>>

SumNext ==
  \/ part = "descriptors" /\ D!Add /\ UNCHANGED <<part, vars, urbVars, canVars>>
  \/ Urbs(U!Next)
  \/ part = "interfaces" /\ Next /\ UNCHANGED <<part, urbVars, descriptorVars, canVars>>
  \/ Sockets(C!Next)

\* The fairness of the URBs (the threads go on, and the device answers) and of
\* the sockets (the scheduler runs both threads).
SumSpec ==
  /\ SumInit /\ [][SumNext]_sumVars
  /\ WF_sumVars(Urbs(U!Proceed) \/ Sockets(C!Proceed("t1")))
  /\ WF_sumVars(Urbs(U!Serve) \/ Sockets(C!Proceed("t2")))

\* The URBs of a transfer are freed when the kernel has none of them (see UsbUrbs).
FreedOnlyWhenRetired == U!FreedOnlyWhenRetired
\* What the application is told of a transfer is true (see UsbUrbs).
ReportIsTrue == U!ReportIsTrue
\* Every transfer that is submitted ends (see UsbUrbs).
EveryTransferEnds == U!EveryTransferEnds

\* The configurations of a device are found and parsed as they are (see UsbDescriptors).
ConfigurationsAreTrue == D!ConfigurationsAreTrue

\* Nothing a CAN socket has queued is lost on the way to Java (see Can).
NothingLostOrReordered == C!NothingLostOrReordered
\* Every canReadBytes returns (see Can).
EveryReadReturns == C!EveryReadReturns
=============================================================================
