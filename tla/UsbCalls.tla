------------------------------ MODULE UsbCalls ------------------------------
(***************************************************************************)
(* What a synchronous transfer of libusb promises its caller: it is handed *)
(* over once, it ends once, with a status that says truly why, and the     *)
(* call returns that status.  How the threads of the application share the *)
(* handling of events to bring this about is left to UsbIo.                *)
(***************************************************************************)
CONSTANTS Threads, \* callers, each with a transfer of its own
          Timed    \* those whose transfers have a timeout

VARIABLES plugged, \* the device is there
          phase,   \* per caller: "none", "pending" or "ended"
          status,  \* per caller: the status its last transfer ended with
          expired  \* the callers whose time is up
vars == <<plugged, phase, status, expired>>

Init ==
  /\ plugged = TRUE
  /\ phase = [t \in Threads |-> "none"]
  /\ status = [t \in Threads |-> "none"]
  /\ expired = {}

Submit(t) ==
  /\ phase[t] = "none"
  /\ phase' = [phase EXCEPT ![t] = "pending"]
  /\ status' = [status EXCEPT ![t] = "none"]
  /\ UNCHANGED <<plugged, expired>>

\* A transfer times out when its time is up, and finds no device when there is
\* none; the device ends it otherwise.
End(t, s) ==
  /\ phase[t] = "pending"
  /\ s = "TIMED_OUT" => t \in expired
  /\ s = "NO_DEVICE" => ~plugged
  /\ phase' = [phase EXCEPT ![t] = "ended"]
  /\ status' = [status EXCEPT ![t] = s]
  /\ UNCHANGED <<plugged, expired>>

Return(t) ==
  /\ phase[t] = "ended"
  /\ phase' = [phase EXCEPT ![t] = "none"]
  /\ status' = [status EXCEPT ![t] = "none"]
  /\ expired' = expired \ {t}
  /\ UNCHANGED plugged

Expire(t) ==
  /\ t \in Timed /\ phase[t] = "pending"
  /\ expired' = expired \cup {t}
  /\ UNCHANGED <<plugged, phase, status>>

Unplug == plugged /\ plugged' = FALSE /\ UNCHANGED <<phase, status, expired>>

Next ==
  \/ Unplug
  \/ \E t \in Threads :
       \/ Submit(t) \/ Return(t) \/ Expire(t)
       \/ \E s \in {"COMPLETED", "STALL", "TIMED_OUT", "CANCELLED", "NO_DEVICE"} : End(t, s)

Spec == Init /\ [][Next]_vars
=============================================================================
