------------------------------ MODULE UsbWinCond ------------------------------
(***************************************************************************)
(* The mutex and the condition variable of libusb on Windows               *)
(* (threads_windows.c), as io.c uses them: threads that wait for events    *)
(* with event_waiters_lock held, and threads that broadcast with it held.  *)
(*                                                                         *)
(* A thread that waits is in one of two lists, with an event of its own    *)
(* that resets itself when a wait for it ends.  usbi_cond_signal, which    *)
(* nothing calls, is left out.  External: events, and the clock.           *)
(***************************************************************************)
EXTENDS Integers, FiniteSets

CONSTANTS Threads,
          Patient,  \* those that wait without a time limit
          MaxCalls  \* bound: broadcasts

None == "none"
UsbWinCondAssumption == Patient \subseteq Threads /\ None \notin Threads /\ MaxCalls \in Nat

VARIABLES
  mutex,        \* its owner
  waiters, not_waiting,
  event,        \* the events that are set
  pc, r2,       \* per thread: where it is, and how its wait has ended
  calls,        \* broadcasts so far
  due           \* history: threads that were waiting at a broadcast and have not been woken

vars == <<mutex, waiters, not_waiting, event, pc, r2, calls, due>>

Init ==
  /\ mutex = None
  /\ waiters = {} /\ not_waiting = {} /\ event = {}
  /\ pc = [t \in Threads |-> "out"] /\ r2 = [t \in Threads |-> "none"]
  /\ calls = 0 /\ due = {}

Goes(t, from, to) == pc[t] = from /\ pc' = [pc EXCEPT ![t] = to]

\* usbi_mutex_lock: a thread waits until nobody owns the mutex.
Lock(t) ==
  /\ Goes(t, "out", "in") /\ mutex = None /\ mutex' = t
  /\ UNCHANGED <<waiters, not_waiting, event, r2, calls, due>>

Unlock(t) ==
  /\ Goes(t, "in", "out") /\ mutex' = None
  /\ UNCHANGED <<waiters, not_waiting, event, r2, calls, due>>

\* Mutant: the thread that has waited longest is forgotten by its own broadcast.
Broadcast_One(t) ==
  /\ pc[t] = "in" /\ calls < MaxCalls /\ calls' = calls + 1
  /\ event' = event \cup (IF waiters = {} THEN {} ELSE {CHOOSE w \in waiters : TRUE})
  /\ due' = due \cup waiters
  /\ UNCHANGED <<mutex, waiters, not_waiting, pc, r2>>

\* The events of all waiters are set; the waiters stay in their list.
Broadcast(t) ==
  /\ pc[t] = "in" /\ calls < MaxCalls /\ calls' = calls + 1
  /\ event' = event \cup waiters
  /\ due' = due \cup waiters
  /\ UNCHANGED <<mutex, waiters, not_waiting, pc, r2>>

\* Mutant: a thread gets into the list when it has given the mutex up.
BeginWait_Late(t) ==
  /\ Goes(t, "in", "waiting") /\ mutex' = None
  /\ not_waiting' = not_waiting \cup {t}
  /\ UNCHANGED <<waiters, event, r2, calls, due>>

\* usbi_cond_intwait: from one list to the other, or into it with a new event
\* (memory for which is assumed), then the mutex is given up.
BeginWait(t) ==
  /\ Goes(t, "in", "waiting") /\ mutex' = None
  /\ not_waiting' = not_waiting \ {t} /\ waiters' = waiters \cup {t}
  /\ UNCHANGED <<event, r2, calls, due>>

\* WaitForSingleObject ends: an event that is set is reset by it.
Wake(t) ==
  /\ Goes(t, "waiting", "woken") /\ t \in event
  /\ event' = event \ {t} /\ r2' = [r2 EXCEPT ![t] = "event"]
  /\ due' = due \ {t}
  /\ UNCHANGED <<mutex, waiters, not_waiting, calls>>

\* Its time is over, before its event was set.
TimeOut(t) ==
  /\ t \notin Patient /\ t \notin event
  /\ Goes(t, "waiting", "woken") /\ r2' = [r2 EXCEPT ![t] = "timeout"]
  /\ UNCHANGED <<mutex, waiters, not_waiting, event, calls, due>>

\* The thread has the mutex again and takes itself off the list.  A broadcast
\* that came meanwhile has set its event, and leaves it so.
Return(t) ==
  /\ Goes(t, "woken", "in") /\ mutex = None /\ mutex' = t
  /\ waiters' = waiters \ {t} /\ not_waiting' = not_waiting \cup {t}
  /\ r2' = [r2 EXCEPT ![t] = "none"]
  /\ due' = due \ {t}
  /\ UNCHANGED <<event, calls>>

Next ==
  \E t \in Threads :
    \/ Lock(t) \/ Unlock(t) \/ Broadcast(t)
    \/ BeginWait(t) \/ Wake(t) \/ TimeOut(t) \/ Return(t)

\* The scheduler runs the threads: one that has the mutex gives it up, one that
\* is waiting for it gets it, one whose event is set wakes.
Fairness == \A t \in Threads : WF_vars(Unlock(t) \/ Wake(t)) /\ SF_vars(Return(t))
Spec == Init /\ [][Next]_vars /\ Fairness

-----------------------------------------------------------------------------
TypeOK ==
  /\ mutex \in Threads \cup {None}
  /\ waiters \subseteq Threads /\ not_waiting \subseteq Threads /\ event \subseteq Threads
  /\ due \subseteq Threads

\* A thread is in the list of those that wait from the moment it gives up the
\* mutex until it has it again, and in no other list then: a broadcast, made
\* with the mutex held, cannot miss it (threads_windows.c:129-158).
WaitersAreListed ==
  \A t \in Threads :
    /\ pc[t] \in {"waiting", "woken"} <=> t \in waiters
    /\ t \notin waiters \cap not_waiting
    /\ t \in due => t \in event

\* Every thread that waits at a broadcast is woken, and has the mutex again,
\* without the help of its time limit (threads_windows.c:105-119).
BroadcastWakesAll == \A t \in Threads : t \in due ~> t \notin due /\ pc[t] # "waiting"
=============================================================================
