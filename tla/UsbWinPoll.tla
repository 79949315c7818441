------------------------------ MODULE UsbWinPoll ------------------------------
(***************************************************************************)
(* The poll of libusb on Windows (poll_windows.c), as io.c and             *)
(* windows_usb.c use it.  A file descriptor is a row of poll_fd, with a    *)
(* lock: of a pipe that only signals, or of one overlapped transfer.       *)
(*                                                                         *)
(* Threads submit transfers: a descriptor is made, the transfer begun, the *)
(* descriptor added to those that are polled.  Threads signal the pipe.    *)
(* One thread polls and handles what is reported: it reads the pipe, it    *)
(* removes and frees the descriptor of a transfer that is done.            *)
(* A row is looked at without its lock first and then with it.             *)
(* External: overlapped transfers, events, WaitForMultipleObjects.         *)
(***************************************************************************)
EXTENDS Integers, FiniteSetsExt

CONSTANTS MAX_FDS,
          MAXIMUM_WAIT_OBJECTS, \* of WaitForMultipleObjects
          Transfers,            \* each of a thread of its own
          Writers,              \* threads that signal
          MaxWrites             \* bound: how often they do

None == "none"
Pipe == "pipe"
Rows == 0 .. MAX_FDS - 1

UsbWinPollAssumption ==
  /\ MAX_FDS \in Nat \ {0} /\ MAXIMUM_WAIT_OBJECTS \in Nat /\ MaxWrites \in Nat
  /\ {None, Pipe} \cap (Transfers \cup Writers) = {} /\ Transfers \cap Writers = {}

\* A wait has an object for each transfer and one for the pipe (poll_windows.c waits for 64 at most).
FewAtATime == IsFiniteSet(Transfers) /\ Cardinality(Transfers) < MAXIMUM_WAIT_OBJECTS

VARIABLES
  poll_fd,      \* per row whose overlapped it has: the pipe's or a transfer's
  lock,         \* per row: who is in its critical section
  pending, set, count,  \* of the pipe: Internal is STATUS_PENDING, hEvent, InternalHigh
  done,         \* transfers that the kernel has completed
  pc, row,      \* per transfer: where its thread is, at which row
  pc_writer, writes,  \* per writer: where it is; signals so far
  polled,       \* the descriptors core has told of
  told,         \* core has signalled a change of them that is not yet read
  poller        \* usbi_poll and what follows: where, fds still to come, triggered, waited for

vars == <<poll_fd, lock, pending, set, count, done, pc, row, pc_writer, writes, polled, told, poller>>
pipe == <<pending, set, count>>
threads == <<pc, row, pc_writer, writes>>

Outside == [at |-> "out", left |-> {}, triggered |-> {}, waits |-> {}]

\* usbi_pipe has made the pipe, in the first row.
Init ==
  /\ poll_fd = [i \in Rows |-> IF i = 0 THEN Pipe ELSE None]
  /\ lock = [i \in Rows |-> None]
  /\ pending = TRUE /\ set = FALSE /\ count = 0
  /\ done = {}
  /\ pc = [t \in Transfers |-> "look"] /\ row = [t \in Transfers |-> 0]
  /\ pc_writer = [w \in Writers |-> "out"] /\ writes = 0
  /\ polled = {0} /\ told = FALSE /\ poller = Outside

Goes(t, from, to) == pc[t] = from /\ pc' = [pc EXCEPT ![t] = to]

-----------------------------------------------------------------------------
(* usbi_create_fd, and what its caller does with the descriptor.             *)

\* The search for a row that is free ends without one: INVALID_WINFD.
NextRow(t) ==
  IF row[t] + 1 \in Rows
  THEN row' = [row EXCEPT ![t] = @ + 1] /\ pc' = [pc EXCEPT ![t] = "look"]
  ELSE row' = [row EXCEPT ![t] = 0] /\ pc' = [pc EXCEPT ![t] = "refused"]

\* The row is looked at without its lock.
Look(t) ==
  /\ pc[t] = "look"
  /\ IF poll_fd[row[t]] = None THEN Goes(t, "look", "enter") /\ UNCHANGED row ELSE NextRow(t)
  /\ UNCHANGED <<poll_fd, lock, pipe, done, pc_writer, writes, polled, told, poller>>

\* Mutant: the row is not looked at again.
Enter_Trusting(t) ==
  /\ pc[t] = "enter" /\ lock[row[t]] = None
  /\ lock' = [lock EXCEPT ![row[t]] = t] /\ pc' = [pc EXCEPT ![t] = "fill"] /\ UNCHANGED row
  /\ UNCHANGED <<poll_fd, pipe, done, pc_writer, writes, polled, told, poller>>

\* It may have been taken before the lock was.
Enter(t) ==
  /\ pc[t] = "enter" /\ lock[row[t]] = None
  /\ IF poll_fd[row[t]] = None
     THEN lock' = [lock EXCEPT ![row[t]] = t] /\ pc' = [pc EXCEPT ![t] = "fill"] /\ UNCHANGED row
     ELSE NextRow(t) /\ UNCHANGED lock
  /\ UNCHANGED <<poll_fd, pipe, done, pc_writer, writes, polled, told, poller>>

Fill(t) ==
  /\ Goes(t, "fill", "begin")
  /\ poll_fd' = [poll_fd EXCEPT ![row[t]] = t]
  /\ lock' = [lock EXCEPT ![row[t]] = None]
  /\ UNCHANGED <<pipe, done, row, pc_writer, writes, polled, told, poller>>

\* The system begins the transfer, which may be over at once, or refuses it: the
\* descriptor is freed.
Begin(t) ==
  /\ Goes(t, "begin", "add")
  /\ done' \in {done, done \cup {t}}
  /\ UNCHANGED <<poll_fd, lock, pipe, row, pc_writer, writes, polled, told, poller>>
FreeFd(t) ==
  /\ Goes(t, "begin", "refused") /\ lock[row[t]] = None
  /\ poll_fd' = [poll_fd EXCEPT ![row[t]] = None]
  /\ UNCHANGED <<lock, pipe, done, row, pc_writer, writes, polled, told, poller>>

Finishes(t) ==
  /\ pc[t] \in {"add", "submitted"} /\ t \notin done /\ done' = done \cup {t}
  /\ UNCHANGED <<poll_fd, lock, pipe, threads, polled, told, poller>>

Signal ==
  /\ lock[0] = None
  /\ set' = TRUE /\ pending' = FALSE /\ count' = count + 1

\* usbi_fd_notification: core signals, unless it has already.
Tell == told' = TRUE /\ IF told THEN UNCHANGED pipe ELSE Signal

\* usbi_add_pollfd
Add(t) ==
  /\ Goes(t, "add", "submitted") /\ polled' = polled \cup {row[t]} /\ Tell
  /\ UNCHANGED <<poll_fd, lock, done, row, pc_writer, writes, poller>>

-----------------------------------------------------------------------------
(* usbi_write: the event is set before the rest, and a poll that waits does  *)
(* not take the lock.                                                        *)

Write(w) ==
  /\ pc_writer[w] = "out" /\ writes < MaxWrites /\ lock[0] = None
  /\ set' = TRUE /\ writes' = writes + 1
  /\ lock' = [lock EXCEPT ![0] = w] /\ pc_writer' = [pc_writer EXCEPT ![w] = "count"]
  /\ UNCHANGED <<poll_fd, pending, count, done, pc, row, polled, told, poller>>
Count(w) ==
  /\ pc_writer[w] = "count"
  /\ pending' = FALSE /\ count' = count + 1
  /\ lock' = [lock EXCEPT ![0] = None] /\ pc_writer' = [pc_writer EXCEPT ![w] = "out"]
  /\ UNCHANGED <<poll_fd, set, done, pc, row, writes, polled, told, poller>>

\* Mutant: the event is reset whatever the count.
ReadPipe_Drains ==
  /\ count' = count - 1 /\ set' = FALSE /\ pending' = TRUE

\* usbi_read: reset only when nothing is left to be read.
ReadPipe ==
  /\ count' = count - 1
  /\ set' = (set /\ count' > 0) /\ pending' = (pending \/ count' <= 0)

-----------------------------------------------------------------------------
(* usbi_poll, and the handling of what it reports.                           *)

Begins ==
  /\ poller.at = "out"
  /\ poller' = [Outside EXCEPT !.at = "collect", !.left = polled]
  /\ UNCHANGED <<poll_fd, lock, pipe, done, threads, polled, told>>

Completed(i) == IF poll_fd[i] = Pipe THEN ~pending ELSE poll_fd[i] \in done

\* One descriptor after another, under its lock: done, to be waited for, or (in
\* a row that is free) invalid.
Collect ==
  LET i == Min(poller.left) IN
  /\ poller.at = "collect" /\ poller.left # {} /\ lock[i] = None
  /\ poller' =
       IF poll_fd[i] = None THEN [poller EXCEPT !.at = "failed"]
       ELSE IF Completed(i) THEN [poller EXCEPT !.left = @ \ {i}, !.triggered = @ \cup {i}]
       ELSE [poller EXCEPT !.left = @ \ {i}, !.waits = @ \cup {[fd |-> i, object |-> poll_fd[i]]}]
  /\ UNCHANGED <<poll_fd, lock, pipe, done, threads, polled, told>>

Collected == poller.at = "collect" /\ poller.left = {}
Signalled(object) == IF object = Pipe THEN set ELSE object \in done

\* Something is done already, or an event is waited for without any lock: only
\* the first that is set is reported.
Report ==
  /\ Collected
  /\ IF poller.triggered # {} THEN poller' = [poller EXCEPT !.at = "handle"]
     ELSE IF Cardinality(poller.waits) > MAXIMUM_WAIT_OBJECTS THEN poller' = [poller EXCEPT !.at = "failed"]
     ELSE \E w \in poller.waits :
            Signalled(w.object) /\ poller' = [poller EXCEPT !.at = "handle", !.triggered = {w.fd}]
  /\ UNCHANGED <<poll_fd, lock, pipe, done, threads, polled, told>>

\* The pipe is read under its lock; a wait for its event there would keep out
\* those who could set it.
HandlePipe ==
  /\ poller.at = "handle" /\ 0 \in poller.triggered /\ lock[0] = None /\ set
  /\ ReadPipe /\ told' = FALSE
  /\ poller' = [poller EXCEPT !.triggered = @ \ {0}]
  /\ UNCHANGED <<poll_fd, lock, done, threads, polled>>

\* After the pipe: the transfer is reported, its descriptor no more polled, of which
\* core is told (usbi_remove_pollfd), and freed.
HandleTransfer(t) ==
  LET i == row[t] IN
  /\ poller.at = "handle" /\ pc[t] = "submitted" /\ i \in poller.triggered /\ poll_fd[i] = t
  /\ 0 \notin poller.triggered /\ lock[i] = None
  /\ polled' = polled \ {i} /\ Tell /\ poll_fd' = [poll_fd EXCEPT ![i] = None]
  /\ done' = done \ {t} /\ pc' = [pc EXCEPT ![t] = "ended"]
  /\ poller' = [poller EXCEPT !.triggered = @ \ {i}]
  /\ UNCHANGED <<lock, row, pc_writer, writes>>

Ends ==
  /\ poller.at = "handle" /\ poller.triggered = {} /\ poller' = Outside
  /\ UNCHANGED <<poll_fd, lock, pipe, done, threads, polled, told>>

Poll == Begins \/ Collect \/ Report \/ HandlePipe \/ Ends \/ \E t \in Transfers : HandleTransfer(t)
Submit(t) == Look(t) \/ Enter(t) \/ Fill(t) \/ Begin(t) \/ FreeFd(t) \/ Add(t)

\* What has ended may be submitted again.
Again(t) ==
  /\ pc[t] \in {"ended", "refused"}
  /\ pc' = [pc EXCEPT ![t] = "look"] /\ row' = [row EXCEPT ![t] = 0]
  /\ UNCHANGED <<poll_fd, lock, pipe, done, pc_writer, writes, polled, told, poller>>

Next ==
  \/ Poll
  \/ \E t \in Transfers : Submit(t) \/ Finishes(t) \/ Again(t)
  \/ \E w \in Writers : Write(w) \/ Count(w)

\* Events are polled for and handled, writers and submitters go on with what
\* they have begun, and transfers end.
Fairness ==
  /\ WF_vars(Poll)
  /\ \A t \in Transfers : WF_vars(Submit(t) \/ Finishes(t))
  /\ \A w \in Writers : WF_vars(Count(w))
Spec == Init /\ [][Next]_vars /\ Fairness

-----------------------------------------------------------------------------
TypeOK ==
  /\ poll_fd \in [Rows -> Transfers \cup {Pipe, None}]
  /\ lock \in [Rows -> Transfers \cup Writers \cup {None}]
  /\ row \in [Transfers -> Rows] /\ polled \subseteq Rows /\ done \subseteq Transfers

\* A row belongs to one transfer from the moment it is filled until it is freed,
\* although many look for one at a time (poll_windows.c:335-345).
RowsAreOwn ==
  \A t \in Transfers : pc[t] \in {"begin", "add", "submitted"} => poll_fd[row[t]] = t

\* The event of the pipe, what poll looks at, and the count say the same when
\* nobody is at it, whatever the order of signals and reads (poll_windows.c:671-720).
PipeAgrees == lock[0] = None => /\ set = (count > 0) /\ pending = (count = 0)

\* poll does not fail, and what it reports is so: the pipe can be read without
\* waiting with its lock held, the transfer is done (poll_windows.c:561-602).
PollIsTrue ==
  /\ poller.at # "failed"
  /\ poller.at = "handle" =>
       \A i \in poller.triggered : IF poll_fd[i] = Pipe THEN set ELSE poll_fd[i] \in done

\* Every transfer that is begun is handled once it is done, and every signal is
\* reported, although poll may have begun before the descriptor was there
\* (poll_windows.c:583-602).
NothingIsMissed ==
  /\ \A t \in Transfers : pc[t] = "submitted" ~> pc[t] = "ended"
  /\ count > 0 ~> 0 \in poller.triggered
=============================================================================
