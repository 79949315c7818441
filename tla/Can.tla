-------------------------------- MODULE Can --------------------------------
(***************************************************************************)
(* can.c: canReadBytes and canSendBytes with their Java bindings, called   *)
(* by several threads on raw CAN sockets of one interface.  A read is a    *)
(* select with a time limit and then a read that has none.                 *)
(*                                                                         *)
(* Abstracted: the payload of a frame is its number.  External: the kernel *)
(* queues the frames of the bus, and those that other sockets send, per    *)
(* socket; when the interface goes down, every socket has an error to      *)
(* report, which select counts as something to read.                       *)
(***************************************************************************)
EXTENDS Integers, SequencesExt

CONSTANTS Threads,          \* callers: the Java threads of the application
          Calls,            \* the calls they make
          MayOverlap(_, _), \* the pairs of calls the application lets overlap
          Sockets,          \* open sockets
          Lengths,          \* data lengths of the frames on the bus
          MaxFrames,        \* bound: frames in one run
          MaxQueue,         \* frames a socket queues before the kernel drops
          Garbage,          \* what an uninitialised can_dlc may hold
          Failures          \* what may fail: "select", "write", "down"

FrameSize == 16             \* sizeof(struct can_frame)
Call == [op : {"read", "send"}, sock : Sockets, length : 0 .. 8]
NoCall == [op |-> "none", sock |-> 0, length |-> 0]

Frame(n, length) == [id |-> n, length |-> length]
Frames == [id : 1 .. MaxFrames, length : 0 .. 8]
Null == Frame(-1, 0)
Uninitialised == {Frame(0, length) : length \in Garbage}

CanAssumption ==
  /\ Calls \subseteq Call /\ Lengths \subseteq 0 .. 8 /\ Garbage \subseteq 0 .. 255
  /\ MaxFrames \in Nat /\ MaxQueue \in Nat \ {0}

VARIABLES
  \* the kernel: per socket, the queue and whether an error is pending; the
  \* number of frames so far
  rx, error, frames,
  \* per thread: its place in the code, its call, the frame it hands to Java
  \* (canReadBytes), the number it returns (canSendBytes)
  pc, call, result, ret,
  accepted, got  \* history, per socket: the frames queued, those Java has got

kernel == <<rx, error, frames>>
locals == <<call, result, ret>>
vars == <<kernel, pc, locals, accepted, got>>

TypeOK ==
  /\ rx \in [Sockets -> Seq(Frames)]
  /\ error \in [Sockets -> BOOLEAN]
  /\ frames \in 0 .. MaxFrames
  /\ pc \in [Threads -> {"idle", "start", "select", "read", "return"}]
  /\ call \in [Threads -> Call \cup {NoCall}]
  /\ result \in [Threads -> Frames \cup {Null} \cup Uninitialised]
  /\ ret \in [Threads -> {-1, 0, FrameSize}]
  /\ accepted \in [Sockets -> Seq(Frames)]
  /\ got \in [Sockets -> Seq(Frames)]

Init ==
  /\ rx = [s \in Sockets |-> << >>]
  /\ error = [s \in Sockets |-> FALSE]
  /\ frames = 0
  /\ pc = [t \in Threads |-> "idle"]
  /\ call = [t \in Threads |-> NoCall]
  /\ result = [t \in Threads |-> Null]
  /\ ret = [t \in Threads |-> 0]
  /\ accepted = [s \in Sockets |-> << >>]
  /\ got = [s \in Sockets |-> << >>]

-----------------------------------------------------------------------------
Goto(t, place) == pc' = [pc EXCEPT ![t] = place]
Hand(t, frame) == Goto(t, "return") /\ result' = [result EXCEPT ![t] = frame]

\* A new frame is queued by the sockets in to that have room for it.
Queue(length, to) ==
  LET frame == Frame(frames + 1, length)
      room == {s \in to : Len(rx[s]) < MaxQueue}
      Appended(q) == [s \in Sockets |-> IF s \in room THEN Append(q[s], frame) ELSE q[s]]
  IN /\ frames < MaxFrames
     /\ frames' = frames + 1
     /\ rx' = Appended(rx)
     /\ accepted' = Appended(accepted)

Enter(t, c) ==
  /\ pc[t] = "idle"
  /\ \A u \in Threads : pc[u] # "idle" => MayOverlap(c, call[u]) /\ MayOverlap(call[u], c)
  /\ call' = [call EXCEPT ![t] = c]
  /\ Goto(t, IF c.op = "read" THEN "select" ELSE "start")
  /\ UNCHANGED <<kernel, result, ret, accepted, got>>

-----------------------------------------------------------------------------
Readable(s) == rx[s] # << >> \/ error[s]

\* canReadBytes: select says that there is something to read ...
SelectReady(t) ==
  /\ pc[t] = "select" /\ Readable(call[t].sock)
  /\ Goto(t, "read")
  /\ UNCHANGED <<kernel, locals, accepted, got>>

\* Mutant: no time limit.
SelectTimeout_Never(t) == FALSE /\ UNCHANGED vars

\* ... or a second has passed, or select has failed: NULL.
SelectTimeout(t) ==
  /\ pc[t] = "select"
  /\ ~Readable(call[t].sock) \/ "select" \in Failures
  /\ Hand(t, Null)
  /\ UNCHANGED <<kernel, call, ret, accepted, got>>

\* Mutant: all frames are taken off the socket, the last one is returned.
Read_Drains(t) ==
  /\ pc[t] = "read"
  /\ LET s == call[t].sock
     IN rx[s] # << >> /\ Hand(t, Last(rx[s])) /\ rx' = [rx EXCEPT ![s] = << >>]
  /\ UNCHANGED <<error, frames, call, ret, accepted, got>>

\* read takes a frame off the socket, and waits for one when there is none; when
\* it reports an error instead, the frame stays uninitialised and is returned.
Read(t) ==
  /\ pc[t] = "read"
  /\ LET s == call[t].sock
     IN \/ /\ ~error[s] /\ rx[s] # << >>
           /\ Hand(t, Head(rx[s]))
           /\ rx' = [rx EXCEPT ![s] = Tail(@)]
           /\ UNCHANGED error
        \/ /\ error[s]
           /\ \E frame \in Uninitialised : Hand(t, frame)
           /\ error' = [error EXCEPT ![s] = FALSE]
           /\ UNCHANGED rx
  /\ UNCHANGED <<frames, call, ret, accepted, got>>

\* canSendBytes: the other sockets of the interface get the frame too.  A write on
\* a socket that has an error to report reports that, and the error is gone.
Send(t) ==
  /\ pc[t] = "start"
  /\ LET s == call[t].sock
     IN \/ /\ ~error[s]
           /\ Queue(call[t].length, Sockets \ {s})
           /\ ret' = [ret EXCEPT ![t] = FrameSize]
           /\ UNCHANGED error
        \/ /\ error[s]
           /\ error' = [error EXCEPT ![s] = FALSE]
           /\ ret' = [ret EXCEPT ![t] = -1]
           /\ UNCHANGED <<rx, frames, accepted>>
        \/ /\ "write" \in Failures
           /\ ret' = [ret EXCEPT ![t] = -1]
           /\ UNCHANGED <<rx, error, frames, accepted>>
  /\ Goto(t, "return")
  /\ UNCHANGED <<call, result, got>>

\* The binding gives Java the frame, or null.
Leave(t) ==
  /\ pc[t] = "return"
  /\ got' = IF result[t] \in Frames THEN [got EXCEPT ![call[t].sock] = Append(@, result[t])] ELSE got
  /\ Goto(t, "idle")
  /\ call' = [call EXCEPT ![t] = NoCall]
  /\ result' = [result EXCEPT ![t] = Null]
  /\ ret' = [ret EXCEPT ![t] = 0]
  /\ UNCHANGED <<kernel, accepted>>

\* Somebody on the bus sends a frame.
Receive ==
  /\ \E length \in Lengths : Queue(length, Sockets)
  /\ UNCHANGED <<error, pc, locals, got>>

GoDown ==
  /\ "down" \in Failures
  /\ error' = [s \in Sockets |-> TRUE]
  /\ UNCHANGED <<rx, frames, pc, locals, accepted, got>>

Proceed(t) == SelectReady(t) \/ SelectTimeout(t) \/ Read(t) \/ Send(t) \/ Leave(t)

Next ==
  \/ \E t \in Threads : (\E c \in Calls : Enter(t, c)) \/ Proceed(t)
  \/ Receive \/ GoDown

Spec == Init /\ [][Next]_vars

\* The scheduler runs every thread, and time passes; nothing is assumed of the
\* bus or of the application.
FairSpec == Spec /\ \A t \in Threads : WF_vars(Proceed(t))

-----------------------------------------------------------------------------
\* The discipline: one thread at a time reads a socket.
OneReader ==
  \A c, d \in Calls : MayOverlap(c, d) /\ MayOverlap(d, c) /\ c.op = "read" /\ d.op = "read" => c.sock # d.sock

\* Who holds a frame of socket s that Java has not got yet.
Holding(s) == {t \in Threads : call[t].sock = s /\ result[t] \in Frames}

\* Java gets the frames a socket has queued in their order, each of them once and
\* none left out, when one thread reads the socket at a time: a frame taken off
\* the socket is never dropped on the way (can.c:103-121).
NothingLostOrReordered ==
  \A s \in Sockets :
    /\ Holding(s) = {} => accepted[s] = got[s] \o rx[s]
    /\ \A t \in Holding(s) : accepted[s] = got[s] \o <<result[t]>> \o rx[s]

Reading(t) == call[t].op = "read"

\* Nobody else is in a call on the socket that t reads.
Alone(t) == Reading(t) => \A u \in Threads \ {t} : call[u].sock # call[t].sock

\* Every canReadBytes returns, even when no frame ever comes (can.c:97-107): what
\* select has seen is still there when read asks for it, unless a send on the same
\* socket has been told of the error that select saw (can.c:155); then the read
\* waits, and returns with the next frame.
EveryReadReturns ==
  \A t \in Threads :
    /\ []Alone(t) => (Reading(t) ~> ~Reading(t))
    /\ Reading(t) /\ rx[call[t].sock] # << >> ~> ~Reading(t)
=============================================================================
