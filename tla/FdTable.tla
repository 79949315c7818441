------------------------------- MODULE FdTable -------------------------------
(***************************************************************************)
(* The file descriptor table of the process (external: the kernel), as the *)
(* HAL uses it.  A descriptor is an index, open takes the lowest free one, *)
(* and close frees whatever the index names at that moment: nothing ties   *)
(* an int that a component has kept to the file it was returned for.       *)
(***************************************************************************)
EXTENDS Integers

CONSTANTS Owners,    \* the callers a descriptor can have been opened for
          NoOwner,   \* opened for nobody in particular
          MaxFd      \* RLIMIT_NOFILE - 1

ASSUME FdAssumption == MaxFd \in Nat /\ NoOwner \notin Owners

Fd == 0 .. MaxFd

\* An open file.  id tells the files of one kind apart; owner is history: the
\* thread that opened it.
File(kind, id, owner) == [kind |-> kind, id |-> id, owner |-> owner]

Free == File("free", 0, NoOwner)

\* fd is what the next open returns; there is none when the table is full.
IsLowestFree(fds, fd) ==
  /\ fd \in Fd
  /\ fds[fd] = Free
  /\ \A g \in Fd : g < fd => fds[g] # Free

Full(fds) == \A fd \in Fd : fds[fd] # Free

\* close(fd): EBADF, with no effect, when fd names nothing.
Closed(fds, fd) == IF fd \in Fd THEN [fds EXCEPT ![fd] = Free] ELSE fds
=============================================================================
