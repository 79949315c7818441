----------------------------- MODULE AtomicLines -----------------------------
(***************************************************************************)
(* What the GPIO part of the HAL promises its callers: every line is an    *)
(* atomic one-bit register.  A read or a write of a line takes effect once,*)
(* at one instant between its call and its return, on the line it names    *)
(* and on no other, or it takes no effect at all and is refused.  Input    *)
(* lines are driven from outside, and a write leaves their level alone.    *)
(***************************************************************************)
CONSTANTS Threads,   \* the callers
          Lines,     \* the lines they may ask for
          Inputs,    \* the lines configured as inputs
          NoLine     \* the line of a thread that is not in a call

VARIABLES level,     \* the set of lines that are high
          op         \* what each thread has asked for, and how far that is

vars == <<level, op>>

Idle == [phase |-> "idle", kind |-> "none", line |-> NoLine, val |-> FALSE]

Op == [phase : {"idle", "pending", "taken", "refused"},
       kind : {"none", "read", "write"}, line : Lines \cup {NoLine}, val : BOOLEAN]

TypeOK == level \subseteq Lines /\ op \in [Threads -> Op]

Init == /\ level \subseteq Inputs
        /\ op = [t \in Threads |-> Idle]

\* A call comes in.  The result of a read is not known yet.
Begin(t, kind, line, val) ==
  /\ op[t].phase = "idle"
  /\ kind = "read" => ~val
  /\ op' = [op EXCEPT ![t] = [phase |-> "pending", kind |-> kind, line |-> line, val |-> val]]
  /\ UNCHANGED level

\* The instant at which a read sees the line.
TakeRead(t) ==
  /\ op[t].phase = "pending" /\ op[t].kind = "read"
  /\ op' = [op EXCEPT ![t].phase = "taken", ![t].val = (op[t].line \in level)]
  /\ UNCHANGED level

\* The instant at which a write sets the line.
TakeWrite(t) ==
  /\ op[t].phase = "pending" /\ op[t].kind = "write"
  /\ op' = [op EXCEPT ![t].phase = "taken"]
  /\ level' = CASE op[t].line \in Inputs -> level
                [] op[t].line \notin Inputs /\ op[t].val -> level \cup {op[t].line}
                [] OTHER -> level \ {op[t].line}

\* The call will return without having touched the line.
Refuse(t) ==
  /\ op[t].phase = "pending"
  /\ op' = [op EXCEPT ![t].phase = "refused"]
  /\ UNCHANGED level

End(t) ==
  /\ op[t].phase \in {"taken", "refused"}
  /\ op' = [op EXCEPT ![t] = Idle]
  /\ UNCHANGED level

\* The outside world drives an input line.
Drive(line) ==
  /\ level' = IF line \in level THEN level \ {line} ELSE level \cup {line}
  /\ UNCHANGED op

Proceed(t) == TakeRead(t) \/ TakeWrite(t) \/ Refuse(t) \/ End(t)

Next ==
  \/ \E t \in Threads :
       \/ \E kind \in {"read", "write"}, line \in Lines, val \in BOOLEAN : Begin(t, kind, line, val)
       \/ Proceed(t)
  \/ \E line \in Inputs : Drive(line)

Spec == Init /\ [][Next]_vars
=============================================================================
