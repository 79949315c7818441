----------------------------- MODULE PathBuffer -----------------------------
(***************************************************************************)
(* A static character buffer, fsBuf in gpio.c, pwm.c and adc.c, into which *)
(* every call prints the path it is about to open.  No lock protects it.   *)
(*                                                                         *)
(* paths are those whose characters the buffer may hold; mixed says that   *)
(* different paths were being printed at the same time, so that the order  *)
(* of the stores decides what is left.                                     *)
(***************************************************************************)
Empty == [paths |-> {}, mixed |-> FALSE]

\* snprintf begins to print path while the paths in others are being printed.
Begun(buf, path, others) ==
  [paths |-> buf.paths \cup {path},
   mixed |-> others # {} /\ (buf.mixed \/ \E p \in others : p # path)]

\* snprintf has printed path: only its characters are left, unless mixed.
Ended(buf, path) == IF buf.mixed THEN buf ELSE [buf EXCEPT !.paths = {path}]

\* The characters of several paths may spell one of them, another one or none.
Torn(buf) == ~\E p \in buf.paths : buf.paths = {p}

\* The files that opening the buffer may reach, of those that exist.
Spelled(buf, existing) == IF Torn(buf) THEN existing ELSE buf.paths
=============================================================================
