------------------------------- MODULE MCGPIO -------------------------------
(***************************************************************************)
(* GPIO with small sets of threads, pins and calls.                        *)
(*                                                                         *)
(* P8_03 and P8_04 are two bits of bank 1, P8_07 is in bank 2, P8_20 is    *)
(* bit 31 of bank 1, and P9_12, in bank 1 too, is configured as an input.  *)
(***************************************************************************)
EXTENDS GPIO

CONSTANTS t1, t2

P8_03 == <<8, 3>>
P8_04 == <<8, 4>>
P8_07 == <<8, 7>>
P8_20 == <<8, 20>>
P9_12 == <<9, 12>>
Ground == <<8, 1>>
NoPin == <<8, 47>>

TwoThreads == {t1, t2}

InputP9_12 == {SysfsLine(60)}

Do(op, pins, args) == [op : {op}, pin : pins, arg : args]
OpenFS == Do("open", {P8_03}, {FALSE})
OpenMmap == Do("open", {P8_03}, {TRUE})
CloseIt == Do("close", {P8_03}, {FALSE})

\* What the application may have in progress at once.
Anything(c, d) == TRUE
IsAccess(c) == c.op \in {"read", "write"}
\* Opening excludes everything, closing excludes closing, accesses overlap
\* unless they write the same bank.
OneWriterPerBank(c, d) ==
  /\ c.op = "open" => FALSE
  /\ ~(c.op = "close" /\ d.op = "close")
  /\ c.op = "write" /\ d.op = "write" => Pin(c).bank # Pin(d).bank
\* Only a close may overlap an access.
OneAccess(c, d) ==
  /\ c.op = "open" => FALSE
  /\ ~(c.op = "close" /\ d.op = "close")
  /\ ~(IsAccess(c) /\ IsAccess(d))

MmapCalls == OpenMmap \cup CloseIt \cup Do("read", {P8_03, P9_12}, {FALSE})
  \cup Do("write", {P8_03}, BOOLEAN) \cup Do("write", {P8_20, P8_07}, {TRUE})

ModeCalls == OpenFS \cup OpenMmap \cup CloseIt \cup Do("read", {P8_20}, {FALSE})
  \cup Do("write", {P8_20}, BOOLEAN) \cup Do("write", {P9_12, NoPin}, {TRUE})

\* The race for fsBuf: the value files of two lines.
FsRacePins == {P8_03, P8_04}
FsRaceCalls == OpenFS \cup CloseIt \cup Do("write", {P8_03, P8_04}, {TRUE})
=============================================================================
