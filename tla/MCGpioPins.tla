----------------------------- MODULE MCGpioPins -----------------------------
(***************************************************************************)
(* Walks every header and pin number an application can pass, the invalid  *)
(* ones around the tables included, and checks what gpio.c relies on: the  *)
(* file system and the memory map must name the same wire, and no two pins *)
(* may share one.                                                          *)
(***************************************************************************)
EXTENDS GpioPins

CONSTANTS Headers, PinNumbers

\* 0 and the numbers past the table are the boundaries the checks guard.
MCPinNumbers == 0 .. 50

VARIABLES header, pin
vars == <<header, pin>>

\* The next call, with whatever arguments it has.
Ask == \E h \in Headers, n \in PinNumbers : header' = h /\ pin' = n

Init == header = 8 /\ pin = 1
Next == Ask
Spec == Init /\ [][Next]_vars

GpioPinsOf == {hp \in {8, 9} \X (1 .. TOTAL_PINS_PER_HEADER) :
                  Checked(hp[1], hp[2]) = "gpio"}

Line(h, n) == <<Info(h, n).bank, Info(h, n).mask>>

\* readGPIO and writeGPIO may be reached through either access mode: the file
\* gpio<id> and the bit of the register bank must be the same line, for every
\* pin of both tables (gpio.c:52-152).
BothModesReachTheSameLine ==
  Checked(header, pin) = "gpio" => SysfsLine(Info(header, pin).id) = Line(header, pin)

\* No two header pins drive one line: a write to a pin never changes what is
\* asked of another pin (gpio.c:52-152).
NoTwoPinsShareALine ==
  Checked(header, pin) = "gpio" =>
    \A hp \in GpioPinsOf : Line(hp[1], hp[2]) = Line(header, pin) => hp = <<header, pin>>
=============================================================================
