------------------------------ MODULE GpioPins ------------------------------
(***************************************************************************)
(* The header pins of gpio.c: which of the 92 pins of the expansion        *)
(* headers P8 and P9 are GPIO lines, under which number the file system    *)
(* exports a line and which bit of which register bank the memory map      *)
(* gives it.  Both tables are transcribed from the source.                 *)
(*                                                                         *)
(* A line is a pair <<bank, mask>>.  A mask is the C value 1 << bit as the *)
(* signed 32-bit int that readGPIOMmap returns, so the mask of bit 31 is   *)
(* the least int.                                                          *)
(***************************************************************************)
EXTENDS Integers, Sequences

TOTAL_PINS_PER_HEADER == 46

\* 1 << bit, an unsigned int returned as an int.
Mask(bit) == IF bit = 31 THEN -2147483647 - 1 ELSE 2^bit

\* Mutant: masks kept in 16 bits.
G_Mask16(id, bank, bit) == [id |-> id, bank |-> bank, mask |-> Mask(bit % 16)]
G(id, bank, bit) == [id |-> id, bank |-> bank, mask |-> Mask(bit)]
None == [id |-> 0, bank |-> 0, mask |-> 0]

P8_GPIO_pin_info == <<
  None,          None,          G(38, 1, 6),   G(39, 1, 7),   G(34, 1, 2),
  G(35, 1, 3),   G(66, 2, 2),   G(67, 2, 3),   G(69, 2, 5),   G(68, 2, 4),
  G(45, 1, 13),  G(44, 1, 12),  G(23, 0, 23),  G(26, 0, 26),  G(47, 1, 15),
  G(46, 1, 14),  G(27, 0, 27),  G(65, 2, 1),   G(22, 0, 22),  G(63, 1, 31),
  G(62, 1, 30),  G(37, 1, 5),   G(36, 1, 4),   G(33, 1, 1),   G(32, 1, 0),
  G(61, 1, 29),  G(86, 2, 22),  G(88, 2, 24),  G(87, 2, 23),  G(89, 2, 25),
  G(10, 0, 10),  G(11, 0, 11),  G(9, 0, 9),    G(81, 2, 17),  G(8, 0, 8),
  G(80, 2, 16),  G(78, 2, 14),  G(79, 2, 15),  G(76, 2, 12),  G(77, 2, 13),
  G(74, 2, 10),  G(75, 2, 11),  G(72, 2, 8),   G(73, 2, 9),   G(70, 2, 6),
  G(71, 2, 7) >>

P9_GPIO_pin_info == <<
  None,          None,          None,          None,          None,
  None,          None,          None,          None,          None,
  G(30, 0, 30),  G(60, 1, 28),  G(31, 0, 31),  G(50, 1, 18),  G(48, 1, 16),
  G(51, 1, 19),  G(5, 0, 5),    G(4, 0, 4),    G(13, 0, 13),  G(12, 0, 12),
  G(3, 0, 3),    G(2, 0, 2),    G(49, 1, 17),  G(15, 0, 15),  G(117, 3, 21),
  G(14, 0, 14),  G(115, 3, 19), G(113, 3, 17), G(111, 3, 15), G(112, 3, 16),
  G(110, 3, 14), None,          None,          None,          None,
  None,          None,          None,          None,          None,
  G(20, 0, 20),  G(7, 0, 7),    None,          None,          None,
  None >>

\* Mutant: both headers looked up in the table of P8.
PinInfo_OneTable == [header \in {8, 9} |-> P8_GPIO_pin_info]

\* The table of a header.
PinInfo == [header \in {8, 9} |-> IF header = 8 THEN P8_GPIO_pin_info
                                               ELSE P9_GPIO_pin_info]

\* The tests readGPIO and writeGPIO make of their arguments, in their order:
\* the pin number, then the header, then the mask of the entry.
Checked(header, pin) ==
  IF pin = 0 \/ pin > TOTAL_PINS_PER_HEADER THEN "bad_pin"
  ELSE IF header \notin DOMAIN PinInfo THEN "bad_header"
  ELSE IF PinInfo[header][pin].mask = 0 THEN "not_gpio"
  ELSE "gpio"

\* The entry a call works with once the checks have said "gpio".
Info(header, pin) ==
  IF Checked(header, pin) = "gpio" THEN PinInfo[header][pin] ELSE None

\* The kernel (external): /sys/class/gpio/gpio<id> is bit id % 32 of bank id / 32.
SysfsLine(id) == <<id \div 32, Mask(id % 32)>>
=============================================================================
