------------------------------ MODULE MCSysfs ------------------------------
(* Instances of Sysfs: two channels, two threads.                          *)
EXTENDS Sysfs
CONSTANTS t1, t2

TwoThreads == {t1, t2}

\* Channel 257 is a jint that becomes channel 1, channel 9 shows no attribute.
MCExisting == {<<"period", 1>>, <<"raw", 1>>} \cup ((PwmFiles \cup {"raw"}) \X {0})

MCGarbage == {-1, 99}

\* Every function; setters that differ in attribute, channel or value.
AllCalls ==
  {PwmSetPeriod(0, 5), PwmSetPeriod(257, 7), PwmGetPeriod(1), PwmSetDutyCycle(0, 5),
   PwmGetDutyCycle(0), PwmSetPolarity(0, 257), PwmGetPolarity(0), PwmRun(0), PwmStop(0),
   PwmRunCheck(0), PwmGetPeriod(9), ReadADC(0), ReadADC(9)}
FewPwmCalls == {PwmSetPeriod(0, 5), PwmSetPeriod(1, 7), PwmGetPeriod(0)}

\* The calls that print different paths into one buffer exclude each other.
OnePathPerBuffer(c, d) == (c.attr[1] = "raw") = (d.attr[1] = "raw") => c.attr = d.attr

\* What the theorems of Sysfs_proofs ask of the calls.
ASSUME OnePathAtATime /\ Scannable /\ ("store" \notin Failures => Storable)
=============================================================================
