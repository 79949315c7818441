------------------------------ MODULE MCGpioLines ------------------------------
(***************************************************************************)
(* GPIO with the two ways an application may keep its accesses apart, one  *)
(* at a time: one writer per bank, or one access at a time that a close    *)
(* may overlap and in which the mode changes.  Which it is, is chosen at   *)
(* the start.                                                              *)
(***************************************************************************)
EXTENDS MCGPIO

VARIABLE part

ByBank == INSTANCE GPIO WITH Calls <- MmapCalls, MayOverlap <- OneWriterPerBank, Failures <- {"mmap"}
OneByOne == INSTANCE GPIO WITH Calls <- ModeCalls, MayOverlap <- OneAccess, Failures <- {"export"}

\* What the theorems of GPIO_proofs ask of the calls.
ASSUME ByBank!OpensExclude /\ ByBank!OpensAndClosesExclude /\ ByBank!MmapOnly /\ ByBank!WritersExclude
ASSUME OneByOne!OpensExclude /\ OneByOne!OpensAndClosesExclude

LinesPins == {P8_03, P8_07, P8_20, P9_12, NoPin}
LinesCalls == MmapCalls \cup ModeCalls

LinesInit == part \in {"by bank", "one by one"} /\ Init
LinesNext ==
  \/ part = "by bank" /\ ByBank!Next /\ UNCHANGED part
  \/ part = "one by one" /\ OneByOne!Next /\ UNCHANGED part
LinesSpec == LinesInit /\ [][LinesNext]_<<part, vars>>

\* Whatever the order of modes, /dev/mem is open exactly when it is in use (see
\* GPIO); a failed mmap, which is tried with one writer per bank, leaves it open.
DevMemKept == part = "one by one" => DevMemHeldWhileOpen
=============================================================================
