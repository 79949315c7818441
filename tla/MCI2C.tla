------------------------------- MODULE MCI2C -------------------------------
(* Instances of I2C: two threads, two descriptors, three registers of      *)
(* which a block takes two.                                                *)
EXTENDS I2C
CONSTANTS t1, t2

OneThread == {t1}
TwoThreads == {t1, t2}
MCSlaves == {80, 81}

On(fd, add) ==
  {I2cSetAddress(fd, add), I2cWriteByte(fd, add, 1), I2cReadByte(fd, add),
   I2cWriteBytes(fd, add, <<1, 0>>), I2cReadBytes(fd, add, 2)}

\* Descriptors 3 and 4 have one slave, or a slave that does not answer;
\* descriptor 5 has a slave of its own, and blocks that are too long.
MCCalls ==
  On(3, 0) \cup On(4, 1) \cup {I2cReadByte(5, 2), I2cWriteBytes(5, 2, <<1, 1, 1>>), I2cReadBytes(5, 2, 3), I2cReadBytes(5, 0, 4)}
    \cup {I2cSetSlave(3, 80), I2cSetSlave(4, 80), I2cSetSlave(4, 9), I2cSetSlave(5, 81)}

\* Calls of one descriptor exclude each other, and i2cReadByte excludes the calls
\* that may move the register pointer of its slave.
PointerKept(c, d) ==
  /\ c.fd # d.fd
  /\ c.op = "readByte" /\ {c.fd, d.fd} = {3, 4} => d.op = "setSlave"

\* The calls of one descriptor, by one thread.
One == On(3, 0) \cup {I2cSetSlave(3, 80)}
OnePerFd(c, d) == c.fd # d.fd
=============================================================================
