------------------------------- MODULE MCBoard -------------------------------
(***************************************************************************)
(* The parts of the HAL that share no state, one at a time: the registers  *)
(* of I2C slaves (I2C), the handles of the devices (Handles: two threads,  *)
(* one device of each kind), the calls on GPIOs (GPIO: two threads, one    *)
(* pin to read and one that is an input to write), the pins (MCGpioPins).  *)
(* Which part it is, is chosen at the start.                               *)
(***************************************************************************)
EXTENDS MCI2C

CONSTANT NoOwner

VARIABLES part,
          h_fds, h_conf, h_handles, h_pc, h_call, h_fd, h_step, h_ret, h_current, h_abandoned,
          g_initialized, g_usingMmap, g_fdGPIO, g_mapGPIO, g_fsBuf, g_fds, g_dataOut, g_driven,
          g_pc, g_call, g_fd, g_reg, g_i, g_ret, g_took,
          p_header, p_pin

handleVars == <<h_fds, h_conf, h_handles, h_pc, h_call, h_fd, h_step, h_ret, h_current, h_abandoned>>
gpioVars == <<g_initialized, g_usingMmap, g_fdGPIO, g_mapGPIO, g_fsBuf, g_fds, g_dataOut, g_driven,
              g_pc, g_call, g_fd, g_reg, g_i, g_ret, g_took>>
pinVars == <<p_header, p_pin>>

MCDevices == {<<"i2c", 1>>, <<"spi", 1>>, <<"uart", 1>>, <<"can", 0>>}

\* A handle is not closed while it is in use, nor twice; a device is opened by
\* one thread at a time.
Careful(c, d) ==
  /\ c.op = "close" => c.fd # d.fd
  /\ ~(c.op = "open" /\ d.op = "open" /\ c.dev = d.dev)

H == INSTANCE Handles WITH
  Owners <- TwoThreads, MaxFd <- 2, Devices <- MCDevices, Existing <- MCDevices, Settings <- {0, 1},
  MayOverlap <- Careful, Failures <- {"setup"},
  fds <- h_fds, conf <- h_conf, handles <- h_handles, pc <- h_pc, call <- h_call, fd <- h_fd, step <- h_step,
  ret <- h_ret, current <- h_current, abandoned <- h_abandoned

P8_03 == <<8, 3>>
P9_12 == <<9, 12>>
GpioCall(op, pin, arg) == [op |-> op, pin |-> pin, arg |-> arg]
GpioCalls ==
  {GpioCall("open", P8_03, useMmap) : useMmap \in BOOLEAN}
    \cup {GpioCall("close", P8_03, FALSE), GpioCall("read", P8_03, FALSE), GpioCall("write", P9_12, TRUE)}

\* Accesses overlap everything, openings and closings only accesses.
OneOpener(c, d) == c.op \in {"read", "write"} \/ d.op \in {"read", "write"}

G == INSTANCE GPIO WITH
  Owners <- TwoThreads, Threads <- TwoThreads, Pins <- {P8_03, P9_12}, Calls <- GpioCalls,
  MayOverlap <- OneOpener, MaxFd <- 1, Inputs <- {<<1, 2 ^ 28>>}, Failures <- {"read"},
  initialized <- g_initialized, usingMmap <- g_usingMmap, fdGPIO <- g_fdGPIO, mapGPIO <- g_mapGPIO,
  fsBuf <- g_fsBuf, fds <- g_fds, dataOut <- g_dataOut, driven <- g_driven, pc <- g_pc, call <- g_call,
  fd <- g_fd, reg <- g_reg, i <- g_i, ret <- g_ret, took <- g_took
P == INSTANCE MCGpioPins WITH Headers <- {0, 7, 8, 9, 10}, PinNumbers <- 0 .. 50, header <- p_header, pin <- p_pin

\* The calls keep what the theorems of I2C ask of an application.
ASSUME OneCallPerFd /\ PointersKept /\ "point" \notin Failures
\* So do those on handles.
ASSUME H!FdAssumption /\ H!HandlesAssumption /\ H!NotClosedInUse /\ H!OpenedByOne
\* And those on GPIOs.
ASSUME G!CallsAssumption /\ G!FailuresAssumption /\ G!OpensAndClosesExclude

BoardInit == part \in {"i2c", "handles", "gpio", "pins"} /\ Init /\ H!Init /\ G!Init /\ P!Init
BoardNext ==
  \/ part = "i2c" /\ Next /\ UNCHANGED <<part, handleVars, gpioVars, pinVars>>
  \/ part = "handles" /\ H!Next /\ UNCHANGED <<part, vars, gpioVars, pinVars>>
  \/ part = "gpio" /\ G!Next /\ UNCHANGED <<part, vars, handleVars, pinVars>>
  \/ part = "pins" /\ P!Next /\ UNCHANGED <<part, vars, handleVars, gpioVars>>
BoardSpec == BoardInit /\ [][BoardNext]_<<part, vars, handleVars, gpioVars, pinVars>>

\* A handle names the device it was opened for, which is configured as asked, and
\* only failed opens leave descriptors behind (see Handles).
HandlesServeTheirDevices == H!HandlesNameTheirDevices /\ H!OnlyFailedOpensLeak /\ H!ConfiguredAsAsked

\* Each read or write of a GPIO works on the file it has opened itself, and only
\* writes that the kernel refuses lose a descriptor (see GPIO).
PrivateFd == G!PrivateFd
OnlyRefusedWritesLeak == G!OnlyRefusedWritesLeak

\* Both ways to a pin reach its line, which is nobody else's (see MCGpioPins).
PinsNameTheirLines == P!BothModesReachTheSameLine /\ P!NoTwoPinsShareALine
=============================================================================
