------------------------------- MODULE Sysfs -------------------------------
(***************************************************************************)
(* pwm.c and adc.c with their Java bindings: every call prints the path of *)
(* one sysfs attribute into the static fsBuf of its file, opens it with    *)
(* fopen and prints or scans one integer.  Nothing is locked, so the steps *)
(* of different threads interleave.                                        *)
(*                                                                         *)
(* Abstracted: an attribute is a pair of a file name and a channel, its    *)
(* content an integer; a call is the attribute it names, its direction and *)
(* the integer it prints.  External: the kernel, which holds the values.   *)
(***************************************************************************)
EXTENDS Integers, PathBuffer

CONSTANTS Threads,          \* callers: the Java threads of the application
          Calls,            \* the calls they make, built by the operators below
          MayOverlap(_, _), \* the pairs of calls the application lets overlap
          Existing,         \* the attributes that sysfs shows
          Levels,           \* what an analog input may be sampled as
          Garbage,          \* what an uninitialised int may hold
          Failures          \* what may fail: "fopen", "store", "scan"

PwmFiles == {"period", "duty", "polarity", "run"}
Attributes == (PwmFiles \cup {"raw"}) \X (0 .. 255)
Call == [op : {"set", "get"}, attr : Attributes, text : Int]
NoCall == [op |-> "none", attr |-> <<"none", 0>>, text |-> 0]
NoFile == <<"none", 0>>

ASSUME CallsAssumption == Calls \subseteq Call /\ Existing \subseteq Attributes
ASSUME ValuesAssumption == Levels \subseteq Int /\ Garbage \subseteq Int

\* A jint passed as a uint8_t.
Byte(n) == n % 256
Set(file, channel, n) == [op |-> "set", attr |-> <<file, Byte(channel)>>, text |-> n]
Get(file, channel) == [op |-> "get", attr |-> <<file, Byte(channel)>>, text |-> 0]

\* The calls, by the arguments Java gives.  A jint that becomes a uint32_t and
\* is printed with %d comes out as it went in.
PwmSetPeriod(channel, period_ns) == Set("period", channel, period_ns)
PwmGetPeriod(channel) == Get("period", channel)
PwmSetDutyCycle(channel, duration_ns) == Set("duty", channel, duration_ns)
PwmGetDutyCycle(channel) == Get("duty", channel)
PwmSetPolarity(channel, polarity) == Set("polarity", channel, Byte(polarity))
PwmGetPolarity(channel) == Get("polarity", channel)
PwmRun(channel) == Set("run", channel, 1)
PwmStop(channel) == Set("run", channel, 0)
PwmRunCheck(channel) == Get("run", channel)
ReadADC(channel) == Get("raw", channel)

\* Mutant: one buffer for both files, had it not been declared static.
Buffer_Shared(attr) == "pwm"

\* The fsBuf that the path of an attribute is printed into.
Buffer(attr) == IF attr[1] = "raw" THEN "adc" ELSE "pwm"
Buffers == {"pwm", "adc"}

VARIABLES
  fsBuf,      \* the PathBuffer of pwm.c and that of adc.c
  held,       \* the value of every attribute that exists
  \* per thread: its place in the code, its call, its stream and its result
  pc, call, file, ret,
  seen        \* history: the values its attribute has had during the call

locals == <<call, file, ret>>
vars == <<fsBuf, held, pc, locals, seen>>

TypeOK ==
  /\ fsBuf \in [Buffers -> [paths : SUBSET Attributes, mixed : BOOLEAN]]
  /\ held \in [Existing -> Int]
  /\ pc \in [Threads -> {"idle", "format", "formatting", "fopen", "print", "scan", "wrap", "return"}]
  /\ call \in [Threads -> Call \cup {NoCall}]
  /\ file \in [Threads -> Existing \cup {NoFile}]
  /\ ret \in [Threads -> Int]
  /\ seen \in [Threads -> SUBSET Int]

Init ==
  /\ fsBuf = [b \in Buffers |-> Empty]
  /\ held = [a \in Existing |-> 0]
  /\ pc = [t \in Threads |-> "idle"]
  /\ call = [t \in Threads |-> NoCall]
  /\ file = [t \in Threads |-> NoFile]
  /\ ret = [t \in Threads |-> 0]
  /\ seen = [t \in Threads |-> {}]

-----------------------------------------------------------------------------
Goto(t, place) == pc' = [pc EXCEPT ![t] = place]
Values(attr, values) == IF attr \in Existing THEN {values[attr]} ELSE {}
Attr(t) == call[t].attr

\* An attribute changes: the calls in progress on it see the new value too.
Change(attr, n) ==
  /\ held' = [held EXCEPT ![attr] = n]
  /\ seen' = [t \in Threads |-> IF Attr(t) = attr THEN seen[t] \cup {n} ELSE seen[t]]

Enter(t, c) ==
  /\ pc[t] = "idle"
  /\ \A u \in Threads : pc[u] # "idle" => MayOverlap(c, call[u]) /\ MayOverlap(call[u], c)
  /\ call' = [call EXCEPT ![t] = c]
  /\ seen' = [seen EXCEPT ![t] = Values(c.attr, held)]
  /\ Goto(t, "format")
  /\ UNCHANGED <<fsBuf, held, file, ret>>

\* Mutant: a path that has been printed once is taken for granted.
FormatStart_Cached(t) ==
  /\ pc[t] = "format"
  /\ LET b == Buffer(Attr(t))
         writers == {u \in Threads : pc[u] = "formatting" /\ Buffer(Attr(u)) = b}
     IN IF fsBuf[b].paths = {}
        THEN /\ fsBuf' = [fsBuf EXCEPT ![b] = Begun(@, Attr(t), {Attr(u) : u \in writers})]
             /\ Goto(t, "formatting")
        ELSE Goto(t, "fopen") /\ UNCHANGED fsBuf
  /\ UNCHANGED <<held, locals, seen>>

\* snprintf(fsBuf, ...) prints the path of the attribute ...
FormatStart(t) ==
  /\ pc[t] = "format"
  /\ LET b == Buffer(Attr(t))
         writers == {u \in Threads : pc[u] = "formatting" /\ Buffer(Attr(u)) = b}
     IN fsBuf' = [fsBuf EXCEPT ![b] = Begun(@, Attr(t), {Attr(u) : u \in writers})]
  /\ Goto(t, "formatting")
  /\ UNCHANGED <<held, locals, seen>>

\* ... and has printed it.
FormatEnd(t) ==
  /\ pc[t] = "formatting"
  /\ fsBuf' = [fsBuf EXCEPT ![Buffer(Attr(t))] = Ended(@, Attr(t))]
  /\ Goto(t, "fopen")
  /\ UNCHANGED <<held, locals, seen>>

\* Mutant: the result of fopen is not looked at.
Fopen_Missing(t) ==
  /\ pc[t] = "fopen"
  /\ file' = [file EXCEPT ![t] = Attr(t)]
  /\ Goto(t, IF call[t].op = "set" THEN "print" ELSE "wrap")
  /\ UNCHANGED <<fsBuf, held, call, ret, seen>>

\* fopen(fsBuf): whatever attribute the buffer spells at this moment, -1 when
\* there is none or no stream is to be had.
Fopen(t) ==
  /\ pc[t] = "fopen"
  /\ LET b == Buffer(Attr(t))
         shown == {a \in Existing : Buffer(a) = b}
         spelled == Spelled(fsBuf[b], shown)
     IN \/ \E a \in spelled \cap shown :
             /\ file' = [file EXCEPT ![t] = a]
             /\ Goto(t, IF call[t].op = "set" THEN "print" ELSE "scan")
             /\ UNCHANGED ret
        \/ /\ Torn(fsBuf[b]) \/ ~(spelled \subseteq shown) \/ "fopen" \in Failures
           /\ ret' = [ret EXCEPT ![t] = -1]
           /\ Goto(t, "wrap")
           /\ UNCHANGED file
  /\ UNCHANGED <<fsBuf, held, call, seen>>

\* fprintf, and fclose, which writes the text.  The kernel refuses a negative
\* number and may refuse another one: the setter does not look, and returns 0.
Fprint(t) ==
  /\ pc[t] = "print"
  /\ \/ call[t].text >= 0 /\ Change(file[t], call[t].text)
     \/ /\ call[t].text < 0 \/ "store" \in Failures
        /\ UNCHANGED <<held, seen>>
  /\ ret' = [ret EXCEPT ![t] = 0]
  /\ Goto(t, "wrap")
  /\ UNCHANGED <<fsBuf, call, file>>

\* fscanf and fclose.  When nothing can be scanned, value stays uninitialised.
Scan(t) ==
  /\ pc[t] = "scan"
  /\ \E n \in {held[file[t]]} \cup (IF "scan" \in Failures THEN Garbage ELSE {}) :
       ret' = [ret EXCEPT ![t] = n]
  /\ Goto(t, "wrap")
  /\ UNCHANGED <<fsBuf, held, call, file, seen>>

\* Mutant: TRUE for a failure too.
JavaResult_AlwaysTrue(c, n) == IF c.op = "set" THEN 1 ELSE n

\* What the binding returns: JNI_TRUE or JNI_FALSE for a setter, JNI_FALSE for
\* the -1 of a PWM getter too, and what readADC has returned.
JavaResult(c, n) ==
  CASE c.op = "set" -> (IF n = -1 THEN 0 ELSE 1)
    [] c.op = "get" /\ c.attr[1] \in PwmFiles -> (IF n = -1 THEN 0 ELSE n)
    [] c.op = "get" /\ c.attr[1] = "raw" -> n

Wrap(t) ==
  /\ pc[t] = "wrap"
  /\ ret' = [ret EXCEPT ![t] = JavaResult(call[t], @)]
  /\ Goto(t, "return")
  /\ UNCHANGED <<fsBuf, held, call, file, seen>>

Leave(t) ==
  /\ pc[t] = "return"
  /\ Goto(t, "idle")
  /\ call' = [call EXCEPT ![t] = NoCall]
  /\ file' = [file EXCEPT ![t] = NoFile]
  /\ ret' = [ret EXCEPT ![t] = 0]
  /\ seen' = [seen EXCEPT ![t] = {}]
  /\ UNCHANGED <<fsBuf, held>>

\* An analog input has another level.
Sample(attr, n) ==
  /\ attr[1] = "raw" /\ Change(attr, n)
  /\ UNCHANGED <<fsBuf, pc, locals>>

Proceed(t) ==
  FormatStart(t) \/ FormatEnd(t) \/ Fopen(t) \/ Fprint(t) \/ Scan(t) \/ Wrap(t) \/ Leave(t)

Next ==
  \/ \E t \in Threads : (\E c \in Calls : Enter(t, c)) \/ Proceed(t)
  \/ \E attr \in Existing, n \in Levels : Sample(attr, n)

Spec == Init /\ [][Next]_vars

-----------------------------------------------------------------------------
\* What the theorems of Sysfs_proofs ask: no two paths are being printed into the
\* fsBuf of pwm.c, or into that of adc.c; sysfs can be read; it takes every number
\* that is printed.
OnePathAtATime ==
  \A c \in Calls, d \in Calls :
    MayOverlap(c, d) /\ (c.attr[1] = "raw") = (d.attr[1] = "raw") => c.attr = d.attr
Scannable == "scan" \notin Failures
Storable == "store" \notin Failures /\ \A c \in Calls : c.text >= 0

Asked(attr, n) ==
  \E t \in Threads : call[t].op = "set" /\ call[t].attr = attr /\ call[t].text = n

\* A PWM attribute changes only to what a call in progress prints into that very
\* attribute: no value lands in the attribute, or the channel, of another call
\* (pwm.c:34-44, the path printed, then opened, then written).
OnlyAskedValuesStored ==
  [][\A a \in Existing : a[1] \in PwmFiles /\ held'[a] # held[a] => Asked(a, held'[a])]_vars

\* A setter that tells Java TRUE has had its value in its own attribute at some
\* moment of the call (pwm.c:27, 81, 135, 188, 214).
TrueMeansHeld ==
  \A t \in Threads : pc[t] = "return" /\ call[t].op = "set" /\ ret[t] = 1
                       => call[t].text \in seen[t]

FailureOf(attr) == IF attr[1] = "raw" THEN -1 ELSE 0

\* A getter whose file has been opened returns a value that its own attribute
\* had at some moment of the call, and JNI_FALSE, that is 0, when the file has
\* not been opened; -1 for an ADC (pwm.c:61-73, adc.c:35-48).
GetsReturnHeldValues ==
  \A t \in Threads : pc[t] = "return" /\ call[t].op = "get"
    => ret[t] \in (IF file[t] = NoFile THEN {FailureOf(Attr(t))} ELSE seen[t])
=============================================================================
