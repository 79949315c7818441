---------------------------- MODULE Sysfs_proofs ----------------------------
(***************************************************************************)
(* Theorems about Sysfs, for every set of threads, calls, attributes and   *)
(* values.  The premise is the discipline an application must keep, no two *)
(* paths in one fsBuf at a time; the calls of one attribute, and those of  *)
(* the two files, may overlap.                                             *)
(***************************************************************************)
EXTENDS Sysfs, TLAPS

Active(t) == pc[t] # "idle"

CallsOK == \A t \in Threads : call[t] \in Calls \/ (call[t] = NoCall /\ pc[t] = "idle")

\* Different threads are in different attributes or different buffers.
Apart ==
  \A t \in Threads, u \in Threads :
    Active(t) /\ Active(u) /\ Buffer(Attr(t)) = Buffer(Attr(u)) => Attr(t) = Attr(u)

\* A buffer is never mixed, and once printed it holds the path of its callers.
BuffersOK ==
  /\ \A b \in Buffers : ~fsBuf[b].mixed
  /\ \A t \in Threads : pc[t] = "formatting" => Attr(t) \in fsBuf[Buffer(Attr(t))].paths
  /\ \A t \in Threads : pc[t] = "fopen" => fsBuf[Buffer(Attr(t))].paths = {Attr(t)}

\* The open file is the attribute of the call.
FilesOK ==
  \A t \in Threads :
    /\ pc[t] \in {"idle", "format", "formatting", "fopen"} => file[t] = NoFile
    /\ pc[t] \in {"print", "scan"} => file[t] # NoFile
    /\ file[t] # NoFile => file[t] = Attr(t) /\ file[t] \in Existing
    /\ pc[t] = "print" => call[t].op = "set"
    /\ pc[t] = "scan" => call[t].op = "get"

\* What is read has been opened.
Opened == \A t \in Threads : pc[t] \in {"print", "scan"} => file[t] # NoFile

StoreInv == TypeOK /\ CallsOK /\ Apart /\ BuffersOK /\ FilesOK

-----------------------------------------------------------------------------
\* What is known of the calls and the buffers.
LEMMA CallFacts ==
  /\ NoCall.attr = <<"none", 0>> /\ NoCall.op = "none"
  /\ \A c \in Calls : /\ c \in Call /\ c.attr \in Attributes
                      /\ c.op \in {"set", "get"} /\ c.text \in Int
  /\ \A a : Buffer(a) \in Buffers
  /\ NoFile \notin Attributes
BY CallsAssumption DEF NoCall, Call, Buffer, Buffers, NoFile, Attributes, PwmFiles

\* A call in progress is one of those the application makes.
LEMMA ActiveAttr ==
  ASSUME CallsOK, NEW t \in Threads, Active(t)
  PROVE  call[t] \in Calls /\ Attr(t) \in Attributes
BY CallFacts DEF CallsOK, Active, Attr

\* The types hold at the start.
LEMMA TypeInit == Init => TypeOK
BY DEF Init, TypeOK, Empty, Buffers

\* No call is in progress, and no file is open, at the start.
LEMMA CallsInit == Init => CallsOK /\ Apart /\ BuffersOK /\ FilesOK
BY DEF Init, CallsOK, Apart, Active, BuffersOK, FilesOK, Empty

\* Begun keeps the type of a buffer.
LEMMA BufferTypes ==
  ASSUME NEW buf \in [paths : SUBSET Attributes, mixed : BOOLEAN], NEW a \in Attributes, NEW others
  PROVE  /\ Begun(buf, a, others) \in [paths : SUBSET Attributes, mixed : BOOLEAN]
         /\ Ended(buf, a) \in [paths : SUBSET Attributes, mixed : BOOLEAN]
BY DEF Begun, Ended

USE DEF Goto, locals

\* A change adds to what the calls on the attribute have seen.
LEMMA ChangeEffect ==
  ASSUME TypeOK, NEW a, NEW n \in Int, Change(a, n)
  PROVE  held' \in [Existing -> Int] /\ seen' \in [Threads -> SUBSET Int]
BY DEF TypeOK, Change

\* Every step keeps the types.
LEMMA TypeNext == TypeOK /\ CallsOK /\ Opened /\ [Next]_vars => TypeOK'
<1> SUFFICES ASSUME TypeOK, CallsOK, Opened, [Next]_vars PROVE TypeOK'
  OBVIOUS
<1>1. ASSUME NEW t \in Threads, NEW c \in Calls, Enter(t, c) PROVE TypeOK'
  <2>1. Values(c.attr, held) \in SUBSET Int
    BY DEF Values, TypeOK
  <2> QED
    BY <1>1, <2>1, CallsAssumption DEF Enter, TypeOK
<1>2. ASSUME NEW t \in Threads, FormatStart(t) PROVE TypeOK'
  <2>1. Attr(t) \in Attributes /\ Buffer(Attr(t)) \in Buffers
    BY <1>2, ActiveAttr, CallFacts DEF FormatStart, Active
  <2>2. PICK others : fsBuf' = [fsBuf EXCEPT ![Buffer(Attr(t))] = Begun(@, Attr(t), others)]
    BY <1>2 DEF FormatStart
  <2> HIDE DEF locals
  <2>3. fsBuf' \in [Buffers -> [paths : SUBSET Attributes, mixed : BOOLEAN]]
    BY <2>1, <2>2, BufferTypes DEF TypeOK
  <2> QED
    BY <1>2, <2>3 DEF FormatStart, TypeOK, locals
<1>3. ASSUME NEW t \in Threads, FormatEnd(t) PROVE TypeOK'
  <2>1. Attr(t) \in Attributes /\ Buffer(Attr(t)) \in Buffers
    BY <1>3, ActiveAttr, CallFacts DEF FormatEnd, Active
  <2>2. fsBuf' \in [Buffers -> [paths : SUBSET Attributes, mixed : BOOLEAN]]
    BY <1>3, <2>1, BufferTypes DEF FormatEnd, TypeOK
  <2> QED
    BY <1>3, <2>2 DEF FormatEnd, TypeOK
<1>4. ASSUME NEW t \in Threads, Fopen(t) PROVE TypeOK'
  <2>1. \/ \E a \in Existing : file' = [file EXCEPT ![t] = a] /\ UNCHANGED ret
        \/ UNCHANGED file /\ ret' = [ret EXCEPT ![t] = -1]
    BY <1>4 DEF Fopen
  <2>2. file' \in [Threads -> Existing \cup {NoFile}] /\ ret' \in [Threads -> Int]
    BY <2>1 DEF TypeOK
  <2>3. \E p \in {"print", "scan", "wrap"} : Goto(t, p)
    BY <1>4 DEF Fopen
  <2>4. UNCHANGED <<fsBuf, held, call, seen>>
    BY <1>4 DEF Fopen
  <2> QED
    BY <2>2, <2>3, <2>4 DEF TypeOK
<1>5. ASSUME NEW t \in Threads, Fprint(t) PROVE TypeOK'
  <2>1. call[t].text \in Int
    BY <1>5, ActiveAttr, CallFacts DEF Fprint, Active
  <2>2. held' \in [Existing -> Int] /\ seen' \in [Threads -> SUBSET Int]
    BY <1>5, <2>1, ChangeEffect DEF Fprint, TypeOK
  <2>3. /\ ret' = [ret EXCEPT ![t] = 0] /\ Goto(t, "wrap")
        /\ UNCHANGED <<fsBuf, call, file>>
    BY <1>5 DEF Fprint
  <2> QED
    BY <2>2, <2>3 DEF TypeOK
<1>6. ASSUME NEW t \in Threads, Scan(t) PROVE TypeOK'
  <2>1. held[file[t]] \in Int
    BY <1>6 DEF Scan, TypeOK, Opened
  <2> QED
    BY <1>6, <2>1, ValuesAssumption DEF Scan, TypeOK
<1>7. ASSUME NEW t \in Threads, Wrap(t) PROVE TypeOK'
  <2>1. JavaResult(call[t], ret[t]) \in Int
    BY <1>7, ActiveAttr, CallFacts DEF Wrap, Active, JavaResult, TypeOK, Attr, Attributes
  <2> QED
    BY <1>7, <2>1 DEF Wrap, TypeOK
<1>8. ASSUME NEW t \in Threads, Leave(t) PROVE TypeOK'
  BY <1>8 DEF Leave, TypeOK
<1>9. ASSUME NEW a \in Existing, NEW n \in Levels, Sample(a, n) PROVE TypeOK'
  <2>1. held' \in [Existing -> Int] /\ seen' \in [Threads -> SUBSET Int]
    BY <1>9, ChangeEffect, ValuesAssumption DEF Sample
  <2> QED
    BY <1>9, <2>1 DEF Sample, TypeOK
<1>10. CASE UNCHANGED vars
  BY <1>10 DEF vars, TypeOK
<1> QED
  BY <1>1, <1>2, <1>3, <1>4, <1>5, <1>6, <1>7, <1>8, <1>9, <1>10 DEF Next, Proceed

-----------------------------------------------------------------------------
(* The places of the calls.                                                *)

\* Outside Enter and Leave a call stays what it is.
LEMMA ProceedKeepsCall ==
  ASSUME NEW t \in Threads, Proceed(t), ~Leave(t)
  PROVE  UNCHANGED call /\ Active(t) /\ \E p : p # "idle" /\ Goto(t, p)
BY DEF Proceed, FormatStart, FormatEnd, Fopen, Fprint, Scan, Wrap, Active

\* A thread is in a call of the application or in none.
LEMMA CallsNext == TypeOK /\ CallsOK /\ [Next]_vars => CallsOK'
<1> SUFFICES ASSUME TypeOK, CallsOK, [Next]_vars PROVE CallsOK'
  OBVIOUS
<1> USE DEF TypeOK, CallsOK
<1>1. ASSUME NEW t \in Threads, NEW c \in Calls, Enter(t, c) PROVE CallsOK'
  BY <1>1 DEF Enter
<1>2. ASSUME NEW t \in Threads, Leave(t) PROVE CallsOK'
  BY <1>2 DEF Leave
<1>3. ASSUME NEW t \in Threads, Proceed(t), ~Leave(t) PROVE CallsOK'
  BY <1>3, ProceedKeepsCall DEF Active
<1>4. ASSUME NEW a, NEW n, Sample(a, n) \/ UNCHANGED vars PROVE CallsOK'
  BY <1>4 DEF Sample, vars
<1> QED
  BY <1>1, <1>2, <1>3, <1>4 DEF Next

\* Who uses a file has opened one that exists.
LEMMA OpenedNext == TypeOK /\ Opened /\ [Next]_vars => Opened'
<1> SUFFICES ASSUME TypeOK, Opened, [Next]_vars PROVE Opened'
  OBVIOUS
<1> USE DEF TypeOK, Opened
<1>1. ASSUME NEW t \in Threads, Fopen(t) PROVE Opened'
  <2>1. \/ \E a \in Existing : file' = [file EXCEPT ![t] = a]
        \/ UNCHANGED file /\ Goto(t, "wrap")
    BY <1>1 DEF Fopen
  <2>2. \A u \in Threads : u # t => UNCHANGED <<pc[u], file[u]>>
    BY <1>1, <2>1 DEF Fopen
  <2>3. NoFile \notin Existing
    BY CallFacts, CallsAssumption
  <2>4. pc'[t] \in {"print", "scan"} => file'[t] # NoFile
    BY <2>1, <2>3
  <2> QED
    BY <2>2, <2>4
<1>2. ASSUME NEW t \in Threads, NEW c \in Calls, Enter(t, c) PROVE Opened'
  BY <1>2 DEF Enter
<1>3. ASSUME NEW t \in Threads, FormatStart(t) \/ FormatEnd(t) PROVE Opened'
  BY <1>3 DEF FormatStart, FormatEnd
<1>4. ASSUME NEW t \in Threads, Fprint(t) \/ Scan(t) \/ Wrap(t) \/ Leave(t) PROVE Opened'
  BY <1>4 DEF Fprint, Scan, Wrap, Leave
<1>5. ASSUME NEW a, NEW n, Sample(a, n) \/ UNCHANGED vars PROVE Opened'
  BY <1>5 DEF Sample, vars
<1> QED
  BY <1>1, <1>2, <1>3, <1>4, <1>5 DEF Next, Proceed

\* Every variable keeps its type, whatever overlaps and whatever fails.
THEOREM SysfsTypeCorrect == Spec => []TypeOK
<1>1. Init => TypeOK /\ CallsOK /\ Opened
  BY TypeInit, CallsInit DEF Init, Opened
<1> QED
  BY <1>1, TypeNext, CallsNext, OpenedNext, PTL DEF Spec

\* Calls that share a buffer and differ in their path never meet.
LEMMA ApartNext ==
  ASSUME TypeOK, CallsOK, Apart, [Next]_vars, OnePathAtATime
  PROVE  Apart'
<1> USE DEF TypeOK
<1>1. ASSUME NEW t \in Threads, NEW c \in Calls, Enter(t, c) PROVE Apart'
  <2>1. \A u \in Threads : Active(u) /\ Buffer(Attr(u)) = Buffer(c.attr) => Attr(u) = c.attr
    BY <1>1, ActiveAttr DEF Enter, Active, OnePathAtATime, Attr, Buffer
  <2> QED
    BY <1>1, <2>1 DEF Enter, Apart, Active, Attr
<1>2. ASSUME NEW t \in Threads, Leave(t) PROVE Apart'
  BY <1>2 DEF Leave, Apart, Active, Attr
<1>3. ASSUME NEW t \in Threads, Proceed(t), ~Leave(t) PROVE Apart'
  BY <1>3, ProceedKeepsCall DEF Apart, Active, Attr
<1>4. ASSUME NEW a, NEW n, Sample(a, n) \/ UNCHANGED vars PROVE Apart'
  BY <1>4 DEF Sample, vars, Apart, Active, Attr
<1> QED
  BY <1>1, <1>2, <1>3, <1>4 DEF Next

\* The file a call has open is the one its buffer named.
LEMMA FilesNext ==
  ASSUME TypeOK, CallsOK, BuffersOK, FilesOK, [Next]_vars
  PROVE  FilesOK'
<1> USE DEF TypeOK, FilesOK, Attr
<1>1. ASSUME NEW t \in Threads, NEW c \in Calls, Enter(t, c) PROVE FilesOK'
  BY <1>1 DEF Enter
<1>2. ASSUME NEW t \in Threads, Fopen(t) PROVE FilesOK'
  <2>1. call[t].op \in {"set", "get"} /\ Attr(t) \in Attributes
    BY <1>2, ActiveAttr, CallFacts DEF Fopen, Active
  <2>2. Spelled(fsBuf[Buffer(Attr(t))], {a \in Existing : Buffer(a) = Buffer(Attr(t))}) = {Attr(t)}
    BY <1>2 DEF Fopen, BuffersOK, Spelled, Torn
  <2>3. \/ Attr(t) \in Existing /\ file' = [file EXCEPT ![t] = Attr(t)]
           /\ Goto(t, IF call[t].op = "set" THEN "print" ELSE "scan")
        \/ UNCHANGED file /\ Goto(t, "wrap")
    BY <1>2, <2>2 DEF Fopen
  <2>4. NoFile # Attr(t) /\ UNCHANGED call
    BY <1>2, <2>1, CallFacts DEF Fopen
  <2> QED
    BY <1>2, <2>1, <2>3, <2>4 DEF Fopen
<1>3. ASSUME NEW t \in Threads, FormatStart(t) \/ FormatEnd(t) PROVE FilesOK'
  BY <1>3 DEF FormatStart, FormatEnd
<1>4. ASSUME NEW t \in Threads, Fprint(t) \/ Scan(t) \/ Wrap(t) PROVE FilesOK'
  BY <1>4 DEF Fprint, Scan, Wrap
<1>5. ASSUME NEW t \in Threads, Leave(t) PROVE FilesOK'
  BY <1>5 DEF Leave
<1>6. ASSUME NEW a, NEW n, Sample(a, n) \/ UNCHANGED vars PROVE FilesOK'
  BY <1>6 DEF Sample, vars
<1> QED
  BY <1>1, <1>2, <1>3, <1>4, <1>5, <1>6 DEF Next, Proceed

\* A buffer that a call has formatted names the path of the call.
LEMMA BuffersNext ==
  ASSUME StoreInv, [Next]_vars
  PROVE  BuffersOK'
<1> USE DEF StoreInv, TypeOK
<1>1. ASSUME NEW t \in Threads, FormatStart(t) PROVE BuffersOK'
  <2> DEFINE b == Buffer(Attr(t))
             others == {Attr(u) : u \in {v \in Threads : pc[v] = "formatting" /\ Buffer(Attr(v)) = b}}
  <2>1. b \in Buffers
    BY CallFacts
  <2>2. \A p \in others : p = Attr(t)
    BY <1>1 DEF Apart, Active, FormatStart
  <2>3. fsBuf' = [fsBuf EXCEPT ![b] = Begun(fsBuf[b], Attr(t), others)]
    BY <1>1 DEF FormatStart
  <2>4. /\ ~Begun(fsBuf[b], Attr(t), others).mixed
        /\ Begun(fsBuf[b], Attr(t), others).paths = fsBuf[b].paths \cup {Attr(t)}
    BY <2>1, <2>2 DEF Begun, BuffersOK
  <2> HIDE DEF b, others
  <2>5. \A c \in Buffers : ~fsBuf'[c].mixed
    BY <2>1, <2>3, <2>4 DEF BuffersOK
  <2>6. Attr(t) \in fsBuf'[b].paths
    BY <2>1, <2>3, <2>4
  <2>7. \A u \in Threads : UNCHANGED Attr(u)
    BY <1>1 DEF FormatStart, Attr
  <2>8. ASSUME NEW u \in Threads, pc'[u] = "formatting"
        PROVE  Attr(u) \in fsBuf'[Buffer(Attr(u))].paths
    <3>1. CASE u = t
      BY <3>1, <2>6 DEF b
    <3>2. CASE u # t
      <4>1. pc[u] = "formatting"
        BY <1>1, <2>8, <3>2 DEF FormatStart
      <4> QED
        BY <4>1, <2>1, <2>3, <2>4, CallFacts DEF BuffersOK
    <3> QED
      BY <3>1, <3>2
  <2>9. ASSUME NEW u \in Threads, pc'[u] = "fopen"
        PROVE  fsBuf'[Buffer(Attr(u))].paths = {Attr(u)}
    <3>1. pc[u] = "fopen"
      BY <1>1, <2>9 DEF FormatStart
    <3>2. fsBuf[Buffer(Attr(u))].paths = {Attr(u)}
      BY <3>1 DEF BuffersOK
    <3>3. Buffer(Attr(u)) = b => Attr(u) = Attr(t)
      BY <1>1, <3>1 DEF b, Apart, Active, FormatStart
    <3> QED
      BY <2>1, <2>3, <2>4, <3>2, <3>3, CallFacts
  <2> QED
    BY <2>5, <2>7, <2>8, <2>9 DEF BuffersOK
<1>2. ASSUME NEW t \in Threads, FormatEnd(t) PROVE BuffersOK'
  <2> DEFINE b == Buffer(Attr(t))
  <2>1. b \in Buffers /\ ~fsBuf[b].mixed
    BY CallFacts DEF BuffersOK
  <2>2. fsBuf' = [fsBuf EXCEPT ![b] = [fsBuf[b] EXCEPT !.paths = {Attr(t)}]]
    BY <1>2, <2>1 DEF FormatEnd, Ended
  <2> HIDE DEF b
  <2>3. /\ \A c \in Buffers : ~fsBuf'[c].mixed
        /\ \A c \in Buffers : fsBuf'[c].paths = IF c = b THEN {Attr(t)} ELSE fsBuf[c].paths
    BY <2>1, <2>2 DEF BuffersOK
  <2>4. ASSUME NEW u \in Threads, pc[u] \in {"formatting", "fopen"}
        PROVE  Buffer(Attr(u)) = b => Attr(u) = Attr(t)
    BY <1>2, <2>4 DEF b, Apart, Active, FormatEnd
  <2>5. \A u \in Threads : UNCHANGED Attr(u)
    BY <1>2 DEF FormatEnd, Attr
  <2>6. ASSUME NEW u \in Threads, pc'[u] = "formatting"
        PROVE  Attr(u) \in fsBuf'[Buffer(Attr(u))].paths
    <3>1. pc[u] = "formatting"
      BY <1>2, <2>6 DEF FormatEnd
    <3> QED
      BY <3>1, <2>3, <2>4, CallFacts DEF BuffersOK
  <2>7. ASSUME NEW u \in Threads, pc'[u] = "fopen"
        PROVE  fsBuf'[Buffer(Attr(u))].paths = {Attr(u)}
    <3>1. pc[u] \in {"formatting", "fopen"} /\ (u = t \/ pc[u] = "fopen")
      BY <1>2, <2>7 DEF FormatEnd
    <3> QED
      BY <3>1, <2>3, <2>4, CallFacts DEF BuffersOK, b
  <2> QED
    BY <2>3, <2>5, <2>6, <2>7 DEF BuffersOK
<1>3. ASSUME NEW t \in Threads, NEW c \in Calls, Enter(t, c) PROVE BuffersOK'
  BY <1>3 DEF Enter, BuffersOK, Attr
<1>4. ASSUME NEW t \in Threads, Fopen(t) \/ Fprint(t) \/ Scan(t) \/ Wrap(t) PROVE BuffersOK'
  <2>1. UNCHANGED <<fsBuf, call>> /\ \E p : p \notin {"formatting", "fopen"} /\ Goto(t, p)
    BY <1>4 DEF Fopen, Fprint, Scan, Wrap
  <2> QED
    BY <2>1 DEF BuffersOK, Attr
<1>5. ASSUME NEW t \in Threads, Leave(t) PROVE BuffersOK'
  BY <1>5 DEF Leave, BuffersOK, Attr
<1>6. ASSUME NEW a, NEW n, Sample(a, n) \/ UNCHANGED vars PROVE BuffersOK'
  BY <1>6 DEF Sample, vars, BuffersOK, Attr
<1> QED
  BY <1>1, <1>2, <1>3, <1>4, <1>5, <1>6 DEF Next, Proceed

\* StoreInv is inductive.
LEMMA StoreNext == OnePathAtATime /\ StoreInv /\ [Next]_vars => StoreInv'
<1>1. StoreInv => Opened
  BY DEF StoreInv, FilesOK, Opened
<1> QED
  BY <1>1, TypeNext, CallsNext, ApartNext, FilesNext, BuffersNext DEF StoreInv

\* Only Fprint changes a PWM attribute, that of its call.
LEMMA FprintChangesItsAttribute ==
  ASSUME StoreInv, Next, NEW a \in Existing, a[1] \in PwmFiles, held'[a] # held[a]
  PROVE  Asked(a, held'[a])
<1>1. ASSUME NEW t \in Threads, Fprint(t) PROVE Asked(a, held'[a])
  <2>1. held' = [held EXCEPT ![Attr(t)] = call[t].text] /\ Attr(t) \in Existing
    BY <1>1 DEF Fprint, Change, StoreInv, FilesOK
  <2>2. call[t].op = "set"
    BY <1>1 DEF Fprint, StoreInv, FilesOK
  <2> QED
    BY <1>1, <2>1, <2>2 DEF Asked, StoreInv, TypeOK, Attr
<1>2. ASSUME NEW b \in Existing, NEW n \in Levels, Sample(b, n) PROVE FALSE
  <2>1. b # a
    BY <1>2 DEF Sample, PwmFiles
  <2> QED
    BY <1>2, <2>1 DEF Sample, Change, StoreInv, TypeOK
<1> QED
  BY <1>1, <1>2 DEF Next, Proceed, Enter, FormatStart, FormatEnd, Fopen, Scan, Wrap, Leave

\* pwm.c:34-44 and the other setters: no value lands in an attribute that nobody
\* has asked to change, when the calls of different PWM attributes do not overlap.
THEOREM NoStrayStore ==
  ASSUME OnePathAtATime
  PROVE  Spec => OnlyAskedValuesStored
<1>1. Init => StoreInv
  BY TypeInit, CallsInit DEF StoreInv
<1>2. StoreInv /\ [Next]_vars =>
        [\A a \in Existing : a[1] \in PwmFiles /\ held'[a] # held[a] => Asked(a, held'[a])]_vars
  BY FprintChangesItsAttribute
<1> QED
  BY <1>1, <1>2, StoreNext, PTL DEF Spec, OnlyAskedValuesStored

-----------------------------------------------------------------------------
(* What the calls return.                                                  *)

\* A call in progress has seen the present value of its attribute, and a PWM
\* attribute is never negative: -1 is not mistaken for a failure by the binding.
SeenOK ==
  /\ \A t \in Threads : Active(t) /\ Attr(t) \in Existing => held[Attr(t)] \in seen[t]
  /\ \A a \in Existing : a[1] \in PwmFiles => held[a] >= 0
  /\ \A t \in Threads, n \in Int : n \in seen[t] /\ Attr(t)[1] \in PwmFiles => n >= 0

PrintedOK ==
  \A t \in Threads : call[t].op = "set" =>
    /\ pc[t] = "wrap" => ret[t] = -1 \/ call[t].text \in seen[t]
    /\ pc[t] = "return" => ret[t] # 1 \/ call[t].text \in seen[t]

ScannedOK ==
  \A t \in Threads : call[t].op = "get" =>
    /\ pc[t] = "wrap" => ret[t] \in (IF file[t] = NoFile THEN {-1} ELSE seen[t])
    /\ pc[t] = "return" =>
         ret[t] \in (IF file[t] = NoFile THEN {FailureOf(Attr(t))} ELSE seen[t])

ResultInv == StoreInv /\ SeenOK

\* What a file has been seen to hold during a call includes what it holds.
LEMMA SeenNext == OnePathAtATime /\ ResultInv /\ [Next]_vars => SeenOK'
<1> SUFFICES ASSUME OnePathAtATime, ResultInv, [Next]_vars PROVE SeenOK'
  OBVIOUS
<1> USE DEF ResultInv, StoreInv, TypeOK, SeenOK
<1>1. ASSUME NEW t \in Threads, NEW c \in Calls, Enter(t, c) PROVE SeenOK'
  <2>1. seen'[t] = Values(c.attr, held) /\ Attr(t)' = c.attr
    BY <1>1 DEF Enter, Attr
  <2>2. \A u \in Threads : u # t => UNCHANGED <<seen[u], Attr(u), Active(u)>>
    BY <1>1 DEF Enter, Attr, Active
  <2>3. UNCHANGED held
    BY <1>1 DEF Enter
  <2> QED
    BY <2>1, <2>2, <2>3 DEF Values
<1>2. ASSUME NEW a \in Existing, NEW n \in Int, Change(a, n), a[1] \in PwmFiles => n >= 0,
             UNCHANGED call, \A t \in Threads : Active(t)' => Active(t)
      PROVE  SeenOK'
  <2>1. held'[a] = n /\ \A b \in Existing : b # a => held'[b] = held[b]
    BY <1>2 DEF Change
  <2>2. \A t \in Threads : seen'[t] = IF Attr(t) = a THEN seen[t] \cup {n} ELSE seen[t]
    BY <1>2 DEF Change
  <2>3. \A t \in Threads : UNCHANGED Attr(t)
    BY <1>2 DEF Attr
  <2>4. ASSUME NEW t \in Threads, Active(t)', Attr(t)' \in Existing
        PROVE  held'[Attr(t)'] \in seen'[t]
    <3>1. Active(t) /\ Attr(t) \in Existing /\ Attr(t)' = Attr(t)
      BY <1>2, <2>3, <2>4
    <3>2. CASE Attr(t) = a
      BY <2>1, <2>2, <3>1, <3>2
    <3>3. CASE Attr(t) # a
      BY <2>1, <2>2, <3>1, <3>3
    <3> QED
      BY <3>2, <3>3
  <2>5. \A b \in Existing : b[1] \in PwmFiles => held'[b] >= 0
    BY <1>2, <2>1
  <2>6. ASSUME NEW t \in Threads, NEW k \in Int, k \in seen'[t], Attr(t)'[1] \in PwmFiles
        PROVE  k >= 0
    <3>1. Attr(t)[1] \in PwmFiles
      BY <2>3, <2>6
    <3>2. CASE k \in seen[t]
      BY <3>1, <3>2
    <3>3. CASE k \notin seen[t]
      <4>1. k = n /\ Attr(t) = a
        BY <2>2, <2>6, <3>3
      <4> QED
        BY <1>2, <3>1, <4>1
    <3> QED
      BY <3>2, <3>3
  <2> QED
    BY <2>4, <2>5, <2>6
<1>3. ASSUME NEW t \in Threads, Fprint(t), ~UNCHANGED <<held, seen>> PROVE SeenOK'
  <2>1. call[t].text >= 0 /\ Change(file[t], call[t].text) /\ UNCHANGED call /\ Goto(t, "wrap")
    BY <1>3 DEF Fprint
  <2>2. call[t].text \in Int /\ file[t] \in Existing
    BY <1>3, ActiveAttr, CallFacts DEF Fprint, Active, FilesOK
  <2> QED
    BY <1>2, <1>3, <2>1, <2>2 DEF Active, Fprint
<1>4. ASSUME NEW a \in Existing, NEW n \in Levels, Sample(a, n) PROVE SeenOK'
  BY <1>2, <1>4, ValuesAssumption DEF Sample, PwmFiles, Active
<1>5. ASSUME NEW t \in Threads, Leave(t) PROVE SeenOK'
  <2>1. seen'[t] = {} /\ ~Active(t)'
    BY <1>5 DEF Leave, Active
  <2>2. \A u \in Threads : u # t => UNCHANGED <<seen[u], Attr(u), Active(u)>>
    BY <1>5 DEF Leave, Attr, Active
  <2> QED
    BY <1>5, <2>1, <2>2 DEF Leave
<1>6. ASSUME NEW t \in Threads, Proceed(t), ~Leave(t), UNCHANGED <<held, seen>> PROVE SeenOK'
  BY <1>6, ProceedKeepsCall DEF Active, Attr
<1>7. CASE UNCHANGED vars
  BY <1>7 DEF vars, Active, Attr
<1> QED
  BY <1>1, <1>3, <1>4, <1>5, <1>6, <1>7
  DEF Next, Proceed, FormatStart, FormatEnd, Fopen, Scan, Wrap

\* What a call has seen it does not forget before it returns.
LEMMA SeenGrows ==
  ASSUME ResultInv, [Next]_vars, NEW t \in Threads, Active(t), Active(t)'
  PROVE  seen[t] \subseteq seen'[t] /\ UNCHANGED call[t]
<1> USE DEF ResultInv, StoreInv, TypeOK, Active
<1>1. ASSUME NEW a, NEW n, Change(a, n) PROVE seen[t] \subseteq seen'[t]
  BY <1>1 DEF Change
<1>2. ASSUME NEW u \in Threads, NEW c \in Calls, Enter(u, c)
      PROVE  seen[t] \subseteq seen'[t] /\ UNCHANGED call[t]
  BY <1>2 DEF Enter
<1>3. ASSUME NEW u \in Threads, Leave(u)
      PROVE  seen[t] \subseteq seen'[t] /\ UNCHANGED call[t]
  BY <1>3 DEF Leave
<1>4. ASSUME NEW u \in Threads, Fprint(u)
      PROVE  seen[t] \subseteq seen'[t] /\ UNCHANGED call[t]
  BY <1>1, <1>4 DEF Fprint
<1>5. ASSUME NEW a, NEW n, Sample(a, n) \/ UNCHANGED vars
      PROVE  seen[t] \subseteq seen'[t] /\ UNCHANGED call[t]
  BY <1>1, <1>5 DEF Sample, vars
<1> QED
  BY <1>2, <1>3, <1>4, <1>5 DEF Next, Proceed, FormatStart, FormatEnd, Fopen, Scan, Wrap

\* A step leaves alone the threads that do not take it.
LEMMA OthersKept ==
  ASSUME TypeOK, [Next]_vars, NEW t \in Threads
  PROVE  \/ \E c \in Calls : Enter(t, c)
         \/ Proceed(t)
         \/ UNCHANGED <<pc[t], call[t], file[t], ret[t]>>
<1> USE DEF TypeOK
<1>1. ASSUME NEW u \in Threads, u # t, NEW c \in Calls, Enter(u, c)
      PROVE  UNCHANGED <<pc[t], call[t], file[t], ret[t]>>
  BY <1>1 DEF Enter
<1>2. ASSUME NEW u \in Threads, u # t, Proceed(u)
      PROVE  UNCHANGED <<pc[t], call[t], file[t], ret[t]>>
  <2>1. CASE Fopen(u)
    <3>1. UNCHANGED file \/ \E a : file' = [file EXCEPT ![u] = a]
      BY <2>1 DEF Fopen
    <3>2. UNCHANGED ret \/ ret' = [ret EXCEPT ![u] = -1]
      BY <2>1 DEF Fopen
    <3>3. UNCHANGED call /\ \E p : Goto(u, p)
      BY <2>1 DEF Fopen
    <3> QED
      BY <1>2, <3>1, <3>2, <3>3
  <2>2. CASE Scan(u)
    BY <1>2, <2>2 DEF Scan
  <2>3. CASE FormatStart(u) \/ FormatEnd(u) \/ Fprint(u) \/ Wrap(u) \/ Leave(u)
    BY <1>2, <2>3 DEF FormatStart, FormatEnd, Fprint, Wrap, Leave
  <2> QED
    BY <1>2, <2>1, <2>2, <2>3 DEF Proceed
<1>3. ASSUME NEW a, NEW n, Sample(a, n) \/ UNCHANGED vars
      PROVE  UNCHANGED <<pc[t], call[t], file[t], ret[t]>>
  BY <1>3 DEF Sample, vars
<1> QED
  BY <1>1, <1>2, <1>3 DEF Next

\* What was printed is what was asked for, where values can be stored.
LEMMA PrintedNext == Storable /\ ResultInv /\ PrintedOK /\ [Next]_vars => PrintedOK'
<1> SUFFICES ASSUME Storable, ResultInv, PrintedOK, [Next]_vars,
                    NEW t \in Threads, call'[t].op = "set"
             PROVE  /\ pc'[t] = "wrap" => ret'[t] = -1 \/ call'[t].text \in seen'[t]
                    /\ pc'[t] = "return" => ret'[t] # 1 \/ call'[t].text \in seen'[t]
  BY DEF PrintedOK
<1> USE DEF ResultInv, StoreInv, TypeOK
<1>1. CASE Fopen(t)
  BY <1>1 DEF Fopen
<1>2. CASE Fprint(t)
  <2>1. call[t] \in Calls /\ file[t] = Attr(t) /\ UNCHANGED call
    BY <1>2, ActiveAttr DEF Fprint, Active, FilesOK
  <2>2. Change(Attr(t), call[t].text)
    BY <1>2, <2>1, CallFacts DEF Fprint, Storable
  <2>3. call[t].text \in seen'[t]
    BY <2>2 DEF Change
  <2> QED
    BY <1>2, <2>1, <2>3 DEF Fprint
<1>3. CASE Scan(t)
  <2>1. UNCHANGED call /\ call[t].op = "get"
    BY <1>3 DEF Scan, FilesOK
  <2> QED
    BY <2>1
<1>4. CASE Wrap(t)
  <2>1. UNCHANGED <<call, seen>> /\ pc[t] = "wrap" /\ pc'[t] = "return"
    BY <1>4 DEF Wrap
  <2>2. ret'[t] = 1 => ret[t] # -1
    BY <1>4, <2>1 DEF Wrap, JavaResult
  <2> QED
    BY <2>1, <2>2 DEF PrintedOK
<1>5. CASE UNCHANGED <<pc[t], call[t], file[t], ret[t]>>
  BY <1>5, SeenGrows DEF PrintedOK, Active
<1>6. CASE FormatStart(t) \/ FormatEnd(t) \/ Leave(t) \/ \E c \in Calls : Enter(t, c)
  BY <1>6 DEF FormatStart, FormatEnd, Leave, Enter
<1> QED
  BY <1>1, <1>2, <1>3, <1>4, <1>5, <1>6, OthersKept DEF Proceed

\* What was scanned is what the file held, where it can be scanned.
LEMMA ScannedNext == Scannable /\ ResultInv /\ ScannedOK /\ [Next]_vars => ScannedOK'
<1> SUFFICES ASSUME Scannable, ResultInv, ScannedOK, [Next]_vars,
                    NEW t \in Threads, call'[t].op = "get"
             PROVE  /\ pc'[t] = "wrap" =>
                         ret'[t] \in (IF file'[t] = NoFile THEN {-1} ELSE seen'[t])
                    /\ pc'[t] = "return" =>
                         ret'[t] \in (IF file'[t] = NoFile THEN {FailureOf(Attr(t))'} ELSE seen'[t])
  BY DEF ScannedOK
<1> USE DEF ResultInv, StoreInv, TypeOK
<1>1. CASE Fopen(t)
  <2>1. pc[t] = "fopen" /\ file[t] = NoFile /\ call[t].op \in {"set", "get"}
    BY <1>1, ActiveAttr, CallFacts DEF Fopen, FilesOK, Active
  <2>2. pc'[t] \in {"print", "scan"} \/ (UNCHANGED file /\ ret'[t] = -1 /\ pc'[t] = "wrap")
    BY <1>1, <2>1 DEF Fopen
  <2> QED
    BY <2>1, <2>2
<1>2. CASE Fprint(t)
  BY <1>2 DEF Fprint, FilesOK
<1>3. CASE Scan(t)
  <2>1. file[t] = Attr(t) /\ file[t] # NoFile /\ file[t] \in Existing /\ UNCHANGED <<file, seen>>
    BY <1>3 DEF Scan, FilesOK
  <2>2. ret'[t] = held[file[t]] /\ pc'[t] = "wrap"
    BY <1>3 DEF Scan, Scannable
  <2>3. held[file[t]] \in seen[t]
    BY <1>3, <2>1 DEF Scan, SeenOK, Active
  <2> QED
    BY <2>1, <2>2, <2>3
<1>4. CASE Wrap(t)
  <2>1. UNCHANGED <<call, file, seen>> /\ pc[t] = "wrap" /\ pc'[t] = "return"
    BY <1>4 DEF Wrap
  <2>2. ret'[t] = JavaResult(call[t], ret[t]) /\ call[t].op = "get"
    BY <1>4 DEF Wrap
  <2>3. Attr(t)[1] \in PwmFiles \/ Attr(t)[1] = "raw"
    BY <2>1, ActiveAttr DEF Active, Attributes
  <2>4. FailureOf(Attr(t))' = FailureOf(Attr(t))
    BY <2>1 DEF Attr
  <2>5. CASE file[t] = NoFile
    <3>1. ret[t] = -1
      BY <2>1, <2>2, <2>5 DEF ScannedOK
    <3>2. ret'[t] = FailureOf(Attr(t))
      BY <2>2, <2>3, <3>1 DEF JavaResult, FailureOf, Attr, PwmFiles
    <3> QED
      BY <2>1, <2>4, <2>5, <3>2
  <2>6. CASE file[t] # NoFile
    <3>1. ret[t] \in seen[t]
      BY <2>1, <2>2, <2>6 DEF ScannedOK
    <3>2. Attr(t)[1] \in PwmFiles => ret[t] # -1
      BY <3>1 DEF SeenOK
    <3>3. ret'[t] = ret[t]
      BY <2>2, <2>3, <3>2 DEF JavaResult, Attr, PwmFiles
    <3> QED
      BY <2>1, <2>6, <3>1, <3>3
  <2> QED
    BY <2>5, <2>6
<1>5. CASE UNCHANGED <<pc[t], call[t], file[t], ret[t]>>
  <2>1. FailureOf(Attr(t))' = FailureOf(Attr(t))
    BY <1>5 DEF Attr
  <2>2. pc[t] \in {"wrap", "return"} => seen[t] \subseteq seen'[t]
    BY <1>5, SeenGrows DEF Active
  <2> QED
    BY <1>5, <2>1, <2>2 DEF ScannedOK
<1>6. CASE FormatStart(t) \/ FormatEnd(t) \/ Leave(t) \/ \E c \in Calls : Enter(t, c)
  BY <1>6 DEF FormatStart, FormatEnd, Leave, Enter
<1> QED
  BY <1>1, <1>2, <1>3, <1>4, <1>5, <1>6, OthersKept DEF Proceed

\* No call has a result at the start.
LEMMA ResultInit == Init => ResultInv /\ PrintedOK /\ ScannedOK
<1>1. Init => SeenOK
  BY DEF Init, SeenOK, Active
<1>2. Init => PrintedOK /\ ScannedOK
  BY DEF Init, PrintedOK, ScannedOK
<1> QED
  BY <1>1, <1>2, TypeInit, CallsInit DEF ResultInv, StoreInv

\* ResultInv is inductive.
LEMMA ResultNext == OnePathAtATime /\ ResultInv /\ [Next]_vars => ResultInv'
BY StoreNext, SeenNext DEF ResultInv

\* pwm.c:38-46: when sysfs takes the numbers, TRUE says that the value has been
\* in the attribute the caller has named.
THEOREM TrueMeansHeldHolds ==
  ASSUME OnePathAtATime, Storable
  PROVE  Spec => []TrueMeansHeld
<1>1. PrintedOK => TrueMeansHeld
  BY DEF PrintedOK, TrueMeansHeld
<1> QED
  BY <1>1, ResultInit, ResultNext, PrintedNext, PTL DEF Spec

\* pwm.c:63-73, adc.c:37-48: when sysfs can be read, a getter returns a value
\* that its own attribute has had during the call, or tells the failure.
THEOREM GetsReturnHeldValuesHold ==
  ASSUME OnePathAtATime, Scannable
  PROVE  Spec => []GetsReturnHeldValues
<1>1. ScannedOK => GetsReturnHeldValues
  BY DEF ScannedOK, GetsReturnHeldValues
<1> QED
  BY <1>1, ResultInit, ResultNext, ScannedNext, PTL DEF Spec
=============================================================================
