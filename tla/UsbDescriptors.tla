---------------------------- MODULE UsbDescriptors ----------------------------
(***************************************************************************)
(* The configuration descriptors of a device: where the Linux backend      *)
(* finds one in what the kernel holds (linux_usbfs.c) and how it is parsed *)
(* (descriptor.c).                                                         *)
(*                                                                         *)
(* What is held is a sequence of descriptors, each with the length it      *)
(* claims: the code moves from one to the next by that length alone.  Part *)
(* of it, from a descriptor on, is a buffer with the bytes that are there; *)
(* the last descriptor may be cut off.  Abstracted: the fields that are    *)
(* copied, running out of memory.                                          *)
(***************************************************************************)
EXTENDS Naturals, Integers, Sequences, SequencesExt, FiniteSetsExt

CONSTANTS Firsts,         \* what the first descriptor may be: a configuration
          Others,         \* what the others may be
          MaxDescriptors, \* bound: how many there are
          USB_MAXINTERFACES, USB_MAXENDPOINTS

DESC_HEADER_LENGTH == 2
CONFIG_DESC_LENGTH == 9
INTERFACE_DESC_LENGTH == 9
ENDPOINT_DESC_LENGTH == 7
NOT_FOUND == -5
ERROR_IO == -1

\* The descriptors.  The last of a configuration may claim more bytes than the
\* configuration has left; total is wTotalLength, known when all of it is.
Config(value, interfaces, missing) ==
  [type |-> "config", length |-> CONFIG_DESC_LENGTH, number |-> value, says |-> interfaces, missing |-> missing, total |-> 0]
Interface(number, endpoints) ==
  [type |-> "interface", length |-> INTERFACE_DESC_LENGTH, number |-> number, says |-> endpoints, missing |-> 0, total |-> 0]
Plain(type, length) == [type |-> type, length |-> length, number |-> 0, says |-> 0, missing |-> 0, total |-> 0]

VARIABLES device,               \* the descriptors of the configurations of a device
          sysfs_has_descriptors
vars == <<device, sysfs_has_descriptors>>

\* One descriptor more: whatever a device may have.
Init == (\E c \in Firsts : device = <<c>>) /\ sysfs_has_descriptors \in BOOLEAN
Add ==
  /\ Len(device) < MaxDescriptors /\ \E d \in Others : device' = Append(device, d)
  /\ UNCHANGED sysfs_has_descriptors
Spec == Init /\ [][Add]_vars

-----------------------------------------------------------------------------
(* A buffer: descriptors, and how many bytes there are.                         *)

\* Where each begins, and where the last ends.
Starts(ds) ==
  LET at[k \in 1 .. Len(ds) + 1] == IF k = 1 THEN 0 ELSE at[k - 1] + ds[k - 1].length IN at
Bytes(ds) == Starts(ds)[Len(ds) + 1]
Buffer(ds, size) == [ds |-> ds, size |-> size, starts |-> Starts(ds)]
\* The bytes that are left at the k-th.
Rest(b, k) == b.size - b.starts[k]
HeaderAt(b, k) == k <= Len(b.ds) /\ Rest(b, k) >= DESC_HEADER_LENGTH
Short(b, k) == b.ds[k].length > Rest(b, k)

Proper == {"endpoint", "interface", "config", "device"}

\* The descriptors of a class or vendor are skipped: up to a proper one or the end; one
\* whose length cannot be is an error, one that is cut off ends the buffer.
RECURSIVE Skip(_, _)
Skip(b, k) ==
  IF ~HeaderAt(b, k) THEN [how |-> "end", at |-> k]
  ELSE IF b.ds[k].length < DESC_HEADER_LENGTH THEN [how |-> "error", at |-> k]
  ELSE IF Short(b, k) THEN [how |-> "short", at |-> k]
  ELSE IF b.ds[k].type \in Proper THEN [how |-> "end", at |-> k]
  ELSE Skip(b, k + 1)

\* Mutant: what follows an endpoint is not skipped.
ParseEndpoint_NoSkip(b, k) ==
  IF ~HeaderAt(b, k) THEN [how |-> "error", at |-> k]
  ELSE IF b.ds[k].type # "endpoint" \/ Short(b, k) THEN [how |-> "none", at |-> k]
  ELSE [how |-> "end", at |-> k + 1]
\* parse_endpoint: after what it has parsed; nothing is parsed if it is not there.
ParseEndpoint(b, k) ==
  IF ~HeaderAt(b, k) THEN [how |-> "error", at |-> k]
  ELSE IF b.ds[k].type # "endpoint" \/ Short(b, k) THEN [how |-> "none", at |-> k]
  ELSE IF b.ds[k].length < ENDPOINT_DESC_LENGTH THEN [how |-> "error", at |-> k]
  ELSE Skip(b, k + 1)

\* The endpoints of a setting, n at most: their places.
RECURSIVE ParseEndpoints(_, _, _)
ParseEndpoints(b, k, n) ==
  LET e == ParseEndpoint(b, k)
      more == ParseEndpoints(b, e.at, n - 1)
  IN IF n = 0 \/ e.how = "none" THEN [how |-> "end", at |-> k, endpoints |-> << >>]
     ELSE IF e.how = "error" THEN [how |-> "error", at |-> k, endpoints |-> << >>]
     ELSE [more EXCEPT !.endpoints = <<k>> \o @]

\* parse_interface: the settings one after the other that have the same number.  A setting
\* is its place, the endpoints it counts, and those it has.
RECURSIVE ParseSettings(_, _, _)
ParseSettings(b, k, settings) ==
  LET d == b.ds[k]
      s == Skip(b, k + 1)
      e == ParseEndpoints(b, s.at, d.says)
      with == IF e.how = "error" THEN << >> ELSE
              Append(settings, [at |-> k, counts |-> Len(e.endpoints), endpoints |-> e.endpoints])
  IN IF Rest(b, k) < INTERFACE_DESC_LENGTH \/ k > Len(b.ds) \/ d.type # "interface"
          \/ (settings # << >> /\ d.number # b.ds[settings[1].at].number)
     THEN [how |-> "end", at |-> k, settings |-> settings]
     ELSE IF d.length < INTERFACE_DESC_LENGTH THEN [how |-> "error", at |-> k, settings |-> << >>]
     ELSE IF Short(b, k) THEN [how |-> "end", at |-> k, settings |-> settings]
     ELSE IF d.says > USB_MAXENDPOINTS \/ s.how = "error" THEN [how |-> "error", at |-> k, settings |-> << >>]
     ELSE IF s.how = "short"
     THEN [how |-> "end", at |-> s.at, settings |-> Append(settings, [at |-> k, counts |-> d.says, endpoints |-> << >>])]
     ELSE IF e.how = "error" THEN [how |-> "error", at |-> k, settings |-> << >>]
     ELSE ParseSettings(b, e.at, with)

\* parse_configuration: as many interfaces as the configuration says, or as there are.
RECURSIVE ParseInterfaces(_, _, _)
ParseInterfaces(b, k, n) ==
  LET s == Skip(b, k)
      p == ParseSettings(b, s.at, << >>)
      more == ParseInterfaces(b, p.at, n - 1)
  IN IF n = 0 \/ s.how = "short" THEN [how |-> "ok", interfaces |-> << >>]
     ELSE IF s.how = "error" \/ p.how = "error" THEN [how |-> "error", interfaces |-> << >>]
     ELSE IF p.at = s.at THEN [how |-> "ok", interfaces |-> << >>]
     ELSE [more EXCEPT !.interfaces = <<p.settings>> \o @]

NotParsed == [how |-> "error", interfaces |-> << >>]
AllOrNothing(p) == IF p.how = "error" THEN NotParsed ELSE p
ParseConfiguration(b) ==
  IF \/ b.size < CONFIG_DESC_LENGTH \/ b.ds[1].type # "config" \/ b.ds[1].length < CONFIG_DESC_LENGTH
     \/ Short(b, 1) \/ b.ds[1].says > USB_MAXINTERFACES
  THEN NotParsed
  ELSE AllOrNothing(ParseInterfaces(b, 2, b.ds[1].says))

-----------------------------------------------------------------------------
(* What the kernel holds, and where a configuration is in it.                   *)

IsConfig(d) == d.type = "config"
\* The place of the configuration after the one at k, or the end.
NextOf(ds, k) == Min({n \in k + 1 .. Len(ds) : IsConfig(ds[n])} \cup {Len(ds) + 1})
LastOf(ds, k) == NextOf(ds, k) - 1
ConfigOf(ds, k) == Max({c \in 1 .. k : IsConfig(ds[c])})

LeastLength(type) ==
  CASE type = "config" -> CONFIG_DESC_LENGTH [] type = "interface" -> INTERFACE_DESC_LENGTH
    [] type = "endpoint" -> ENDPOINT_DESC_LENGTH [] OTHER -> DESC_HEADER_LENGTH

\* External: the kernel has the descriptors of the device, sysfs only those whose length
\* can be.
Verified(k) ==
  LET c == ConfigOf(device, k)
  IN device[k].length >= LeastLength(device[k].type) /\ (k = LastOf(device, c) => device[c].missing = 0 \/ k = c)
Total(k) == Bytes(SubSeq(device, k, LastOf(device, k))) - device[k].missing
Held ==
  LET At == SelectSeq([k \in DOMAIN device |-> k], LAMBDA k : sysfs_has_descriptors => Verified(k))
  IN [i \in DOMAIN At |-> IF IsConfig(device[At[i]]) THEN [device[At[i]] EXCEPT !.total = Total(At[i])] ELSE device[At[i]]]

\* Mutant: any descriptor will do.
SeekToNextDescriptor_Any(h, k, i) == IF k < Len(h) THEN k + 1 ELSE NOT_FOUND
\* seek_to_next_descriptor, for a configuration: none at the end.
RECURSIVE SeekToNextDescriptor(_, _, _)
SeekToNextDescriptor(h, k, i) ==
  IF i > Len(h) THEN NOT_FOUND
  ELSE IF i # k /\ IsConfig(h[i]) THEN i
  ELSE SeekToNextDescriptor(h, k, i + 1)

\* How far apart the configurations are, and how many bytes are left at one: usbfs has of
\* each as many as its wTotalLength says, sysfs as many as there are.
ConfigsOf(h) == {k \in DOMAIN h : IsConfig(h[k])}
Distance(h, k) == IF sysfs_has_descriptors THEN Bytes(SubSeq(h, k, LastOf(h, k))) ELSE h[k].total
Left(h, k) == MapThenSumSet(LAMBDA c : Distance(h, c), {c \in ConfigsOf(h) : c >= k})

\* Mutant: any wTotalLength will do.
SeekToNextConfig_Trusting(h, k) == IF Left(h, k) = 0 THEN NOT_FOUND ELSE NextOf(h, k)

\* seek_to_next_config: the place of the next one, if there is one here and what it claims
\* can be.
SeekToNextConfig(h, k) ==
  LET n == SeekToNextDescriptor(h, k, k)
  IN IF Left(h, k) = 0 THEN NOT_FOUND
     ELSE IF Left(h, k) < CONFIG_DESC_LENGTH \/ ~IsConfig(h[k]) THEN ERROR_IO
     ELSE IF sysfs_has_descriptors THEN IF n = NOT_FOUND THEN Len(h) + 1 ELSE n
     ELSE IF h[k].total < CONFIG_DESC_LENGTH THEN ERROR_IO
     ELSE NextOf(h, k)

\* op_get_config_descriptor_by_value: its place, or why it has none.
RECURSIVE ByValue(_, _, _)
ByValue(h, k, value) ==
  LET next == SeekToNextConfig(h, k)
  IN IF next < 0 THEN next ELSE IF h[k].number = value THEN k ELSE ByValue(h, next, value)

\* op_get_config_descriptor: the index counts from 0.
RECURSIVE ByIndex(_, _, _)
ByIndex(h, k, config_index) ==
  LET next == SeekToNextConfig(h, k)
  IN IF next < 0 THEN next ELSE IF config_index = 0 THEN k ELSE ByIndex(h, next, config_index - 1)

num_configurations == Cardinality({k \in DOMAIN device : IsConfig(device[k])})
\* usbi_get_config_index_by_value, for a backend that cannot look for a value.
RECURSIVE IndexOfValue(_, _, _)
IndexOfValue(h, i, value) ==
  LET k == ByIndex(h, 1, i)
  IN IF i >= num_configurations THEN NOT_FOUND
     ELSE IF k < 0 THEN k
     ELSE IF h[k].number = value THEN i
     ELSE IndexOfValue(h, i + 1, value)

\* What a call for len bytes of the configuration at k gets.
Part(h, k, len) ==
  LET size == Distance(h, k)
  IN Buffer(SubSeq(h, k, LastOf(h, k)), IF len < size THEN len ELSE size)

\* libusb_get_config_descriptor: first the header, then as much as that says there is.
GetConfig(h, config_index) ==
  LET k == ByIndex(h, 1, config_index)
  IN IF k < 0 \/ Distance(h, k) < CONFIG_DESC_LENGTH THEN NotParsed ELSE ParseConfiguration(Part(h, k, h[k].total))

\* Mutant: the length is that of the second, what is parsed the first.
GetActiveConfig_Swapped(h, first, second) ==
  LET f == ByValue(h, 1, first)  s == ByValue(h, 1, second)
  IN IF f < 0 \/ s < 0 THEN NotParsed ELSE ParseConfiguration(Part(h, f, h[s].total))
\* libusb_get_active_config_descriptor asks which configuration is active both times, and
\* finds it by its value: it may have become another one.
GetActiveConfig(h, first, second) ==
  LET f == ByValue(h, 1, first)  s == ByValue(h, 1, second)
  IN IF f < 0 \/ s < 0 \/ Distance(h, f) < CONFIG_DESC_LENGTH THEN NotParsed
     ELSE ParseConfiguration(Part(h, s, h[f].total))

-----------------------------------------------------------------------------
(* Properties. *)

\* The kernel has of the configuration at k, and of each before it, at least the header.
Readable(h, k) == \A c \in ConfigsOf(h) : c <= k => Distance(h, c) >= CONFIG_DESC_LENGTH

\* The settings of a configuration as its descriptors give them: one for each interface
\* descriptor, with the endpoints up to the next.
Settings(ds) ==
  LET Is(k, type) == ds[k].type = type
  IN {[at |-> k, endpoints |-> {e \in k + 1 .. Len(ds) : Is(e, "endpoint") /\ \A m \in k + 1 .. e : ~Is(m, "interface")}]
        : k \in {j \in DOMAIN ds : Is(j, "interface")}}
SettingsParsed(p) ==
  UNION {{[at |-> p.interfaces[i][j].at, endpoints |-> ToSet(p.interfaces[i][j].endpoints)]
            : j \in DOMAIN p.interfaces[i]} : i \in DOMAIN p.interfaces}
\* Its lengths can be, each setting has the endpoints it says, and it has the interfaces it
\* says: settings of one interface follow each other.
WellFormed(ds) ==
  LET I == {k \in DOMAIN ds : ds[k].type = "interface"}
      Begins(k) == \A m \in I : m < k => ds[m].number # ds[k].number
      Follows(k) == \E m \in I : m < k /\ ds[m].number = ds[k].number /\ \A l \in I : ~(m < l /\ l < k)
  IN /\ ds[1].missing = 0 /\ \A k \in DOMAIN ds : ds[k].length >= LeastLength(ds[k].type)
     /\ \A s \in Settings(ds) : Cardinality(s.endpoints) = ds[s.at].says /\ ds[s.at].says <= USB_MAXENDPOINTS
     /\ \A e \in DOMAIN ds : ds[e].type = "endpoint" => \E k \in I : k < e
     /\ \A k \in I : Begins(k) \/ Follows(k)
     /\ Cardinality({k \in I : Begins(k)}) = ds[1].says /\ ds[1].says <= USB_MAXINTERFACES

\* A well-formed configuration behind readable ones is parsed as it is, whatever descriptors of a
\* class or vendor are in it and wherever they are (descriptor.c:101-189, 216-363, 378-497).
WellFormedIsParsed ==
  LET h == Held
  IN \A k \in ConfigsOf(h) :
       LET ds == SubSeq(h, k, LastOf(h, k))
           p == GetConfig(h, Cardinality({c \in ConfigsOf(h) : c < k}))
       IN WellFormed(ds) /\ Readable(h, k) =>
            p.how = "ok" /\ SettingsParsed(p) = Settings(ds) /\ Len(p.interfaces) = ds[1].says

\* Looking for a value and looking for the index of that value find the same configuration, the
\* first that has it, or both fail: which they do exactly when the kernel has less than a header
\* of it or of one before it (linux_usbfs.c:689-742, 744-774, 804-832, descriptor.c:667-690).
LookupsAgree ==
  LET h == Held
  IN \A value \in {device[k].number : k \in ConfigsOf(device)} :
       LET first == Min({c \in ConfigsOf(h) : h[c].number = value})
           i == IndexOfValue(h, 0, value)
           k == ByValue(h, 1, value)
       IN IF Readable(h, first) THEN k = first /\ i >= 0 /\ ByIndex(h, 1, i) = first
          ELSE k = ERROR_IO /\ i = ERROR_IO

\* One is a beginning of the other.
BeginningOf(cut, whole) ==
  /\ Len(cut) <= Len(whole)
  /\ \A i \in DOMAIN cut : cut[i].at = whole[i].at /\ IsPrefix(cut[i].endpoints, whole[i].endpoints)

\* A configuration that became active between the two calls is cut where the one before it
\* ends: what is parsed of it is a beginning of it, or nothing (descriptor.c:576-607).
CutIsABeginning ==
  LET h == Held
      values == {h[k].number : k \in ConfigsOf(h)}
  IN \A first, second \in values :
       LET p == GetActiveConfig(h, second, second)
       IN first # second /\ p.how = "ok" =>
            BeginningOf(FlattenSeq(GetActiveConfig(h, first, second).interfaces), FlattenSeq(p.interfaces))

\* What is asked for is found, and is what the device has.
FoundAndParsed == LookupsAgree /\ WellFormedIsParsed

\* What the descriptors of a configuration are found to be is what they are, or the
\* beginning of it.
ConfigurationsAreTrue == FoundAndParsed /\ CutIsABeginning

\* libusb.h:614-615: the length of the array of endpoints is determined by bNumEndpoints.
EndpointsAreThere ==
  LET h == Held
      values == {h[k].number : k \in ConfigsOf(h)}
  IN \A first, second \in values :
       LET p == FlattenSeq(GetActiveConfig(h, first, second).interfaces)
       IN \A i \in DOMAIN p : p[i].counts = Len(p[i].endpoints)
=============================================================================
