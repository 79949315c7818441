---------------------------- MODULE UsbUrbs_proofs ----------------------------
(***************************************************************************)
(* Proof that the URBs of a transfer are freed only when the kernel has    *)
(* none of them, and that what the application is told of it is true, for  *)
(* every kind of transfer, however it is split, and whatever is refused,   *)
(* cancelled, short, in error or unplugged on the way.                     *)
(*                                                                         *)
(* As long as nothing has gone wrong the URBs come back in order, and the  *)
(* last one is the last to come.  Afterwards they come in any order, and   *)
(* are counted: those the kernel has, those that wait to be reaped, the    *)
(* one that is handled and those that are retired are all there are.  In   *)
(* the order in which they have ended they hold what the device has sent   *)
(* since what has been counted, without a hole; that is what the data of   *)
(* a transfer being torn down is put together from (TransferInv).          *)
(***************************************************************************)
EXTENDS UsbUrbs, FiniteSetTheorems, SequenceTheorems, WellFoundedInduction, TLAPS

\* The types of what the proof is about.
Statuses == Faults \cup {None, "ok", "short", "killed", "unlinked", "shutdown"}
Reports == {"COMPLETED", "STALL", "OVERFLOW", "ERROR", "CANCELLED", "NO_DEVICE"}
Urb == [at : {None, "queued", "done"}, status : Statuses, room : Nat, from : Nat, actual : Nat]
Priv == [urbs : BOOLEAN, action : {"NORMAL", "SUBMIT_FAILED", "CANCELLED", "COMPLETED_EARLY", "ERROR"},
         retired : Nat, status : Reports, packets : Seq(Nat)]
Work == [who : {None, "submit", "withdraw", "cancel", "handle"}, at : Int, last : Int]
Handler == [at : {"poll", "handle", "complete", "off"}, urb : Nat, status : Reports \cup {None}]
TypeInv ==
  /\ kind \in Kinds /\ plugged \in BOOLEAN /\ refuses \in BOOLEAN /\ sent \in Nat
  /\ urbs \in Seq(Urb) /\ done \in Seq(1 .. N)
  /\ priv \in Priv /\ work \in Work /\ handler \in Handler

Asc(s) == \A m, n \in DOMAIN s : m < n => s[m] < s[n]
Below(S, T) == \A x \in S, y \in T : x < y
Joins(t, s, r) == t = s \o r

\* The transfer is with the kernel, or its URBs are being handled.
Flying == handler.at \notin {"off", "complete"} /\ phase # "idle"
Discarding == work.who \in {"withdraw", "cancel", "handle"}
Handled == IF handler.at = "handle" THEN {handler.urb} ELSE {}
\* How many URBs the kernel has been given, or will not be.
Given == IF work.who = "submit" THEN work.at - 1 ELSE N

\* Nothing is left of a transfer that has ended.
EndedInv ==
  /\ handler.at # "off" /\ (phase = "idle" \/ handler.at = "complete") =>
       Queued = {} /\ done = << >> /\ ~Locked /\ handler.at # "handle"
  /\ handler.at = "complete" => phase # "idle" /\ ~priv.urbs

\* Every URB is somewhere, and its transfer keeps it.
CountInv ==
  /\ Flying => priv.urbs /\ Cardinality(Queued) + Len(done) + Cardinality(Handled) + priv.retired = Given
  /\ \A i \in 1 .. N : urbs[i].at = "done" => i \in ToSet(done)
  /\ ToSet(done) \cap Queued = {}
  /\ handler.at = "handle" => handler.urb \in 1 .. N

\* URBs are submitted in order.
SubmitInv ==
  work.who = "submit" =>
    /\ work.at \in 1 .. N + 1
    /\ \A i \in work.at .. N : urbs[i].at = None
    /\ Below(ToSet(done) \cup Handled, {work.at})

\* And come back in order, as long as none of them is discarded.
OrderInv ==
  Flying /\ priv.action = "NORMAL" =>
    /\ Asc(done) /\ Below(ToSet(done), Queued) /\ Below(Handled, ToSet(done) \cup Queued)
    /\ Discarding => Queued = {}

\* What a status tells of the other URBs.
CauseInv ==
  /\ refuses \/ ~plugged => Queued = {}
  /\ \A i \in 1 .. N :
       /\ urbs[i].status = "shutdown" => ~plugged
       /\ urbs[i].status = "overflow" => i = N
       /\ urbs[i].status = "stall" /\ kind.type \in {"bulk", "interrupt"} => N = 1 \/ refuses
  /\ kind.type = "control" => N <= 1
  /\ kind.type \in {"bulk", "interrupt"} /\ "stall" \in kind.faults /\ ~Continues(kind) => N <= 1

Inv == TypeInv /\ EndedInv /\ CountInv /\ SubmitInv /\ OrderInv /\ CauseInv

-----------------------------------------------------------------------------
(* Numbers and sequences. *)

\* A set of numbers that is not empty has a least one.
LEMMA MinIsLeast ==
  ASSUME NEW T \in SUBSET Nat, T # {}
  PROVE  Min(T) \in T /\ \A n \in T : Min(T) <= n
<1> DEFINE R == {ss \in Nat \X Nat : ss[1] < ss[2]}
<1>1. IsWellFoundedOn(R, Nat)
  BY NatLessThanWellFounded DEF OpToRel
<1>2. \E n \in T : \A m \in T : ~ (<<m, n>> \in R)
  <2> HIDE DEF R
  <2> QED BY <1>1, WFMin
<1>3. \A m, n \in Nat : m < n => <<m, n>> \in R
  OBVIOUS
<1> HIDE DEF R
<1>4. PICK n \in T : \A m \in T : ~ (<<m, n>> \in R)
  BY <1>2
<1>5. ASSUME NEW m \in T PROVE n <= m
  <2>1. m \in Nat /\ n \in Nat
    OBVIOUS
  <2>2. ~(m < n)
    BY <1>3, <1>4, <2>1
  <2> QED
    BY <2>1, <2>2
<1> QED
  BY <1>5 DEF Min

\* A sequence of a subset.
LEMMA SeqOfSubset ==
  ASSUME NEW S, NEW T, S \subseteq T, NEW s \in Seq(S)
  PROVE  s \in Seq(T)
<1>1. Len(s) \in Nat /\ s \in [1 .. Len(s) -> S]
  OBVIOUS
<1>2. s \in [1 .. Len(s) -> T]
  BY <1>1
<1> QED
  BY <1>1, <1>2

\* A sequence followed by another.
LEMMA JoinFacts ==
  ASSUME NEW S \in SUBSET Nat, NEW s \in Seq(S), NEW r \in Seq(S), NEW t, Joins(t, s, r)
  PROVE  /\ t \in Seq(S) /\ Len(t) = Len(s) + Len(r) /\ ToSet(t) = ToSet(s) \cup ToSet(r)
         /\ Asc(s) /\ Asc(r) /\ Below(ToSet(s), ToSet(r)) => Asc(t)
<1>1. /\ t \in Seq(S) /\ Len(t) = Len(s) + Len(r) /\ Len(s) \in Nat /\ Len(r) \in Nat
      /\ \A i \in 1 .. Len(s) : t[i] = s[i]
      /\ \A i \in 1 .. Len(r) : t[i + Len(s)] = r[i]
  BY DEF Joins
<1>2. DOMAIN t = 1 .. Len(s) + Len(r) /\ DOMAIN s = 1 .. Len(s) /\ DOMAIN r = 1 .. Len(r)
  BY <1>1
<1>3. \A i \in 1 .. Len(s) + Len(r) :
        i \in 1 .. Len(s) \/ (i > Len(s) /\ i - Len(s) \in 1 .. Len(r) /\ t[i] = r[i - Len(s)])
  <2> SUFFICES ASSUME NEW i \in 1 .. Len(s) + Len(r), i \notin 1 .. Len(s)
               PROVE  i > Len(s) /\ i - Len(s) \in 1 .. Len(r) /\ t[i] = r[i - Len(s)]
    OBVIOUS
  <2>1. i > Len(s) /\ i - Len(s) \in 1 .. Len(r) /\ (i - Len(s)) + Len(s) = i
    BY <1>1
  <2> QED
    BY <1>1, <2>1
<1>4. ASSUME NEW y PROVE y \in ToSet(t) <=> y \in ToSet(s) \cup ToSet(r)
  <2>1. ASSUME y \in ToSet(t) PROVE y \in ToSet(s) \cup ToSet(r)
    <3>1. PICK i \in 1 .. Len(s) + Len(r) : t[i] = y
      BY <1>2, <2>1 DEF ToSet
    <3> QED
      BY <1>1, <1>2, <1>3, <3>1 DEF ToSet
  <2>2. ASSUME y \in ToSet(s) PROVE y \in ToSet(t)
    <3>1. PICK i \in 1 .. Len(s) : s[i] = y
      BY <1>2, <2>2 DEF ToSet
    <3>2. i \in 1 .. Len(s) + Len(r) /\ t[i] = y
      BY <1>1, <3>1
    <3> QED
      BY <1>2, <3>2 DEF ToSet
  <2>3. ASSUME y \in ToSet(r) PROVE y \in ToSet(t)
    <3>1. PICK i \in 1 .. Len(r) : r[i] = y
      BY <1>2, <2>3 DEF ToSet
    <3>2. i + Len(s) \in 1 .. Len(s) + Len(r) /\ t[i + Len(s)] = y
      BY <1>1, <3>1
    <3> QED
      BY <1>2, <3>2 DEF ToSet
  <2> QED
    BY <2>1, <2>2, <2>3
<1>5. ASSUME Asc(s), Asc(r), Below(ToSet(s), ToSet(r)) PROVE Asc(t)
  <2> SUFFICES ASSUME NEW m \in 1 .. Len(s) + Len(r), NEW n \in 1 .. Len(s) + Len(r), m < n
               PROVE  t[m] < t[n]
    BY <1>2 DEF Asc
  <2>1. CASE n \in 1 .. Len(s)
    <3>1. m \in 1 .. Len(s)
      BY <1>1, <2>1
    <3> QED
      BY <1>1, <1>2, <1>5, <2>1, <3>1 DEF Asc
  <2>2. CASE m \in 1 .. Len(s) /\ n \notin 1 .. Len(s)
    <3>1. s[m] \in ToSet(s) /\ r[n - Len(s)] \in ToSet(r)
      BY <1>2, <1>3, <2>2 DEF ToSet
    <3>2. t[m] = s[m] /\ t[n] = r[n - Len(s)]
      BY <1>1, <1>3, <2>2
    <3> QED
      BY <1>5, <3>1, <3>2 DEF Below
  <2>3. CASE m \notin 1 .. Len(s) /\ n \notin 1 .. Len(s)
    <3>1. m - Len(s) \in 1 .. Len(r) /\ n - Len(s) \in 1 .. Len(r) /\ m - Len(s) < n - Len(s)
      BY <1>1, <1>3, <2>3
    <3>2. t[m] = r[m - Len(s)] /\ t[n] = r[n - Len(s)]
      BY <1>3, <2>3
    <3> QED
      BY <1>2, <1>5, <3>1, <3>2 DEF Asc
  <2> QED
    BY <2>1, <2>2, <2>3
<1> QED
  BY <1>1, <1>4, <1>5

\* What is left when the first entry is taken off.
LEMMA TailFacts ==
  ASSUME NEW S \in SUBSET Nat, NEW s \in Seq(S), s # << >>, NEW r, r = Tail(s)
  PROVE  /\ r \in Seq(S) /\ Len(s) = Len(r) + 1 /\ Head(s) \in S /\ ToSet(s) = ToSet(r) \cup {Head(s)}
         /\ Asc(s) => Asc(r) /\ Below({Head(s)}, ToSet(r))
<1>1. /\ DOMAIN s = 1 .. Len(s) /\ DOMAIN r = 1 .. Len(s) - 1 /\ Len(s) \in Nat \ {0}
      /\ Head(s) = s[1] /\ \A i \in 1 .. Len(s) - 1 : r[i] = s[i + 1]
  OBVIOUS
<1>2. r \in Seq(S) /\ Len(s) = Len(r) + 1 /\ Head(s) \in S
  OBVIOUS
<1>3. ASSUME NEW y PROVE y \in ToSet(s) <=> y \in ToSet(r) \cup {Head(s)}
  <2>1. ASSUME y \in ToSet(s) PROVE y \in ToSet(r) \cup {Head(s)}
    <3>1. PICK i \in 1 .. Len(s) : s[i] = y
      BY <1>1, <2>1 DEF ToSet
    <3>2. i = 1 \/ (i - 1 \in 1 .. Len(s) - 1 /\ i - 1 + 1 = i)
      BY <1>1
    <3>3. CASE i = 1
      BY <1>1, <3>1, <3>3
    <3>4. CASE i # 1
      BY <1>1, <3>1, <3>2, <3>4 DEF ToSet
    <3> QED
      BY <3>3, <3>4
  <2>2. ASSUME y \in ToSet(r) PROVE y \in ToSet(s)
    <3>1. PICK i \in 1 .. Len(s) - 1 : r[i] = y
      BY <1>1, <2>2 DEF ToSet
    <3>2. i + 1 \in 1 .. Len(s) /\ s[i + 1] = y
      BY <1>1, <3>1
    <3> QED
      BY <1>1, <3>2 DEF ToSet
  <2>3. Head(s) \in ToSet(s)
    BY <1>1 DEF ToSet
  <2> QED
    BY <2>1, <2>2, <2>3
<1>4. ASSUME Asc(s) PROVE Asc(r) /\ Below({Head(s)}, ToSet(r))
  <2>1. ASSUME NEW m \in 1 .. Len(s) - 1, NEW n \in 1 .. Len(s) - 1, m < n PROVE r[m] < r[n]
    <3>1. m + 1 \in 1 .. Len(s) /\ n + 1 \in 1 .. Len(s) /\ m + 1 < n + 1
      BY <1>1, <2>1
    <3> QED
      BY <1>1, <1>4, <3>1 DEF Asc
  <2>2. ASSUME NEW n \in 1 .. Len(s) - 1 PROVE s[1] < r[n]
    <3>1. 1 \in 1 .. Len(s) /\ n + 1 \in 1 .. Len(s) /\ 1 < n + 1
      BY <1>1
    <3> QED
      BY <1>1, <1>4, <3>1 DEF Asc
  <2> QED
    BY <1>1, <2>1, <2>2 DEF Asc, Below, ToSet
<1> QED
  BY <1>2, <1>3, <1>4

\* An empty sequence, and one of one entry.
LEMMA ShortFacts ==
  /\ ToSet(<< >>) = {} /\ Asc(<< >>)
  /\ \A S, x : x \in S => <<x>> \in Seq(S)
  /\ \A x : ToSet(<<x>>) = {x} /\ Asc(<<x>>) /\ Len(<<x>>) = 1
<1>1. ToSet(<< >>) = {} /\ Asc(<< >>)
  BY DEF ToSet, Asc
<1>2. ASSUME NEW x PROVE DOMAIN <<x>> = {1} /\ <<x>>[1] = x /\ Len(<<x>>) = 1
  OBVIOUS
<1>3. ASSUME NEW x PROVE ToSet(<<x>>) = {x} /\ Asc(<<x>>) /\ Len(<<x>>) = 1
  BY <1>2 DEF ToSet, Asc
<1> QED
  BY <1>1, <1>3

\* One entry, and others.
LEMMA FirstFacts ==
  ASSUME NEW S \in SUBSET Nat, NEW x \in S, NEW r \in Seq(S), NEW t, Joins(t, <<x>>, r)
  PROVE  /\ t \in Seq(S) /\ Len(t) = 1 + Len(r) /\ ToSet(t) = {x} \cup ToSet(r)
         /\ Asc(r) /\ Below({x}, ToSet(r)) => Asc(t)
<1>1. PICK a : a = <<x>>
  OBVIOUS
<1>2. a \in Seq(S) /\ ToSet(a) = {x} /\ Asc(a) /\ Len(a) = 1 /\ Joins(t, a, r)
  BY <1>1, ShortFacts
<1>3. /\ t \in Seq(S) /\ Len(t) = Len(a) + Len(r) /\ ToSet(t) = ToSet(a) \cup ToSet(r)
      /\ Asc(a) /\ Asc(r) /\ Below(ToSet(a), ToSet(r)) => Asc(t)
  BY <1>2, JoinFacts
<1> QED
  BY <1>2, <1>3

\* The ascending sequence of a set.
LEMMA AscendingFacts ==
  ASSUME NEW S \in SUBSET Nat, IsFiniteSet(S), NEW s \in Ascending(S)
  PROVE  s \in Seq(S) /\ Len(s) = Cardinality(S) /\ ToSet(s) = S /\ Asc(s)
<1>1. Cardinality(S) \in Nat
  BY FS_CardinalityType
<1>2. s \in [1 .. Cardinality(S) -> S] /\ ToSet(s) = S /\ Asc(s)
  BY DEF Ascending, Asc
<1> QED
  BY <1>1, <1>2

-----------------------------------------------------------------------------
(* The kernel. *)

\* The URBs the kernel has are some of them.
LEMMA QueuedFacts ==
  ASSUME TypeInv
  PROVE  /\ N \in Nat /\ DOMAIN urbs = 1 .. N /\ \A i \in 1 .. N : urbs[i] \in Urb
         /\ Queued \in SUBSET (1 .. N) /\ Queued \in SUBSET Nat
         /\ \A S \in SUBSET (1 .. N) : IsFiniteSet(S) /\ Cardinality(S) \in Nat /\ (Cardinality(S) = 0 <=> S = {})
         /\ \A i \in Queued : Cardinality(Queued \ {i}) = Cardinality(Queued) - 1
<1>1. N \in Nat /\ DOMAIN urbs = 1 .. N /\ \A i \in 1 .. N : urbs[i] \in Urb
  BY DEF TypeInv, N
<1>2. Queued \in SUBSET (1 .. N) /\ Queued \in SUBSET Nat
  BY <1>1 DEF Queued
<1>3. ASSUME NEW S \in SUBSET (1 .. N)
      PROVE  IsFiniteSet(S) /\ Cardinality(S) \in Nat /\ (Cardinality(S) = 0 <=> S = {})
  <2>1. IsFiniteSet(1 .. N)
    BY <1>1, FS_Interval
  <2>2. IsFiniteSet(S)
    BY <2>1, FS_Subset
  <2> QED
    BY <2>2, FS_CardinalityType, FS_EmptySet
<1>4. ASSUME NEW i \in Queued PROVE Cardinality(Queued \ {i}) = Cardinality(Queued) - 1
  BY <1>2, <1>3, FS_RemoveElement
<1> QED
  BY <1>1, <1>2, <1>3, <1>4

\* What the kernel and the device do to the URBs: those it has come back, none is lost.
Kept ==
  /\ \A i \in 1 .. N : urbs[i].at = None => urbs'[i].at = None
  /\ (\A i \in 1 .. N : urbs[i].at = "done" => i \in ToSet(done))
       => \A i \in 1 .. N : urbs'[i].at = "done" => i \in ToSet(done')
  /\ ToSet(done) \cap Queued = {} => ToSet(done') \cap Queued' = {}
Counted == Cardinality(Queued') + Len(done') = Cardinality(Queued) + Len(done)
Moves ==
  /\ urbs' \in Seq(Urb) /\ N' = N /\ done' \in Seq(1 .. N) /\ sent' \in Nat /\ refuses' \in BOOLEAN
  /\ Queued' \subseteq Queued /\ ToSet(done') \subseteq ToSet(done) \cup Queued
  /\ Kept /\ Counted
InTurn == Asc(done) /\ Below(ToSet(done), Queued) => Asc(done') /\ Below(ToSet(done'), Queued')

\* Some URBs come back.
LEMMA BackFacts ==
  ASSUME TypeInv, NEW B \in SUBSET Queued, NEW s \in Seq(B), ToSet(s) = B, Len(s) = Cardinality(B),
         Cardinality(Queued \ B) = Cardinality(Queued) - Cardinality(B),
         NEW u \in [1 .. N -> Urb], urbs' = u, Joins(done', done, s),
         \A j \in 1 .. N : u[j].at = IF j \in B THEN "done" ELSE urbs[j].at
  PROVE  /\ urbs' \in Seq(Urb) /\ N' = N /\ done' \in Seq(1 .. N)
         /\ Queued' = Queued \ B /\ ToSet(done') = ToSet(done) \cup B
         /\ Kept /\ Counted
         /\ Asc(s) /\ Below(B, Queued \ B) => InTurn
<1>1. N \in Nat /\ done \in Seq(1 .. N) /\ s \in Seq(1 .. N) /\ 1 .. N \in SUBSET Nat /\ Queued \in SUBSET (1 .. N)
  <2>1. N \in Nat /\ Queued \in SUBSET (1 .. N) /\ done \in Seq(1 .. N)
    BY QueuedFacts DEF TypeInv
  <2>2. B \subseteq 1 .. N
    BY <2>1
  <2>3. s \in Seq(1 .. N)
    BY <2>2, SeqOfSubset
  <2>4. 1 .. N \in SUBSET Nat
    BY <2>1
  <2> QED
    BY <2>1, <2>3, <2>4
<1>2. urbs' \in Seq(Urb) /\ N' = N
  <2>1. N \in Nat
    BY <1>1
  <2>2. u \in Seq(Urb)
    BY <2>1
  <2>3. DOMAIN u = 1 .. N
    OBVIOUS
  <2>4. Len(u) = N
    BY <2>1, <2>2, <2>3
  <2> QED
    BY <2>2, <2>4 DEF N
<1>3. /\ done' \in Seq(1 .. N) /\ Len(done') = Len(done) + Len(s) /\ ToSet(done') = ToSet(done) \cup B
      /\ Asc(done) /\ Asc(s) /\ Below(ToSet(done), B) => Asc(done')
  <2>1. ToSet(s) = B
    OBVIOUS
  <2>2. PICK S : S = 1 .. N
    OBVIOUS
  <2>3. S \in SUBSET Nat /\ done \in Seq(S) /\ s \in Seq(S) /\ Joins(done', done, s)
    BY <1>1, <2>2
  <2>4. /\ done' \in Seq(S) /\ Len(done') = Len(done) + Len(s) /\ ToSet(done') = ToSet(done) \cup ToSet(s)
        /\ Asc(done) /\ Asc(s) /\ Below(ToSet(done), ToSet(s)) => Asc(done')
    BY <2>3, JoinFacts
  <2> QED
    BY <2>1, <2>2, <2>4
<1>4. Queued' = Queued \ B
  <2>1. Queued' = {i \in 1 .. N : u[i].at = "queued"}
    BY <1>2 DEF Queued
  <2> QED
    BY <2>1 DEF Queued
<1>5. Kept
  <2>1. \A j \in 1 .. N : urbs'[j].at = IF j \in B THEN "done" ELSE urbs[j].at
    OBVIOUS
  <2>2. B \subseteq Queued /\ \A j \in Queued : urbs[j].at = "queued"
    BY DEF Queued
  <2>3. \A j \in 1 .. N : urbs[j].at = None => urbs'[j].at = None
    BY <2>1, <2>2 DEF None
  <2>4. ASSUME \A j \in 1 .. N : urbs[j].at = "done" => j \in ToSet(done)
        PROVE  \A j \in 1 .. N : urbs'[j].at = "done" => j \in ToSet(done')
    BY <1>3, <2>1, <2>4
  <2>5. ToSet(done) \cap Queued = {} => ToSet(done') \cap Queued' = {}
    BY <1>3, <1>4
  <2> QED
    BY <2>3, <2>4, <2>5 DEF Kept
<1>6. Counted
  <2>1. Cardinality(Queued) \in Nat /\ Cardinality(B) \in Nat /\ Len(done) \in Nat
    BY <1>1, QueuedFacts
  <2> QED
    BY <1>3, <1>4, <2>1 DEF Counted
<1>7. ASSUME Asc(s), Below(B, Queued \ B) PROVE InTurn
  <2> SUFFICES ASSUME Asc(done), Below(ToSet(done), Queued) PROVE Asc(done') /\ Below(ToSet(done'), Queued')
    BY DEF InTurn
  <2>1. Below(ToSet(done), B)
    BY DEF Below
  <2>2. Below(ToSet(done) \cup B, Queued \ B)
    BY <1>7 DEF Below
  <2> QED
    BY <1>3, <1>4, <1>7, <2>1, <2>2
<1> QED
  BY <1>2, <1>3, <1>4, <1>5, <1>6, <1>7

\* What a step of the kernel leaves of a URB.
Left(j, at, status, from, actual) ==
  /\ urbs'[j].at = at /\ urbs'[j].status = status /\ urbs'[j].from = from /\ urbs'[j].actual = actual
  /\ urbs'[j].room = urbs[j].room

\* URB i ends with n units, and with it others, in the order of rest.
EndsAs(i, status, n) ==
  N' = N /\ \E others \in SUBSET (Queued \ {i}) : \E rest \in Seq(others) :
    /\ others = IF status \in Faults \cup {"short"} /\ Continues(kind) THEN Queued \ {i} ELSE {}
    /\ ToSet(rest) = others /\ Joins(done', done, <<i>> \o rest)
    /\ Queued' = Queued \ ({i} \cup others) /\ ToSet(done') = ToSet(done) \cup {i} \cup others /\ sent' = sent + n
    /\ Left(i, "done", status, sent, n)
    /\ \A j \in others : Left(j, "done", "unlinked", sent + n, urbs[j].actual)
    /\ \A j \in 1 .. N : j # i /\ j \notin others => urbs'[j] = urbs[j]

\* A URB ends, alone or with those that follow it.
LEMMA EndFacts ==
  ASSUME TypeInv, NEW i \in Queued, NEW status \in Statuses, NEW n \in Nat, End(i, status, n)
  PROVE  /\ Moves
         /\ (i = Min(Queued) => InTurn)
         /\ refuses' = (refuses \/ (status \in Faults \cup {"short"} /\ Continues(kind)))
         /\ status \in Faults \cup {"short"} /\ Continues(kind) => Queued' = {}
         /\ urbs'[i].status = status
         /\ \A j \in 1 .. N : j # i => urbs'[j].status \in {urbs[j].status, "unlinked"}
         /\ EndsAs(i, status, n)
<1>1. PICK bad \in BOOLEAN : bad = (status \in Faults \cup {"short"} /\ Continues(kind))
  OBVIOUS
<1>2. PICK others : others = IF bad THEN Queued \ {i} ELSE {}
  OBVIOUS
<1>3. PICK rest \in Ascending(others) : done' = done \o <<i>> \o rest
  BY <1>1, <1>2 DEF End
<1>4. urbs' = [j \in 1 .. N |->
                 IF j = i THEN [urbs[j] EXCEPT !.at = "done", !.status = status, !.from = sent, !.actual = n]
                 ELSE IF j \in others THEN [urbs[j] EXCEPT !.at = "done", !.status = "unlinked", !.from = sent + n]
                 ELSE urbs[j]]
  BY <1>1, <1>2 DEF End
<1>5. refuses' = (refuses \/ bad) /\ sent' = sent + n
  BY <1>1 DEF End
<1>6. /\ N \in Nat /\ Queued \in SUBSET (1 .. N) /\ Queued \in SUBSET Nat /\ i \in 1 .. N
      /\ \A j \in 1 .. N : urbs[j] \in Urb
  BY QueuedFacts
<1>7. others \subseteq Queued \ {i} /\ IsFiniteSet(others) /\ Cardinality(others) \in Nat
  BY <1>2, <1>6, QueuedFacts
<1>8. rest \in Seq(others) /\ Len(rest) = Cardinality(others) /\ ToSet(rest) = others /\ Asc(rest)
  BY <1>6, <1>7, AscendingFacts
<1>9. PICK B : B = {i} \cup others
  OBVIOUS
<1>10. PICK s : s = <<i>> \o rest
  OBVIOUS
<1>11. B \in SUBSET Queued /\ B \in SUBSET Nat
  BY <1>6, <1>7, <1>9
<1>12. /\ s \in Seq(B) /\ Len(s) = 1 + Cardinality(others) /\ ToSet(s) = B
       /\ Below({i}, others) => Asc(s)
  <2>1. i \in B /\ others \subseteq B /\ B \in SUBSET Nat
    BY <1>9, <1>11
  <2>2. rest \in Seq(B)
    BY <1>8, <2>1, SeqOfSubset
  <2>3. /\ s \in Seq(B) /\ Len(s) = 1 + Len(rest) /\ ToSet(s) = {i} \cup ToSet(rest)
        /\ Asc(rest) /\ Below({i}, ToSet(rest)) => Asc(s)
    <3>1. Joins(s, <<i>>, rest)
      BY <1>10 DEF Joins
    <3> QED
      BY <2>1, <2>2, <3>1, FirstFacts
  <2> QED
    BY <1>8, <1>9, <2>3
<1>13. Cardinality(B) = 1 + Cardinality(others) /\ Cardinality(Queued \ B) = Cardinality(Queued) - Cardinality(B)
  <2>1. Cardinality(B) = Cardinality(others) + 1
    <3>1. i \notin others /\ B = others \cup {i} /\ IsFiniteSet(others)
      BY <1>7, <1>9
    <3> QED
      BY <3>1, FS_AddElement
  <2>2. ASSUME bad PROVE Cardinality(Queued \ B) = Cardinality(Queued) - Cardinality(B)
    <3>1. B = Queued /\ Queued \ B = {}
      BY <1>2, <1>9, <2>2
    <3>2. Cardinality(Queued) \in Nat
      BY <1>6, QueuedFacts
    <3>3. Cardinality(Queued \ B) = 0
      BY <3>1, FS_EmptySet
    <3> QED
      BY <3>1, <3>2, <3>3
  <2>3. ASSUME ~bad PROVE Cardinality(Queued \ B) = Cardinality(Queued) - Cardinality(B)
    <3>1. others = {} /\ B = {i} /\ Queued \ B = Queued \ {i}
      BY <1>2, <1>9, <2>3
    <3>2. Cardinality(B) = 1 /\ Cardinality(others) = 0
      BY <2>1, <3>1, FS_EmptySet
    <3>3. Cardinality(Queued \ {i}) = Cardinality(Queued) - 1
      BY QueuedFacts
    <3> QED
      BY <3>1, <3>2, <3>3
  <2>4. Cardinality(Queued \ B) = Cardinality(Queued) - Cardinality(B)
    BY <2>2, <2>3
  <2> QED
    BY <1>7, <2>1, <2>4
<1>14. Joins(done', done, s)
  <2>1. done \in Seq(1 .. N) /\ <<i>> \in Seq(1 .. N) /\ rest \in Seq(1 .. N)
    <3>1. done \in Seq(1 .. N)
      BY DEF TypeInv
    <3>2. <<i>> \in Seq(1 .. N)
      BY <1>6
    <3>3. others \subseteq 1 .. N
      BY <1>6, <1>7
    <3>4. rest \in Seq(1 .. N)
      BY <1>8, <3>3, SeqOfSubset
    <3> QED
      BY <3>1, <3>2, <3>4
  <2> QED
    BY <1>3, <1>10, <2>1, ConcatAssociative DEF Joins
<1>15. sent \in Nat /\ sent + n \in Nat
  BY DEF TypeInv
<1>16. PICK u : u = urbs'
  OBVIOUS
<1>17. ASSUME NEW j \in 1 .. N
       PROVE  /\ u[j] \in Urb /\ u[j].at = (IF j \in B THEN "done" ELSE urbs[j].at)
              /\ u[j].status = IF j = i THEN status ELSE IF j \in others THEN "unlinked" ELSE urbs[j].status
              /\ j = i => u[j].from = sent /\ u[j].actual = n
              /\ j \in others => u[j].from = sent + n /\ u[j].actual = urbs[j].actual
              /\ u[j].room = urbs[j].room
              /\ j # i /\ j \notin others => u[j] = urbs[j]
  <2>1. urbs[j] \in Urb
    BY <1>6
  <2>2. CASE j = i
    <3>1. u[j] = [urbs[j] EXCEPT !.at = "done", !.status = status, !.from = sent, !.actual = n]
      BY <1>4, <1>16, <2>2
    <3> QED
      BY <1>7, <1>9, <1>15, <2>1, <2>2, <3>1 DEF Urb
  <2>3. CASE j # i /\ j \in others
    <3>1. u[j] = [urbs[j] EXCEPT !.at = "done", !.status = "unlinked", !.from = sent + n]
      BY <1>4, <1>16, <2>3
    <3> QED
      BY <1>9, <1>15, <2>1, <2>3, <3>1 DEF Urb, Statuses
  <2>4. CASE j # i /\ j \notin others
    BY <1>4, <1>9, <1>16, <2>1, <2>4
  <2> QED
    BY <2>2, <2>3, <2>4
<1>18. u \in [1 .. N -> Urb]
  BY <1>4, <1>16, <1>17
<1>19. /\ urbs' \in Seq(Urb) /\ N' = N /\ done' \in Seq(1 .. N)
       /\ Queued' = Queued \ B /\ ToSet(done') = ToSet(done) \cup B
       /\ Kept /\ Counted
       /\ Asc(s) /\ Below(B, Queued \ B) => InTurn
  <2>1. B \in SUBSET Queued /\ s \in Seq(B) /\ ToSet(s) = B /\ Len(s) = Cardinality(B)
    BY <1>11, <1>12, <1>13
  <2>2. Cardinality(Queued \ B) = Cardinality(Queued) - Cardinality(B)
    BY <1>13
  <2>3. u \in [1 .. N -> Urb] /\ urbs' = u /\ \A j \in 1 .. N : u[j].at = IF j \in B THEN "done" ELSE urbs[j].at
    BY <1>16, <1>17, <1>18
  <2> QED
    BY <1>14, <2>1, <2>2, <2>3, BackFacts
<1>20. ASSUME i = Min(Queued) PROVE InTurn
  <2>1. \A j \in Queued : i <= j
    BY <1>6, <1>20, MinIsLeast
  <2>2. \A j \in Queued \ {i} : i < j
    BY <1>6, <2>1
  <2>3. Below({i}, others)
    BY <1>7, <2>2 DEF Below
  <2>4. Below(B, Queued \ B)
    BY <1>2, <1>9, <2>2 DEF Below
  <2> QED
    BY <1>12, <1>19, <2>3, <2>4
<1> QED
  <2>1. sent' \in Nat /\ refuses' \in BOOLEAN
    BY <1>1, <1>5 DEF TypeInv
  <2>2. Moves
    BY <1>11, <1>19, <2>1 DEF Moves
  <2>3. bad => Queued' = {}
    BY <1>2, <1>9, <1>19
  <2>4. EndsAs(i, status, n)
    <3>1. others = IF status \in Faults \cup {"short"} /\ Continues(kind) THEN Queued \ {i} ELSE {}
      BY <1>1, <1>2
    <3>2. Queued' = Queued \ ({i} \cup others) /\ ToSet(done') = ToSet(done) \cup {i} \cup others /\ sent' = sent + n
      BY <1>5, <1>9, <1>19
    <3>3. Left(i, "done", status, sent, n)
      BY <1>6, <1>9, <1>16, <1>17 DEF Left
    <3>4. ASSUME NEW j \in others PROVE Left(j, "done", "unlinked", sent + n, urbs[j].actual)
      BY <1>6, <1>7, <1>9, <1>16, <1>17 DEF Left
    <3>5. \A j \in 1 .. N : j # i /\ j \notin others => urbs'[j] = urbs[j]
      BY <1>16, <1>17
    <3>6. Joins(done', done, <<i>> \o rest)
      BY <1>10, <1>14
    <3> QED
      BY <1>7, <1>8, <1>19, <3>1, <3>2, <3>3, <3>4, <3>5, <3>6 DEF EndsAs
  <2> QED
    BY <1>1, <1>5, <1>6, <1>16, <1>17, <1>20, <2>2, <2>3, <2>4

\* The least of the URBs the kernel has.
LEMMA LeastQueued ==
  ASSUME TypeInv, Queued # {}
  PROVE  Min(Queued) \in Queued
BY QueuedFacts, MinIsLeast

\* How a URB ends says what has become of the others.
LEMMA EndCause ==
  ASSUME TypeInv, CauseInv, NEW i \in Queued, NEW status \in Statuses, NEW n \in Nat, End(i, status, n),
         status # "shutdown", status = "overflow" => i = N,
         status = "stall" /\ kind.type \in {"bulk", "interrupt"} => "stall" \in kind.faults,
         kind' = kind, plugged' = plugged
  PROVE  CauseInv'
<1>1. PICK bad \in BOOLEAN : bad = (status \in Faults \cup {"short"} /\ Continues(kind))
  OBVIOUS
<1>2. /\ N' = N /\ refuses' = (refuses \/ bad) /\ (bad => Queued' = {})
      /\ urbs'[i].status = status
      /\ \A j \in 1 .. N : j # i => urbs'[j].status \in {urbs[j].status, "unlinked"}
  BY <1>1, EndFacts DEF Moves
<1>3. ~refuses /\ plugged
  BY DEF CauseInv
<1>4. refuses' \/ ~plugged' => Queued' = {}
  BY <1>2, <1>3
<1>5. N \in Nat /\ i \in 1 .. N
  BY QueuedFacts
<1>6. ASSUME NEW j \in 1 .. N
      PROVE  /\ urbs'[j].status # "shutdown"
             /\ urbs'[j].status = "overflow" => j = N
             /\ urbs'[j].status = "stall" /\ kind.type \in {"bulk", "interrupt"} => N = 1 \/ refuses'
  <2>1. CASE j = i
    <3>1. urbs'[j].status # "shutdown" /\ (urbs'[j].status = "overflow" => j = N)
      BY <1>2, <2>1
    <3>2. ASSUME urbs'[j].status = "stall", kind.type \in {"bulk", "interrupt"} PROVE N = 1 \/ refuses'
      <4>1. status = "stall" /\ "stall" \in kind.faults
        BY <1>2, <2>1, <3>2
      <4>2. CASE Continues(kind)
        BY <1>1, <1>2, <4>1, <4>2 DEF Faults
      <4>3. CASE ~Continues(kind)
        <5>1. N <= 1
          BY <3>2, <4>1, <4>3 DEF CauseInv
        <5> QED
          BY <1>5, <5>1
      <4> QED
        BY <4>2, <4>3
    <3> QED
      BY <3>1, <3>2
  <2>2. CASE j # i
    <3>1. urbs'[j].status = urbs[j].status \/ urbs'[j].status = "unlinked"
      BY <1>2, <2>2
    <3>2. /\ urbs[j].status # "shutdown"
          /\ urbs[j].status = "overflow" => j = N
          /\ urbs[j].status = "stall" /\ kind.type \in {"bulk", "interrupt"} => N = 1 \/ refuses
      BY <1>3 DEF CauseInv
    <3>3. CASE urbs'[j].status = urbs[j].status
      BY <1>2, <3>2, <3>3
    <3>4. CASE urbs'[j].status = "unlinked"
      BY <3>4
    <3> QED
      BY <3>1, <3>3, <3>4
  <2> QED
    BY <2>1, <2>2
<1>7. /\ kind'.type = "control" => N' <= 1
      /\ kind'.type \in {"bulk", "interrupt"} /\ "stall" \in kind'.faults /\ ~Continues(kind') => N' <= 1
  BY <1>2 DEF CauseInv
<1> QED
  BY <1>2, <1>3, <1>4, <1>6, <1>7 DEF CauseInv

\* The device serves a URB.
LEMMA ServeFacts ==
  ASSUME TypeInv, CauseInv, Serve
  PROVE  Moves /\ InTurn /\ CauseInv'
<1>1. PICK i : i = Min(Queued)
  OBVIOUS
<1>2. i \in Queued
  BY <1>1, LeastQueued DEF Serve
<1>3. PICK n \in (IF kind.out \/ kind.type = "iso" THEN urbs[i].room ELSE 0) .. urbs[i].room :
        End(i, IF n < urbs[i].room /\ Continues(kind) /\ ~kind.out /\ i < N THEN "short" ELSE "ok", n)
  BY <1>1 DEF Serve
<1>4. n \in Nat
  <2>1. urbs[i].room \in Nat
    BY <1>2, QueuedFacts DEF Urb
  <2> QED
    BY <1>3, <2>1
<1>5. PICK status \in {"ok", "short"} : End(i, status, n)
  BY <1>3
<1>6. status \in Statuses /\ status \notin {"shutdown", "overflow", "stall"} /\ kind' = kind /\ plugged' = plugged
  BY <1>5 DEF Statuses, Serve
<1>7. Moves /\ InTurn
  BY <1>1, <1>2, <1>4, <1>5, <1>6, EndFacts
<1> QED
  BY <1>2, <1>4, <1>5, <1>6, <1>7, EndCause

\* Or fails to.
LEMMA FailFacts ==
  ASSUME UsbUrbsAssumption, TypeInv, CauseInv, Fail
  PROVE  Moves /\ InTurn /\ CauseInv'
<1>1. PICK i : i = Min(Queued)
  OBVIOUS
<1>2. i \in Queued
  BY <1>1, LeastQueued DEF Fail
<1>3. PICK f \in kind.faults :
        IF f = "overflow" THEN i = N /\ End(i, f, urbs[i].room)
        ELSE \E n \in 0 .. Max({urbs[i].room - 1, 0}) : End(i, f, n)
  BY <1>1 DEF Fail
<1>4. PICK n \in Nat : End(i, f, n) /\ (f = "overflow" => i = N)
  <2>1. urbs[i].room \in Nat
    BY <1>2, QueuedFacts DEF Urb
  <2>2. CASE f = "overflow"
    BY <1>3, <2>1, <2>2
  <2>3. CASE f # "overflow"
    <3>1. PICK n \in 0 .. Max({urbs[i].room - 1, 0}) : End(i, f, n)
      BY <1>3, <2>3
    <3>2. n \in Nat
      BY <3>1
    <3> QED
      BY <2>3, <3>1, <3>2
  <2> QED
    BY <2>2, <2>3
<1>5. f \in Faults
  BY <1>3 DEF UsbUrbsAssumption, TypeInv, Kind
<1>6. f \in Statuses /\ f # "shutdown" /\ kind' = kind /\ plugged' = plugged
  BY <1>5 DEF Faults, Statuses, Fail
<1>7. Moves /\ InTurn
  BY <1>1, <1>2, <1>4, <1>6, EndFacts
<1> QED
  BY <1>2, <1>3, <1>4, <1>6, <1>7, EndCause

\* A URB is discarded, if the kernel still has it.
LEMMA DiscardFacts ==
  ASSUME TypeInv, CauseInv, DiscardNext
  PROVE  Moves /\ (Queued = {} => InTurn) /\ CauseInv'
<1>1. CASE work.at \in Queued
  <2>1. PICK i \in Queued : i = work.at
    BY <1>1
  <2>2. PICK n \in 0 .. (IF i = Min(Queued) THEN Max({urbs[i].room - 1, 0}) ELSE 0) : End(i, "killed", n)
    BY <2>1 DEF DiscardNext, Discard
  <2>3. n \in Nat /\ "killed" \in Statuses /\ kind' = kind /\ plugged' = plugged
    BY <2>2 DEF Statuses, DiscardNext
  <2> QED
    BY <1>1, <2>2, <2>3, EndFacts, EndCause
<1>2. CASE work.at \notin Queued
  <2>1. urbs' = urbs /\ done' = done /\ refuses' = refuses /\ sent' = sent /\ kind' = kind /\ plugged' = plugged
    BY <1>2 DEF DiscardNext, Discard, kernel
  <2>2. N' = N /\ Queued' = Queued
    BY <2>1 DEF N, Queued
  <2>3. Moves /\ InTurn
    BY <2>1, <2>2 DEF Moves, InTurn, Kept, Counted, TypeInv
  <2> QED
    BY <2>1, <2>2, <2>3 DEF CauseInv, Continues
<1> QED
  BY <1>1, <1>2

\* All end, in the order of rest.
Leaves ==
  N' = N /\ \E rest \in Seq(Queued) :
    /\ ToSet(rest) = Queued /\ Joins(done', done, rest)
    /\ Queued' = {} /\ ToSet(done') = ToSet(done) \cup Queued /\ sent' = sent
    /\ \A j \in Queued : Left(j, "done", "shutdown", sent, urbs[j].actual)
    /\ \A j \in 1 .. N : j \notin Queued => urbs'[j] = urbs[j]

\* The device leaves, and all come back.
LEMMA UnplugFacts ==
  ASSUME TypeInv, CauseInv, Unplug
  PROVE  Moves /\ InTurn /\ CauseInv' /\ Leaves
<1>1. PICK rest \in Ascending(Queued) : done' = done \o rest
  BY DEF Unplug
<1>2. PICK u : u = urbs'
  OBVIOUS
<1>3. /\ N \in Nat /\ Queued \in SUBSET (1 .. N) /\ Queued \in SUBSET Nat /\ IsFiniteSet(Queued)
      /\ Cardinality(Queued) \in Nat /\ Cardinality(Queued \ Queued) = 0 /\ \A i \in 1 .. N : urbs[i] \in Urb
  <2>1. Queued \ Queued = {}
    OBVIOUS
  <2> QED
    BY <2>1, QueuedFacts, FS_EmptySet
<1>4. rest \in Seq(Queued) /\ Len(rest) = Cardinality(Queued) /\ ToSet(rest) = Queued /\ Asc(rest)
  BY <1>1, <1>3, AscendingFacts
<1>5. u = [i \in 1 .. N |-> IF i \in Queued THEN [urbs[i] EXCEPT !.at = "done", !.status = "shutdown", !.from = sent] ELSE urbs[i]]
  BY <1>2 DEF Unplug
<1>6. ASSUME NEW j \in 1 .. N
      PROVE  /\ u[j] \in Urb /\ u[j].at = (IF j \in Queued THEN "done" ELSE urbs[j].at)
             /\ u[j].status = (IF j \in Queued THEN "shutdown" ELSE urbs[j].status)
             /\ j \in Queued => u[j].from = sent /\ u[j].actual = urbs[j].actual
             /\ u[j].room = urbs[j].room
             /\ j \notin Queued => u[j] = urbs[j]
  <2>1. urbs[j] \in Urb
    BY <1>3
  <2>2. CASE j \in Queued
    <3>1. u[j] = [urbs[j] EXCEPT !.at = "done", !.status = "shutdown", !.from = sent]
      BY <1>5, <2>2
    <3>2. sent \in Nat
      BY DEF TypeInv
    <3> QED
      BY <2>1, <2>2, <3>1, <3>2 DEF Urb, Statuses
  <2>3. CASE j \notin Queued
    BY <1>5, <2>1, <2>3
  <2> QED
    BY <2>2, <2>3
<1>7. u \in [1 .. N -> Urb]
  BY <1>5, <1>6
<1>8. /\ urbs' \in Seq(Urb) /\ N' = N /\ done' \in Seq(1 .. N)
      /\ Queued' = Queued \ Queued /\ ToSet(done') = ToSet(done) \cup Queued
      /\ Kept /\ Counted
      /\ Asc(rest) /\ Below(Queued, Queued \ Queued) => InTurn
  <2>1. PICK B \in SUBSET Queued : B = Queued
    OBVIOUS
  <2>2. rest \in Seq(B) /\ ToSet(rest) = B /\ Len(rest) = Cardinality(B) /\ Joins(done', done, rest)
    BY <1>1, <1>4, <2>1 DEF Joins
  <2>3. Cardinality(Queued \ B) = Cardinality(Queued) - Cardinality(B)
    BY <1>3, <2>1
  <2>4. u \in [1 .. N -> Urb] /\ urbs' = u /\ \A j \in 1 .. N : u[j].at = IF j \in B THEN "done" ELSE urbs[j].at
    BY <1>2, <1>6, <1>7, <2>1
  <2>5. /\ urbs' \in Seq(Urb) /\ N' = N /\ done' \in Seq(1 .. N)
        /\ Queued' = Queued \ B /\ ToSet(done') = ToSet(done) \cup B
        /\ Kept /\ Counted
        /\ Asc(rest) /\ Below(B, Queued \ B) => InTurn
    BY <2>2, <2>3, <2>4, BackFacts
  <2> QED
    BY <2>1, <2>5
<1>9. InTurn
  BY <1>4, <1>8 DEF Below
<1>10. refuses' = refuses /\ sent' = sent /\ kind' = kind /\ ~plugged'
  BY DEF Unplug
<1>11. Moves
  BY <1>8, <1>10 DEF Moves, TypeInv
<1>12. CauseInv'
  <2>1. Queued' = {}
    BY <1>8
  <2>2. ASSUME NEW j \in 1 .. N
        PROVE  /\ urbs'[j].status = "overflow" => j = N
               /\ urbs'[j].status = "stall" /\ kind.type \in {"bulk", "interrupt"} => N = 1 \/ refuses
    BY <1>2, <1>6 DEF CauseInv
  <2>3. /\ kind.type = "control" => N <= 1
        /\ kind.type \in {"bulk", "interrupt"} /\ "stall" \in kind.faults /\ ~Continues(kind) => N <= 1
    BY DEF CauseInv
  <2> QED
    BY <1>8, <1>10, <2>1, <2>2, <2>3 DEF CauseInv
<1>13. Leaves
  <2>1. \A j \in Queued : Left(j, "done", "shutdown", sent, urbs[j].actual)
    BY <1>2, <1>3, <1>6 DEF Left
  <2>2. \A j \in 1 .. N : j \notin Queued => urbs'[j] = urbs[j]
    BY <1>2, <1>6
  <2>3. Queued' = {} /\ ToSet(done') = ToSet(done) \cup Queued /\ sent' = sent
    BY <1>8, <1>10
  <2> QED
    BY <1>1, <1>4, <1>8, <2>1, <2>2, <2>3 DEF Leaves, Joins
<1> QED
  BY <1>9, <1>11, <1>12, <1>13

-----------------------------------------------------------------------------
(* The invariant. *)

\* A sequence without entries.
LEMMA EmptyFacts ==
  ASSUME NEW S, NEW s \in Seq(S)
  PROVE  /\ Len(s) \in Nat /\ ToSet(s) \subseteq S
         /\ (Len(s) = 0 => s = << >>) /\ (s = << >> => Len(s) = 0) /\ (ToSet(s) = {} => s = << >>)
<1>1. Len(s) \in Nat /\ DOMAIN s = 1 .. Len(s) /\ \A i \in 1 .. Len(s) : s[i] \in S
  OBVIOUS
<1>2. ToSet(s) \subseteq S
  BY <1>1 DEF ToSet
<1>3. (Len(s) = 0 => s = << >>) /\ (s = << >> => Len(s) = 0)
  OBVIOUS
<1>4. ASSUME ToSet(s) = {} PROVE s = << >>
  <2>1. Len(s) # 0 => s[1] \in ToSet(s)
    BY <1>1 DEF ToSet
  <2> QED
    BY <1>3, <1>4, <2>1
<1> QED
  BY <1>1, <1>2, <1>3, <1>4

\* The numbers the invariant counts with.
LEMMA CountFacts ==
  ASSUME TypeInv
  PROVE  /\ N \in Nat /\ Cardinality(Queued) \in Nat /\ (Cardinality(Queued) = 0 <=> Queued = {})
         /\ Len(done) \in Nat /\ ToSet(done) \subseteq 1 .. N
         /\ (Len(done) = 0 <=> done = << >>) /\ (ToSet(done) = {} => done = << >>)
         /\ Cardinality(Handled) = (IF handler.at = "handle" THEN 1 ELSE 0)
<1>1. /\ N \in Nat /\ Cardinality(Queued) \in Nat /\ (Cardinality(Queued) = 0 <=> Queued = {})
  BY QueuedFacts
<1>2. /\ Len(done) \in Nat /\ ToSet(done) \subseteq 1 .. N
      /\ (Len(done) = 0 <=> done = << >>) /\ (ToSet(done) = {} => done = << >>)
  <2>1. done \in Seq(1 .. N)
    BY DEF TypeInv
  <2> QED
    BY <2>1, EmptyFacts
<1>3. Cardinality(Handled) = (IF handler.at = "handle" THEN 1 ELSE 0)
  <2>1. CASE handler.at = "handle"
    <3>1. Handled = {handler.urb}
      BY <2>1 DEF Handled
    <3> QED
      BY <2>1, <3>1, FS_Singleton
  <2>2. CASE handler.at # "handle"
    <3>1. Handled = {}
      BY <2>2 DEF Handled
    <3> QED
      BY <2>2, <3>1, FS_EmptySet
  <2> QED
    BY <2>1, <2>2
<1> QED
  BY <1>1, <1>2, <1>3

\* What only concerns the kernel keeps the invariant.
LEMMA KernelKeeps ==
  ASSUME Inv, Moves, CauseInv', Flying /\ priv.action = "NORMAL" => InTurn,
         kind' = kind, plugged' \in BOOLEAN, priv' = priv, phase' = phase, handler' = handler,
         work' \in Work, work'.who = work.who, work.who = "submit" => work' = work
  PROVE  Inv'
<1>1. TypeInv /\ EndedInv /\ CountInv /\ SubmitInv /\ OrderInv /\ CauseInv
  BY DEF Inv
<1>2. /\ urbs' \in Seq(Urb) /\ N' = N /\ done' \in Seq(1 .. N) /\ sent' \in Nat /\ refuses' \in BOOLEAN
      /\ Queued' \subseteq Queued /\ ToSet(done') \subseteq ToSet(done) \cup Queued
      /\ Kept /\ Counted
  BY DEF Moves
<1>3. TypeInv'
  BY <1>1, <1>2 DEF TypeInv
<1>4. /\ Flying' = Flying /\ Discarding' = Discarding /\ Handled' = Handled /\ Locked' = Locked
      /\ Given' = Given
  <2>1. Flying' = Flying /\ Discarding' = Discarding /\ Handled' = Handled /\ Locked' = Locked
    BY DEF Flying, Discarding, Handled, Locked
  <2>2. Given' = Given
    BY <1>2 DEF Given
  <2> QED
    BY <2>1, <2>2
<1>5. EndedInv'
  <2>1. ASSUME Queued = {}, done = << >> PROVE Queued' = {} /\ done' = << >>
    <3>1. Queued' = {}
      BY <1>2, <2>1
    <3>2. ToSet(done') = {}
      BY <1>2, <2>1, ShortFacts
    <3> QED
      BY <1>2, <3>1, <3>2, EmptyFacts
  <2> QED
    BY <1>1, <1>4, <2>1 DEF EndedInv
<1>6. CountInv'
  BY <1>1, <1>2, <1>4 DEF CountInv, Kept, Counted
<1>7. SubmitInv'
  <2> SUFFICES ASSUME work'.who = "submit"
               PROVE  /\ work'.at \in 1 .. N' + 1
                      /\ \A i \in work'.at .. N' : urbs'[i].at = None
                      /\ Below(ToSet(done') \cup Handled', {work'.at})
    BY DEF SubmitInv
  <2>1. work' = work /\ work.who = "submit"
    OBVIOUS
  <2>2. work.at \in 1 .. N + 1 /\ \A i \in work.at .. N : urbs[i].at = None
    BY <1>1, <2>1 DEF SubmitInv
  <2>3. Below(ToSet(done) \cup Handled, {work.at})
    BY <1>1, <2>1 DEF SubmitInv
  <2>4. N \in Nat /\ Queued \in SUBSET (1 .. N)
    BY <1>1, QueuedFacts
  <2>5. ASSUME NEW i \in Queued PROVE i < work.at
    <3>1. i \in 1 .. N /\ urbs[i].at = "queued"
      BY <2>4 DEF Queued
    <3>2. i \notin work.at .. N
      BY <2>2, <3>1 DEF None
    <3> QED
      BY <2>2, <2>4, <3>1, <3>2
  <2>6. Below(ToSet(done') \cup Handled, {work.at})
    BY <1>2, <2>3, <2>5 DEF Below
  <2>7. \A i \in work.at .. N : i \in 1 .. N
    BY <2>2, <2>4
  <2>8. \A i \in work.at .. N : urbs'[i].at = None
    BY <1>2, <2>2, <2>7 DEF Kept
  <2>9. work'.at = work.at /\ N' = N /\ Handled' = Handled
    BY <1>2, <1>4, <2>1
  <2> QED
    BY <2>2, <2>6, <2>8, <2>9
<1>8. OrderInv'
  <2> SUFFICES ASSUME Flying, priv.action = "NORMAL"
               PROVE  /\ Asc(done') /\ Below(ToSet(done'), Queued') /\ Below(Handled', ToSet(done') \cup Queued')
                      /\ Discarding' => Queued' = {}
    BY <1>4 DEF OrderInv
  <2>1. /\ Asc(done) /\ Below(ToSet(done), Queued) /\ Below(Handled, ToSet(done) \cup Queued)
        /\ Discarding => Queued = {}
    BY <1>1 DEF OrderInv
  <2>2. Asc(done') /\ Below(ToSet(done'), Queued')
    BY <2>1 DEF InTurn
  <2>3. Below(Handled, ToSet(done') \cup Queued')
    BY <1>2, <2>1 DEF Below
  <2> QED
    BY <1>2, <1>4, <2>1, <2>2, <2>3
<1> QED
  BY <1>3, <1>5, <1>6, <1>7, <1>8 DEF Inv

\* The steps of the kernel and of the device.
LEMMA DeviceKeeps ==
  ASSUME UsbUrbsAssumption, Inv, Serve \/ Fail \/ Unplug \/ DiscardNext
  PROVE  Inv'
<1>1. TypeInv /\ CauseInv /\ OrderInv /\ work \in Work /\ plugged \in BOOLEAN
  BY DEF Inv, TypeInv
<1>2. CASE Serve
  <2>1. Moves /\ InTurn /\ CauseInv'
    BY <1>1, <1>2, ServeFacts
  <2>2. kind' = kind /\ plugged' = plugged /\ priv' = priv /\ phase' = phase /\ handler' = handler /\ work' = work
    BY <1>2 DEF Serve
  <2> QED
    BY <1>1, <2>1, <2>2, KernelKeeps
<1>3. CASE Fail
  <2>1. Moves /\ InTurn /\ CauseInv'
    BY <1>1, <1>3, FailFacts
  <2>2. kind' = kind /\ plugged' = plugged /\ priv' = priv /\ phase' = phase /\ handler' = handler /\ work' = work
    BY <1>3 DEF Fail
  <2> QED
    BY <1>1, <2>1, <2>2, KernelKeeps
<1>4. CASE Unplug
  <2>1. Moves /\ InTurn /\ CauseInv'
    BY <1>1, <1>4, UnplugFacts
  <2>2. kind' = kind /\ plugged' = FALSE /\ priv' = priv /\ phase' = phase /\ handler' = handler /\ work' = work
    BY <1>4 DEF Unplug
  <2> QED
    BY <1>1, <2>1, <2>2, KernelKeeps
<1>5. CASE DiscardNext
  <2>1. Moves /\ (Queued = {} => InTurn) /\ CauseInv'
    BY <1>1, <1>5, DiscardFacts
  <2>2. kind' = kind /\ plugged' = plugged /\ priv' = priv /\ phase' = phase /\ handler' = handler
    BY <1>5 DEF DiscardNext
  <2>3. Discarding /\ work.who # "submit"
    BY <1>5 DEF DiscardNext, Discarding
  <2>4. Flying /\ priv.action = "NORMAL" => InTurn
    BY <1>1, <2>1, <2>3 DEF OrderInv
  <2>5. work' \in Work /\ work'.who = work.who
    BY <1>1, <1>5 DEF DiscardNext, Work
  <2> QED
    BY <1>1, <2>1, <2>2, <2>3, <2>4, <2>5, KernelKeeps
<1> QED
  BY <1>2, <1>3, <1>4, <1>5

\* What leaves the kernel alone keeps what a status tells.
LEMMA SameKernel ==
  ASSUME urbs' = urbs, done' = done
  PROVE  /\ N' = N /\ Queued' = Queued /\ ToSet(done') = ToSet(done)
         /\ kind' = kind /\ plugged' = plugged /\ refuses' = refuses /\ CauseInv => CauseInv'
<1>1. N' = N /\ Queued' = Queued /\ ToSet(done') = ToSet(done)
  BY DEF N, Queued
<1> QED
  BY <1>1 DEF CauseInv, Continues

\* Nothing has been submitted when the first is refused.
LEMMA FirstRefusedKeeps ==
  ASSUME Inv, FirstRefused
  PROVE  Inv'
<1>1. TypeInv /\ EndedInv /\ CountInv /\ SubmitInv /\ OrderInv /\ CauseInv
  BY DEF Inv
<1>2. /\ work.who = "submit" /\ work.at = 1 /\ phase' = "idle" /\ work' = NoWork
      /\ priv' = [priv EXCEPT !.urbs = FALSE]
      /\ urbs' = urbs /\ done' = done /\ refuses' = refuses /\ sent' = sent
      /\ kind' = kind /\ plugged' = plugged /\ handler' = handler
  BY DEF FirstRefused, kernel
<1>3. N' = N /\ Queued' = Queued /\ ToSet(done') = ToSet(done) /\ CauseInv'
  BY <1>1, <1>2, SameKernel
<1>4. TypeInv'
  <2>1. priv \in Priv
    BY <1>1 DEF TypeInv
  <2>2. priv' \in Priv
    BY <1>2, <2>1 DEF Priv
  <2>3. work' \in Work
    BY <1>2 DEF Work, NoWork, None
  <2> QED
    BY <1>1, <1>2, <1>3, <2>2, <2>3 DEF TypeInv
<1>5. Queued = {}
  BY <1>1, <1>2 DEF SubmitInv, Queued, None
<1>6. done = << >> /\ handler.at # "handle"
  <2>1. N \in Nat /\ ToSet(done) \subseteq 1 .. N /\ (ToSet(done) = {} => done = << >>)
    BY <1>1, CountFacts
  <2>2. \A x \in ToSet(done) \cup Handled : x < 1
    BY <1>1, <1>2 DEF SubmitInv, Below
  <2>3. ToSet(done) = {}
    BY <2>1, <2>2
  <2>4. ASSUME handler.at = "handle" PROVE FALSE
    <3>1. handler.urb \in 1 .. N /\ handler.urb \in Handled
      BY <1>1, <2>4 DEF CountInv, Handled
    <3> QED
      BY <2>1, <2>2, <3>1
  <2> QED
    BY <2>1, <2>3, <2>4
<1>7. handler.at # "complete"
  BY <1>1, <1>2 DEF EndedInv, Locked, None
<1>8. EndedInv'
  BY <1>2, <1>3, <1>5, <1>6, <1>7 DEF EndedInv, Locked, NoWork
<1>9. CountInv'
  BY <1>1, <1>2, <1>3 DEF CountInv, Flying
<1>10. SubmitInv' /\ OrderInv'
  BY <1>2 DEF SubmitInv, OrderInv, Flying, NoWork, None
<1> QED
  BY <1>3, <1>4, <1>8, <1>9, <1>10 DEF Inv

\* The rest is not submitted, and counts as retired.
LEMMA RefusedKeeps ==
  ASSUME Inv, RefusedAsEarly \/ LaterRefused
  PROVE  Inv'
<1>1. TypeInv /\ EndedInv /\ CountInv /\ SubmitInv /\ OrderInv /\ CauseInv
  BY DEF Inv
<1>2. N \in Nat /\ priv \in Priv /\ work \in Work
  BY <1>1, QueuedFacts DEF TypeInv
<1>3. /\ work.who = "submit" /\ work.at \in 2 .. N
      /\ urbs' = urbs /\ done' = done /\ refuses' = refuses /\ sent' = sent
      /\ kind' = kind /\ plugged' = plugged /\ phase' = phase /\ handler' = handler
  BY DEF RefusedAsEarly, LaterRefused, kernel
<1>4. PICK action \in {"COMPLETED_EARLY", "SUBMIT_FAILED"} :
        priv' = [priv EXCEPT !.action = action, !.retired = @ + (N - work.at + 1)]
  BY DEF RefusedAsEarly, LaterRefused, Unsubmitted
<1>5. /\ priv' \in Priv /\ priv'.urbs = priv.urbs /\ priv'.action # "NORMAL"
      /\ priv'.retired = priv.retired + (N - work.at + 1)
  <2>1. priv.retired \in Nat
    BY <1>2 DEF Priv
  <2>2. PICK r \in Nat : r = priv.retired + (N - work.at + 1)
    BY <1>2, <1>3, <2>1
  <2>3. priv' = [priv EXCEPT !.action = action, !.retired = r]
    BY <1>4, <2>2
  <2>4. priv' \in Priv /\ priv'.urbs = priv.urbs /\ priv'.action = action /\ priv'.retired = r
    BY <1>2, <2>3 DEF Priv
  <2> QED
    BY <2>2, <2>4
<1>6. /\ work' \in Work /\ work'.who # None /\ (work'.who = "submit" => work'.at = N + 1)
  <2>1. CASE RefusedAsEarly
    BY <1>2, <1>3, <2>1 DEF RefusedAsEarly, Work, None
  <2>2. CASE LaterRefused
    BY <1>2, <1>3, <2>2 DEF LaterRefused, Work, None
  <2> QED
    BY <2>1, <2>2
<1>7. N' = N /\ Queued' = Queued /\ ToSet(done') = ToSet(done) /\ CauseInv'
  BY <1>1, <1>3, SameKernel
<1>8. TypeInv'
  BY <1>1, <1>3, <1>5, <1>6, <1>7 DEF TypeInv
<1>9. /\ Flying' = Flying /\ Handled' = Handled /\ Locked' = Locked /\ Locked
      /\ Given = work.at - 1 /\ Given' = N
  <2>1. Flying' = Flying /\ Handled' = Handled /\ Locked' = Locked /\ Locked
    BY <1>3, <1>6 DEF Flying, Handled, Locked, None
  <2>2. Given = work.at - 1 /\ Given' = N
    BY <1>2, <1>3, <1>6, <1>7 DEF Given
  <2> QED
    BY <2>1, <2>2
<1>10. EndedInv'
  BY <1>1, <1>3, <1>5, <1>7, <1>9 DEF EndedInv
<1>11. CountInv'
  <2>1. /\ Cardinality(Queued) \in Nat /\ Len(done) \in Nat /\ Cardinality(Handled) \in {0, 1} /\ priv.retired \in Nat
    BY <1>1, <1>2, CountFacts DEF Priv
  <2>2. Flying => priv'.urbs /\ Cardinality(Queued) + Len(done) + Cardinality(Handled) + priv'.retired = N
    <3> SUFFICES ASSUME Flying
                 PROVE  priv'.urbs /\ Cardinality(Queued) + Len(done) + Cardinality(Handled) + priv'.retired = N
      OBVIOUS
    <3>1. priv.urbs /\ Cardinality(Queued) + Len(done) + Cardinality(Handled) + priv.retired = work.at - 1
      BY <1>1, <1>9 DEF CountInv
    <3>2. work.at \in Int /\ N \in Nat
      BY <1>2, <1>3
    <3>3. PICK queued \in Nat, waiting \in Nat, handled \in Nat, retired \in Nat, at \in Int :
            /\ queued = Cardinality(Queued) /\ waiting = Len(done) /\ handled = Cardinality(Handled)
            /\ retired = priv.retired /\ at = work.at
      BY <2>1, <3>2
    <3>4. queued + waiting + handled + retired = at - 1
      BY <3>1, <3>3
    <3>5. queued + waiting + handled + (retired + (N - at + 1)) = N
      BY <3>2, <3>4
    <3> QED
      BY <1>5, <3>1, <3>3, <3>5
  <2>3. Flying' => priv'.urbs /\ Cardinality(Queued') + Len(done') + Cardinality(Handled') + priv'.retired = Given'
    BY <1>3, <1>7, <1>9, <2>2
  <2> QED
    BY <1>1, <1>3, <1>7, <2>3 DEF CountInv
<1>12. SubmitInv'
  <2>1. ToSet(done) \subseteq 1 .. N /\ Handled \subseteq 1 .. N
    BY <1>1, CountFacts DEF CountInv, Handled
  <2>2. Below(ToSet(done) \cup Handled, {N + 1})
    <3>1. \A x \in 1 .. N : x < N + 1
      BY <1>2
    <3> QED
      BY <2>1, <3>1 DEF Below
  <2> SUFFICES ASSUME work'.who = "submit"
               PROVE  /\ work'.at \in 1 .. N' + 1
                      /\ \A i \in work'.at .. N' : urbs'[i].at = None
                      /\ Below(ToSet(done') \cup Handled', {work'.at})
    BY DEF SubmitInv
  <2>3. work'.at = N + 1 /\ N + 1 \in 1 .. N + 1 /\ (N + 1) .. N = {}
    BY <1>2, <1>6
  <2> QED
    BY <1>7, <1>9, <2>2, <2>3
<1>13. OrderInv'
  BY <1>5 DEF OrderInv
<1> QED
  BY <1>7, <1>8, <1>10, <1>11, <1>12, <1>13 DEF Inv

\* A URB is given to the kernel.
LEMMA SubmitUrbKeeps ==
  ASSUME Inv, SubmitUrb
  PROVE  Inv'
<1>1. TypeInv /\ EndedInv /\ CountInv /\ SubmitInv /\ OrderInv /\ CauseInv
  BY DEF Inv
<1>2. /\ N \in Nat /\ urbs \in Seq(Urb) /\ work \in Work
      /\ DOMAIN urbs = 1 .. N /\ \A i \in 1 .. N : urbs[i] \in Urb
  BY <1>1, QueuedFacts DEF TypeInv
<1>3. /\ work.who = "submit" /\ work.at <= N /\ plugged /\ ~refuses
      /\ urbs' = [urbs EXCEPT ![work.at].at = "queued"]
      /\ work' = [work EXCEPT !.at = @ + 1]
      /\ done' = done /\ refuses' = refuses /\ sent' = sent
      /\ kind' = kind /\ plugged' = plugged /\ priv' = priv /\ phase' = phase /\ handler' = handler
  BY DEF SubmitUrb
<1>4. PICK w : w = work.at
  OBVIOUS
<1>5. /\ w \in 1 .. N /\ \A i \in w .. N : urbs[i].at = None
      /\ Below(ToSet(done) \cup Handled, {w})
  BY <1>1, <1>2, <1>3, <1>4 DEF SubmitInv
<1>6. /\ urbs' \in Seq(Urb) /\ N' = N
      /\ \A i \in 1 .. N : urbs'[i].at = (IF i = w THEN "queued" ELSE urbs[i].at) /\ urbs'[i].status = urbs[i].status
  <2>1. PICK u : u = [urbs[w] EXCEPT !.at = "queued"]
    OBVIOUS
  <2>2. urbs' = [urbs EXCEPT ![w] = u]
    BY <1>3, <1>4, <2>1
  <2>3. urbs[w] \in Urb
    BY <1>2, <1>5
  <2>4. u \in Urb /\ u.at = "queued" /\ u.status = urbs[w].status
    BY <2>1, <2>3 DEF Urb
  <2>5. urbs' \in Seq(Urb) /\ Len(urbs') = Len(urbs)
    <3>1. urbs \in Seq(Urb) /\ w \in 1 .. Len(urbs) /\ u \in Urb
      BY <1>2, <1>5, <2>4 DEF N
    <3> QED
      BY <2>2, <3>1, ExceptSeq
  <2>6. \A i \in 1 .. N : urbs'[i] = IF i = w THEN u ELSE urbs[i]
    BY <1>2, <2>2
  <2> QED
    BY <2>4, <2>5, <2>6 DEF N
<1>7. work' \in Work /\ work'.who = "submit" /\ work'.at = w + 1
  BY <1>2, <1>3, <1>4 DEF Work
<1>8. ToSet(done') = ToSet(done)
  BY <1>3
<1>9. TypeInv'
  BY <1>1, <1>3, <1>6, <1>7 DEF TypeInv
<1>10. Queued' = Queued \cup {w} /\ w \notin Queued /\ Queued \in SUBSET (1 .. N)
  <2>1. Queued' = {i \in 1 .. N : urbs'[i].at = "queued"}
    BY <1>6 DEF Queued
  <2>2. w \in w .. N
    BY <1>2, <1>5
  <2>3. urbs[w].at = None
    BY <1>5, <2>2
  <2> QED
    BY <1>5, <1>6, <2>1, <2>3 DEF Queued, None
<1>11. Cardinality(Queued') = Cardinality(Queued) + 1
  <2>1. IsFiniteSet(Queued)
    BY <1>1, <1>10, QueuedFacts
  <2> QED
    BY <1>10, <2>1, FS_AddElement
<1>12. /\ Flying' = Flying /\ Handled' = Handled /\ Locked' /\ Locked /\ ~Discarding'
       /\ Given = w - 1 /\ Given' = w
  <2>1. Flying' = Flying /\ Handled' = Handled /\ Locked' /\ Locked /\ ~Discarding'
    BY <1>3, <1>7 DEF Flying, Handled, Locked, Discarding, None
  <2>2. Given = w - 1 /\ Given' = w
    BY <1>2, <1>3, <1>4, <1>5, <1>7 DEF Given
  <2> QED
    BY <2>1, <2>2
<1>13. EndedInv'
  BY <1>1, <1>3, <1>12 DEF EndedInv
<1>14. CountInv'
  <2>1. Flying' => priv'.urbs /\ Cardinality(Queued') + Len(done') + Cardinality(Handled') + priv'.retired = Given'
    <3> SUFFICES ASSUME Flying
                 PROVE  priv.urbs /\ (Cardinality(Queued) + 1) + Len(done) + Cardinality(Handled) + priv.retired = w
      BY <1>3, <1>11, <1>12
    <3>1. priv.urbs /\ Cardinality(Queued) + Len(done) + Cardinality(Handled) + priv.retired = w - 1
      BY <1>1, <1>12 DEF CountInv
    <3>2. /\ Cardinality(Queued) \in Nat /\ Len(done) \in Nat /\ Cardinality(Handled) \in {0, 1} /\ priv.retired \in Nat
      BY <1>1, CountFacts DEF TypeInv, Priv
    <3> QED
      BY <1>5, <3>1, <3>2
  <2>2. \A i \in 1 .. N : urbs'[i].at = "done" => i \in ToSet(done)
    BY <1>1, <1>6 DEF CountInv
  <2>3. ToSet(done) \cap Queued' = {}
    <3>1. w \notin ToSet(done)
      BY <1>5 DEF Below
    <3> QED
      BY <1>1, <1>10, <3>1 DEF CountInv
  <2>4. handler.at = "handle" => handler.urb \in 1 .. N
    BY <1>1 DEF CountInv
  <2> QED
    BY <1>3, <1>6, <1>8, <2>1, <2>2, <2>3, <2>4 DEF CountInv
<1>15. SubmitInv'
  <2>1. w + 1 \in 1 .. N + 1
    BY <1>2, <1>5
  <2>2. \A i \in w + 1 .. N : i \in w .. N /\ i \in 1 .. N /\ i # w
    BY <1>2, <1>5
  <2>3. \A i \in w + 1 .. N : urbs'[i].at = None
    BY <1>5, <1>6, <2>2
  <2>4. ToSet(done) \subseteq 1 .. N /\ Handled \subseteq 1 .. N
    BY <1>1, CountFacts DEF CountInv, Handled
  <2>5. \A x \in 1 .. N : x < w => x < w + 1
    BY <1>2, <1>5
  <2>6. Below(ToSet(done) \cup Handled, {w + 1})
    BY <1>5, <2>4, <2>5 DEF Below
  <2> QED
    BY <1>6, <1>7, <1>8, <1>12, <2>1, <2>3, <2>6 DEF SubmitInv
<1>16. OrderInv'
  <2> SUFFICES ASSUME Flying, priv.action = "NORMAL"
               PROVE  /\ Asc(done) /\ Below(ToSet(done), Queued \cup {w})
                      /\ Below(Handled, ToSet(done) \cup (Queued \cup {w}))
    BY <1>3, <1>8, <1>10, <1>12 DEF OrderInv
  <2>1. Asc(done) /\ Below(ToSet(done), Queued) /\ Below(Handled, ToSet(done) \cup Queued)
    BY <1>1 DEF OrderInv
  <2> QED
    BY <1>5, <2>1 DEF Below
<1>17. CauseInv'
  BY <1>1, <1>3, <1>6 DEF CauseInv, Continues
<1> QED
  BY <1>9, <1>13, <1>14, <1>15, <1>16, <1>17 DEF Inv

\* The lock is released after the submission or after the discards.
LEMMA ReleaseKeeps ==
  ASSUME Inv, Submitted \/ Unlock
  PROVE  Inv'
<1>1. TypeInv /\ EndedInv /\ CountInv /\ SubmitInv /\ OrderInv /\ CauseInv
  BY DEF Inv
<1>2. /\ work.who # None /\ (work.who = "submit" => work.at = N + 1) /\ work' = NoWork
      /\ urbs' = urbs /\ done' = done /\ refuses' = refuses /\ sent' = sent
      /\ kind' = kind /\ plugged' = plugged /\ handler' = handler
      /\ priv' = priv \/ (handler.at = "off" /\ priv' = [priv EXCEPT !.urbs = FALSE])
      /\ phase' \in {phase, "flying"} \/ handler.at = "off"
  BY DEF Submitted, Unlock, kernel, None
<1>3. N' = N /\ Queued' = Queued /\ ToSet(done') = ToSet(done) /\ CauseInv'
  BY <1>1, <1>2, SameKernel
<1>4. TypeInv'
  <2>1. priv \in Priv
    BY <1>1 DEF TypeInv
  <2>2. priv' \in Priv
    BY <1>2, <2>1 DEF Priv
  <2>3. work' \in Work
    BY <1>2 DEF Work, NoWork, None
  <2> QED
    BY <1>1, <1>2, <1>3, <2>2, <2>3 DEF TypeInv
<1>5. /\ Locked /\ ~Locked' /\ Handled' = Handled /\ ~Discarding'
      /\ N \in Nat /\ Given' = N /\ (Given = N)
  <2>1. Locked /\ ~Locked' /\ Handled' = Handled /\ ~Discarding'
    BY <1>2 DEF Locked, Handled, Discarding, NoWork, None
  <2>2. N \in Nat
    BY <1>1, QueuedFacts
  <2>3. Given' = N
    BY <1>2, <1>3 DEF Given, NoWork, None
  <2>4. Given = N
    BY <1>2, <2>2 DEF Given
  <2> QED
    BY <2>1, <2>2, <2>3, <2>4
<1>6. handler.at # "off" => phase # "idle" /\ handler.at # "complete" /\ phase' # "idle" /\ priv' = priv
  BY <1>1, <1>2, <1>5 DEF EndedInv
<1>7. Flying' => Flying
  BY <1>2, <1>6 DEF Flying
<1>8. EndedInv'
  BY <1>2, <1>6 DEF EndedInv
<1>9. CountInv'
  <2>1. Flying' => priv'.urbs /\ Cardinality(Queued') + Len(done') + Cardinality(Handled') + priv'.retired = Given'
    <3> SUFFICES ASSUME Flying'
                 PROVE  priv'.urbs /\ Cardinality(Queued') + Len(done') + Cardinality(Handled') + priv'.retired = Given'
      OBVIOUS
    <3>1. Flying /\ priv' = priv
      BY <1>2, <1>6, <1>7 DEF Flying
    <3> QED
      BY <1>1, <1>2, <1>3, <1>5, <3>1 DEF CountInv
  <2> QED
    BY <1>1, <1>2, <1>3, <2>1 DEF CountInv
<1>10. SubmitInv'
  BY <1>2 DEF SubmitInv, NoWork, None
<1>11. OrderInv'
  <2> SUFFICES ASSUME Flying', priv'.action = "NORMAL"
               PROVE  /\ Asc(done) /\ Below(ToSet(done), Queued) /\ Below(Handled, ToSet(done) \cup Queued)
    BY <1>2, <1>3, <1>5 DEF OrderInv
  <2>1. Flying /\ priv' = priv
    BY <1>2, <1>6, <1>7 DEF Flying
  <2> QED
    BY <1>1, <2>1 DEF OrderInv
<1> QED
  BY <1>3, <1>4, <1>8, <1>9, <1>10, <1>11 DEF Inv

\* A transfer that is cancelled is not NORMAL any more.
LEMMA CancelKeeps ==
  ASSUME Inv, Cancel
  PROVE  Inv'
<1>1. TypeInv /\ EndedInv /\ CountInv /\ SubmitInv /\ OrderInv /\ CauseInv
  BY DEF Inv
<1>2. /\ phase = "flying" /\ ~Locked /\ phase' = "cancelling"
      /\ priv' = [priv EXCEPT !.action = Cancelled(@)]
      /\ work' = (IF priv.urbs THEN [who |-> "cancel", at |-> N, last |-> 1] ELSE NoWork)
      /\ urbs' = urbs /\ done' = done /\ refuses' = refuses /\ sent' = sent
      /\ kind' = kind /\ plugged' = plugged /\ handler' = handler
  BY DEF Cancel, kernel
<1>3. N' = N /\ Queued' = Queued /\ ToSet(done') = ToSet(done) /\ CauseInv'
  BY <1>1, <1>2, SameKernel
<1>4. priv' \in Priv /\ priv'.urbs = priv.urbs /\ priv'.retired = priv.retired /\ priv'.action # "NORMAL"
  <2>1. priv \in Priv
    BY <1>1 DEF TypeInv
  <2>2. PICK a \in {"ERROR", "CANCELLED"} : priv' = [priv EXCEPT !.action = a]
    BY <1>2 DEF Cancelled
  <2> QED
    BY <2>1, <2>2 DEF Priv
<1>5. work' \in Work /\ work'.who \in {None, "cancel"} /\ (~priv.urbs => work'.who = None)
  <2>1. N \in Nat
    BY <1>1, QueuedFacts
  <2> QED
    BY <1>2, <2>1 DEF Work, NoWork, None
<1>6. TypeInv'
  BY <1>1, <1>2, <1>3, <1>4, <1>5 DEF TypeInv
<1>7. Flying' = Flying /\ Handled' = Handled /\ Given' = N /\ Given = N
  <2>1. Flying' = Flying /\ Handled' = Handled
    BY <1>2 DEF Flying, Handled
  <2>2. Given' = N /\ Given = N
    BY <1>2, <1>3, <1>5 DEF Given, Locked, None
  <2> QED
    BY <2>1, <2>2
<1>8. EndedInv'
  <2> SUFFICES ASSUME handler.at = "complete"
               PROVE  Queued = {} /\ done = << >> /\ ~Locked' /\ ~priv.urbs
    BY <1>2, <1>3, <1>4 DEF EndedInv
  <2> QED
    BY <1>1, <1>5 DEF EndedInv, Locked
<1>9. CountInv'
  BY <1>1, <1>2, <1>3, <1>4, <1>7 DEF CountInv
<1>10. SubmitInv' /\ OrderInv'
  BY <1>4, <1>5 DEF SubmitInv, OrderInv, None
<1> QED
  BY <1>3, <1>6, <1>8, <1>9, <1>10 DEF Inv

\* A URB is taken from those that wait.
LEMMA ReapKeeps ==
  ASSUME Inv, Reap
  PROVE  Inv'
<1>1. TypeInv /\ EndedInv /\ CountInv /\ SubmitInv /\ OrderInv /\ CauseInv
  BY DEF Inv
<1>2. PICK i : i = Head(done)
  OBVIOUS
<1>3. /\ handler.at = "poll" /\ done # << >> /\ done' = Tail(done)
      /\ handler' = [Idle EXCEPT !.at = "handle", !.urb = i]
      /\ urbs' = [urbs EXCEPT ![i].at = None]
      /\ refuses' = refuses /\ sent' = sent /\ work' = work
      /\ kind' = kind /\ plugged' = plugged /\ priv' = priv /\ phase' = phase
  BY <1>2 DEF Reap
<1>4. /\ N \in Nat /\ DOMAIN urbs = 1 .. N /\ \A j \in 1 .. N : urbs[j] \in Urb
      /\ urbs \in Seq(Urb) /\ Queued \in SUBSET (1 .. N)
  BY <1>1, QueuedFacts DEF TypeInv
<1>5. /\ done' \in Seq(1 .. N) /\ Len(done) = Len(done') + 1 /\ i \in 1 .. N
      /\ ToSet(done) = ToSet(done') \cup {i}
      /\ Asc(done) => Asc(done') /\ Below({i}, ToSet(done'))
  <2>1. PICK S : S = 1 .. N
    OBVIOUS
  <2>2. S \in SUBSET Nat /\ done \in Seq(S) /\ done # << >>
    BY <1>1, <1>3, <1>4, <2>1 DEF TypeInv
  <2>3. PICK r : r = Tail(done)
    OBVIOUS
  <2>4. PICK h : h = Head(done)
    OBVIOUS
  <2>5. /\ r \in Seq(S) /\ Len(done) = Len(r) + 1 /\ h \in S /\ ToSet(done) = ToSet(r) \cup {h}
        /\ Asc(done) => Asc(r) /\ Below({h}, ToSet(r))
    BY <2>2, <2>3, <2>4, TailFacts
  <2> QED
    BY <1>2, <1>3, <2>1, <2>3, <2>4, <2>5
<1>6. /\ urbs' \in Seq(Urb) /\ N' = N
      /\ \A j \in 1 .. N : urbs'[j].at = (IF j = i THEN None ELSE urbs[j].at) /\ urbs'[j].status = urbs[j].status
  <2>1. PICK u : u = [urbs[i] EXCEPT !.at = None]
    OBVIOUS
  <2>2. urbs' = [urbs EXCEPT ![i] = u]
    BY <1>3, <2>1
  <2>3. urbs[i] \in Urb
    BY <1>4, <1>5
  <2>4. u \in Urb /\ u.at = None /\ u.status = urbs[i].status
    BY <2>1, <2>3 DEF Urb
  <2>5. urbs' \in Seq(Urb) /\ Len(urbs') = Len(urbs)
    <3>1. urbs \in Seq(Urb) /\ i \in 1 .. Len(urbs) /\ u \in Urb
      BY <1>4, <1>5, <2>4 DEF N
    <3> QED
      BY <2>2, <3>1, ExceptSeq
  <2>6. \A j \in 1 .. N : urbs'[j] = IF j = i THEN u ELSE urbs[j]
    BY <1>4, <2>2
  <2> QED
    BY <2>4, <2>5, <2>6 DEF N
<1>7. Queued' = Queued
  <2>1. i \notin Queued
    BY <1>1, <1>5 DEF CountInv
  <2>2. Queued' = {j \in 1 .. N : urbs'[j].at = "queued"}
    BY <1>6 DEF Queued
  <2> QED
    BY <1>6, <2>1, <2>2 DEF Queued, None
<1>8. handler' \in Handler /\ handler'.at = "handle" /\ handler'.urb = i
  <2>1. handler' = [at |-> "handle", urb |-> i, status |-> None]
    BY <1>3 DEF Idle
  <2>2. i \in Nat
    BY <1>4, <1>5
  <2> QED
    BY <2>1, <2>2 DEF Handler, None
<1>9. TypeInv'
  BY <1>1, <1>3, <1>5, <1>6, <1>8 DEF TypeInv
<1>10. /\ Handled = {} /\ Handled' = {i} /\ Given' = Given /\ Discarding' = Discarding /\ Locked' = Locked
       /\ Flying /\ Flying'
  <2>1. Handled = {} /\ Handled' = {i} /\ Discarding' = Discarding /\ Locked' = Locked
    BY <1>3, <1>8 DEF Handled, Discarding, Locked
  <2>2. Given' = Given
    BY <1>3, <1>6 DEF Given
  <2>3. phase # "idle"
    BY <1>1, <1>3 DEF EndedInv
  <2> QED
    BY <1>3, <1>8, <2>1, <2>2, <2>3 DEF Flying
<1>11. EndedInv'
  BY <1>3, <1>8, <1>10 DEF EndedInv, Flying
<1>12. CountInv'
  <2>1. priv.urbs /\ Cardinality(Queued) + Len(done) + Cardinality(Handled) + priv.retired = Given
    BY <1>1, <1>10 DEF CountInv
  <2>2. Cardinality(Handled) = 0 /\ Cardinality(Handled') = 1
    BY <1>10, FS_EmptySet, FS_Singleton
  <2>3. Cardinality(Queued) \in Nat /\ Len(done') \in Nat /\ priv.retired \in Nat
    BY <1>1, <1>5, CountFacts DEF TypeInv, Priv
  <2>4. Cardinality(Queued) + Len(done') + 1 + priv.retired = Given
    BY <1>5, <2>1, <2>2, <2>3
  <2>5. \A j \in 1 .. N : urbs'[j].at = "done" => j \in ToSet(done')
    BY <1>1, <1>5, <1>6 DEF CountInv, None
  <2>6. ToSet(done') \cap Queued = {}
    BY <1>1, <1>5 DEF CountInv
  <2> QED
    BY <1>3, <1>5, <1>6, <1>7, <1>8, <1>10, <2>1, <2>2, <2>4, <2>5, <2>6 DEF CountInv
<1>13. SubmitInv'
  <2> SUFFICES ASSUME work.who = "submit"
               PROVE  /\ work.at \in 1 .. N + 1
                      /\ \A j \in work.at .. N : urbs'[j].at = None
                      /\ Below(ToSet(done') \cup {i}, {work.at})
    BY <1>3, <1>6, <1>10 DEF SubmitInv
  <2>1. /\ work.at \in 1 .. N + 1
        /\ \A j \in work.at .. N : urbs[j].at = None
        /\ Below(ToSet(done), {work.at})
    BY <1>1 DEF SubmitInv, Below
  <2>2. \A j \in work.at .. N : j \in 1 .. N
    BY <1>4, <2>1
  <2> QED
    BY <1>5, <1>6, <2>1, <2>2
<1>14. OrderInv'
  <2> SUFFICES ASSUME priv.action = "NORMAL"
               PROVE  /\ Asc(done') /\ Below(ToSet(done'), Queued) /\ Below({i}, ToSet(done') \cup Queued)
                      /\ Discarding => Queued = {}
    BY <1>3, <1>7, <1>10 DEF OrderInv
  <2>1. Asc(done) /\ Below(ToSet(done), Queued) /\ (Discarding => Queued = {})
    BY <1>1, <1>10 DEF OrderInv
  <2>2. Asc(done') /\ Below({i}, ToSet(done'))
    BY <1>5, <2>1
  <2> QED
    BY <1>5, <2>1, <2>2 DEF Below
<1>15. CauseInv'
  BY <1>1, <1>3, <1>6, <1>7 DEF CauseInv, Continues
<1> QED
  BY <1>9, <1>11, <1>12, <1>13, <1>14, <1>15 DEF Inv

\* The transfer is over when its callback has been told, or the device has been seen to leave.
LEMMA OverKeeps ==
  ASSUME Inv, Complete \/ Disconnect
  PROVE  Inv'
<1>1. TypeInv /\ EndedInv /\ CountInv /\ SubmitInv /\ OrderInv /\ CauseInv
  BY DEF Inv
<1>2. /\ urbs' = urbs /\ done' = done /\ refuses' = refuses /\ sent' = sent /\ work' = work
      /\ kind' = kind /\ plugged' = plugged
  BY DEF Complete, Disconnect, kernel
<1>3. N' = N /\ Queued' = Queued /\ ToSet(done') = ToSet(done) /\ CauseInv'
  BY <1>1, <1>2, SameKernel
<1>4. /\ handler' \in Handler /\ priv' \in Priv
      /\ handler'.at # "handle" /\ handler.at # "handle" /\ handler'.at # "complete"
      /\ handler'.at = "off" \/ (handler.at = "complete" /\ phase' = "idle")
  <2>1. priv \in Priv
    BY <1>1 DEF TypeInv
  <2>2. priv' \in Priv
    BY <2>1 DEF Priv, Complete, Disconnect
  <2>3. handler' = Idle \/ handler' = [Idle EXCEPT !.at = "off"]
    BY DEF Complete, Disconnect
  <2>4. handler' \in Handler
    BY <2>3 DEF Handler, Idle, None
  <2>5. /\ handler'.at # "handle" /\ handler.at # "handle" /\ handler'.at # "complete"
        /\ handler'.at = "off" \/ (handler.at = "complete" /\ phase' = "idle")
    BY DEF Complete, Disconnect, Idle
  <2> QED
    BY <2>2, <2>4, <2>5
<1>5. TypeInv'
  BY <1>1, <1>2, <1>3, <1>4 DEF TypeInv
<1>6. EndedInv'
  <2> SUFFICES ASSUME handler.at = "complete"
               PROVE  Queued = {} /\ done = << >> /\ ~Locked'
    BY <1>2, <1>3, <1>4 DEF EndedInv
  <2> QED
    BY <1>1, <1>2 DEF EndedInv, Locked
<1>7. ~Flying'
  BY <1>4 DEF Flying
<1>8. CountInv'
  BY <1>1, <1>2, <1>3, <1>4, <1>7 DEF CountInv
<1>9. SubmitInv'
  <2>1. Handled' = {} /\ Handled = {}
    BY <1>4 DEF Handled
  <2> QED
    BY <1>1, <1>2, <1>3, <2>1 DEF SubmitInv
<1>10. OrderInv'
  BY <1>7 DEF OrderInv
<1> QED
  BY <1>3, <1>5, <1>6, <1>8, <1>9, <1>10 DEF Inv

-----------------------------------------------------------------------------
(* How a transfer is split. *)

\* The larger of a number and one.
LEMMA MaxOfOne ==
  ASSUME NEW a \in Nat
  PROVE  Max({a, 1}) \in Nat \ {0}
<1>1. \E x \in {a, 1} : \A y \in {a, 1} : x >= y
  <2>1. CASE a >= 1
    BY <2>1
  <2>2. CASE ~(a >= 1)
    BY <2>2
  <2> QED
    BY <2>1, <2>2
<1>2. Max({a, 1}) \in {a, 1} /\ \A y \in {a, 1} : Max({a, 1}) >= y
  BY <1>1 DEF Max
<1> QED
  BY <1>2

\* The whole pieces of a length, and what is left.
LEMMA DivideFacts ==
  ASSUME NEW a \in Nat, NEW b \in Nat \ {0}
  PROVE  a \div b \in Nat /\ a % b \in Nat
OBVIOUS

\* The URBs of a transfer have a number of units each; a control transfer has one.
LEMMA UnitsFacts ==
  ASSUME UsbUrbsAssumption, IsoSplits, NEW k \in Kinds
  PROVE  UnitsOf(k) \in Seq(Nat) /\ (k.type = "control" => Len(UnitsOf(k)) = 1)
<1>1. /\ k.length \in Nat /\ MaxBulk \in Nat \ {0}
      /\ k.type \in {"control", "bulk", "interrupt", "iso"}
  BY DEF UsbUrbsAssumption, Kind
<1>2. BulkUrbs(k) \in Seq(Nat)
  <2>1. PICK b : b = BulkLength(k)
    OBVIOUS
  <2>2. b \in Nat \ {0}
    BY <1>1, <2>1, MaxOfOne DEF BulkLength
  <2>3. PICK whole \in Nat, rest \in Nat : whole = k.length \div b /\ rest = k.length % b
    BY <1>1, <2>2, DivideFacts
  <2>4. <<0>> \in Seq(Nat)
    OBVIOUS
  <2>5. PICK many : many = [i \in 1 .. whole |-> b]
    OBVIOUS
  <2>6. many \in Seq(Nat)
    BY <2>2, <2>5
  <2>7. PICK few \in Seq(Nat) : few = IF rest > 0 THEN <<rest>> ELSE << >>
    <3>1. <<rest>> \in Seq(Nat) /\ << >> \in Seq(Nat)
      OBVIOUS
    <3> QED
      BY <3>1
  <2>8. BulkUrbs(k) = IF k.length = 0 THEN <<0>> ELSE many \o few
    BY <2>1, <2>3, <2>5, <2>7 DEF BulkUrbs
  <2>9. many \o few \in Seq(Nat)
    BY <2>6
  <2> QED
    BY <2>4, <2>8, <2>9
<1>3. CASE k.type = "control"
  <2>1. UnitsOf(k) = <<k.length>>
    BY <1>3 DEF UnitsOf
  <2> QED
    BY <1>1, <2>1
<1>4. CASE k.type = "iso"
  <2>1. PICK u \in Seq(Seq(Nat)) : u = IsoUrbs(k.packets)
    BY <1>4 DEF IsoSplits
  <2>2. UnitsOf(k) = [i \in DOMAIN u |-> Len(u[i])]
    BY <1>4, <2>1 DEF UnitsOf
  <2>3. \A i \in DOMAIN u : Len(u[i]) \in Nat
    OBVIOUS
  <2>4. DOMAIN u = 1 .. Len(u) /\ Len(u) \in Nat
    OBVIOUS
  <2> QED
    BY <1>4, <2>2, <2>3, <2>4
<1>5. CASE k.type \in {"bulk", "interrupt"}
  <2>1. UnitsOf(k) = BulkUrbs(k)
    BY <1>5 DEF UnitsOf
  <2> QED
    BY <1>2, <1>5, <2>1
<1> QED
  BY <1>1, <1>3, <1>4, <1>5

\* A transfer is submitted: nothing of it is with the kernel yet.
LEMMA SubmitKeeps ==
  ASSUME UsbUrbsAssumption, StallsContinue, IsoSplits, Inv, Submit
  PROVE  Inv'
<1>1. TypeInv /\ EndedInv /\ CountInv /\ SubmitInv /\ OrderInv /\ CauseInv
  BY DEF Inv
<1>2. kind' \in Kinds
  BY DEF Submit
<1>3. PICK units : units = UnitsOf(kind')
  OBVIOUS
<1>4. /\ units \in Seq(Nat) /\ (kind'.type = "control" => Len(units) = 1)
      /\ kind'.type \in {"bulk", "interrupt"} /\ "stall" \in kind'.faults /\ ~Continues(kind') => Len(units) = 1
  BY <1>2, <1>3, UnitsFacts DEF StallsContinue
<1>5. /\ phase = "idle" /\ ~Locked /\ phase' = "submitting"
      /\ urbs' = [i \in DOMAIN units |-> NewUrb(units[i])]
      /\ work' = [who |-> "submit", at |-> 1, last |-> Len(units)]
      /\ done' = << >> /\ refuses' = FALSE /\ sent' = 0
      /\ priv' = [NoPriv EXCEPT !.urbs = TRUE]
      /\ plugged' = plugged /\ handler' = handler
  BY <1>3 DEF Submit
<1>6. Len(units) \in Nat /\ DOMAIN units = 1 .. Len(units) /\ \A i \in 1 .. Len(units) : units[i] \in Nat
  BY <1>4
<1>7. /\ urbs' \in Seq(Urb) /\ N' = Len(units)
      /\ \A i \in 1 .. Len(units) : urbs'[i].at = None /\ urbs'[i].status = None
  <2>1. ASSUME NEW n \in Nat
        PROVE  NewUrb(n) \in Urb /\ NewUrb(n).at = None /\ NewUrb(n).status = None
    BY DEF NewUrb, Urb, Statuses
  <2>2. \A i \in 1 .. Len(units) : urbs'[i] = NewUrb(units[i])
    BY <1>5, <1>6
  <2>3. urbs' \in [1 .. Len(units) -> Urb]
    BY <1>5, <1>6, <2>1
  <2>4. urbs' \in Seq(Urb) /\ Len(urbs') = Len(units)
    BY <1>6, <2>3
  <2> QED
    BY <1>6, <2>1, <2>2, <2>4 DEF N
<1>8. Queued' = {}
  <2>1. Queued' = {i \in 1 .. N' : urbs'[i].at = "queued"}
    BY DEF Queued
  <2> QED
    BY <1>7, <2>1 DEF None
<1>9. ToSet(done') = {} /\ Asc(done') /\ Len(done') = 0 /\ done' \in Seq(1 .. N')
  BY <1>5, ShortFacts
<1>10. /\ priv' \in Priv /\ priv'.urbs /\ priv'.retired = 0
  <2>1. priv' = [urbs |-> TRUE, action |-> "NORMAL", retired |-> 0, status |-> "COMPLETED", packets |-> << >>]
    BY <1>5 DEF NoPriv
  <2>2. << >> \in Seq(Nat)
    OBVIOUS
  <2> QED
    BY <2>1, <2>2 DEF Priv, Reports
<1>11. work' \in Work /\ work'.who = "submit" /\ work'.at = 1
  BY <1>5, <1>6 DEF Work
<1>12. TypeInv'
  BY <1>1, <1>2, <1>5, <1>7, <1>9, <1>10, <1>11 DEF TypeInv
<1>13. handler.at # "handle" /\ handler.at # "complete"
  <2>1. handler.at # "complete"
    BY <1>1, <1>5 DEF EndedInv
  <2> QED
    BY <1>1, <1>5, <2>1 DEF EndedInv
<1>14. /\ Handled' = {} /\ Given' = 0 /\ ~Discarding'
  BY <1>5, <1>11, <1>13 DEF Handled, Given, Discarding
<1>15. EndedInv'
  BY <1>5, <1>13 DEF EndedInv
<1>16. CountInv'
  <2>1. Cardinality(Queued') = 0 /\ Cardinality(Handled') = 0
    BY <1>8, <1>14, FS_EmptySet
  <2>2. Cardinality(Queued') + Len(done') + Cardinality(Handled') + priv'.retired = Given'
    BY <1>9, <1>10, <1>14, <2>1
  <2>3. \A i \in 1 .. N' : urbs'[i].at # "done"
    BY <1>7 DEF None
  <2> QED
    BY <1>5, <1>8, <1>10, <1>13, <2>2, <2>3 DEF CountInv
<1>17. SubmitInv'
  <2>1. 1 \in 1 .. N' + 1 /\ \A i \in 1 .. N' : urbs'[i].at = None
    BY <1>6, <1>7
  <2> QED
    BY <1>9, <1>11, <1>14, <2>1 DEF SubmitInv, Below
<1>18. OrderInv'
  BY <1>8, <1>9, <1>14 DEF OrderInv, Below
<1>19. CauseInv'
  BY <1>4, <1>7, <1>8 DEF CauseInv, None
<1> QED
  BY <1>12, <1>15, <1>16, <1>17, <1>18, <1>19 DEF Inv

-----------------------------------------------------------------------------
(* Completion. *)

\* What is known when a URB is handled.
LEMMA HandledFacts ==
  ASSUME Inv, handler.at = "handle", ~Locked
  PROVE  /\ N \in Nat /\ handler.urb \in 1 .. N /\ urbs[handler.urb] \in Urb
         /\ kind \in Kinds /\ priv \in Priv /\ priv.retired \in Nat /\ priv.urbs
         /\ phase # "idle" /\ Given = N /\ Queued \in SUBSET (1 .. N)
         /\ Cardinality(Queued) \in Nat /\ Len(done) \in Nat
         /\ Cardinality(Queued) + Len(done) + 1 + priv.retired = N
<1>1. TypeInv /\ EndedInv /\ CountInv
  BY DEF Inv
<1>2. N \in Nat /\ handler.urb \in 1 .. N /\ urbs[handler.urb] \in Urb /\ Queued \in SUBSET (1 .. N)
  BY <1>1, QueuedFacts DEF CountInv
<1>3. kind \in Kinds /\ priv \in Priv /\ priv.retired \in Nat
  BY <1>1 DEF TypeInv, Priv
<1>4. phase # "idle" /\ Flying
  BY <1>1 DEF EndedInv, Flying
<1>5. Given = N
  BY DEF Given, Locked, None
<1>6. /\ Cardinality(Queued) \in Nat /\ Len(done) \in Nat /\ Cardinality(Handled) = 1
  BY <1>1, CountFacts
<1>7. priv.urbs /\ Cardinality(Queued) + Len(done) + 1 + priv.retired = N
  BY <1>1, <1>4, <1>5, <1>6 DEF CountInv
<1> QED
  BY <1>2, <1>3, <1>4, <1>5, <1>6, <1>7

\* When the last URB is handled the kernel has no other.
LEMMA LastFacts ==
  ASSUME Inv, handler.at = "handle", ~Locked,
         \/ priv.action = "NORMAL" /\ handler.urb = N
         \/ priv.retired + 1 = N
         \/ N <= 1
  PROVE  Queued = {} /\ done = << >>
<1>1. TypeInv /\ OrderInv
  BY DEF Inv
<1>2. /\ N \in Nat /\ handler.urb \in 1 .. N /\ priv.retired \in Nat /\ phase # "idle" /\ Queued \in SUBSET (1 .. N)
      /\ Cardinality(Queued) \in Nat /\ Len(done) \in Nat
      /\ Cardinality(Queued) + Len(done) + 1 + priv.retired = N
  BY HandledFacts
<1>3. /\ (Cardinality(Queued) = 0 <=> Queued = {}) /\ (Len(done) = 0 <=> done = << >>)
      /\ (ToSet(done) = {} => done = << >>) /\ ToSet(done) \subseteq 1 .. N
  BY <1>1, CountFacts
<1>4. CASE priv.retired + 1 = N \/ N <= 1
  <2>1. Cardinality(Queued) = 0 /\ Len(done) = 0
    BY <1>2, <1>4
  <2> QED
    BY <1>3, <2>1
<1>5. CASE priv.action = "NORMAL" /\ handler.urb = N
  <2>1. Below({N}, ToSet(done) \cup Queued)
    BY <1>1, <1>2, <1>5 DEF OrderInv, Flying, Handled
  <2>2. \A x \in 1 .. N : ~(N < x)
    BY <1>2
  <2>3. Queued = {} /\ ToSet(done) = {}
    BY <1>2, <1>3, <2>1, <2>2 DEF Below
  <2> QED
    BY <1>3, <2>3
<1> QED
  BY <1>4, <1>5

\* A transfer ends when the kernel has none of its URBs.
LEMMA CompletedKeeps ==
  ASSUME Inv, handler.at = "handle", ~Locked, Queued = {}, done = << >>,
         NEW p \in Priv, Completed(p),
         urbs' = urbs, done' = done, refuses' = refuses, sent' = sent,
         kind' = kind, plugged' = plugged, phase' = phase
  PROVE  Inv'
<1>1. TypeInv /\ EndedInv /\ CountInv /\ SubmitInv /\ OrderInv /\ CauseInv
  BY DEF Inv
<1>2. /\ priv' = [p EXCEPT !.urbs = FALSE] /\ work' = work
      /\ handler' = [at |-> "complete", urb |-> 0, status |-> p.status]
  BY DEF Completed
<1>3. N' = N /\ Queued' = Queued /\ ToSet(done') = ToSet(done) /\ CauseInv'
  BY <1>1, SameKernel
<1>4. priv' \in Priv /\ ~priv'.urbs
  BY <1>2 DEF Priv
<1>5. handler' \in Handler /\ handler'.at = "complete"
  BY <1>2 DEF Handler, Priv, Reports
<1>6. TypeInv'
  BY <1>1, <1>2, <1>3, <1>4, <1>5 DEF TypeInv
<1>7. ~Flying' /\ ~Locked'
  BY <1>2, <1>5 DEF Flying, Locked
<1>8. EndedInv'
  <2>1. phase # "idle"
    BY HandledFacts
  <2> QED
    BY <1>3, <1>4, <1>5, <1>7, <2>1 DEF EndedInv
<1>9. CountInv'
  BY <1>1, <1>3, <1>5, <1>7 DEF CountInv
<1>10. SubmitInv' /\ OrderInv'
  BY <1>2, <1>7 DEF SubmitInv, OrderInv, Locked, None
<1> QED
  BY <1>3, <1>6, <1>8, <1>9, <1>10 DEF Inv

\* It goes on with one URB less; the others are discarded, or not.
LEMMA AwaitsKeeps ==
  ASSUME Inv, handler.at = "handle", ~Locked,
         NEW p \in Priv, p.urbs = priv.urbs, p.retired = priv.retired + 1, p.action = "NORMAL" => priv.action = "NORMAL",
         priv' = p, handler' = Idle, work' \in Work,
         work' = work \/ (work'.who = "handle" /\ (p.action = "NORMAL" => Queued = {})),
         urbs' = urbs, done' = done, refuses' = refuses, sent' = sent,
         kind' = kind, plugged' = plugged, phase' = phase
  PROVE  Inv'
<1>1. TypeInv /\ EndedInv /\ CountInv /\ SubmitInv /\ OrderInv /\ CauseInv
  BY DEF Inv
<1>2. /\ N \in Nat /\ priv.retired \in Nat /\ priv.urbs /\ phase # "idle" /\ Given = N
      /\ Cardinality(Queued) \in Nat /\ Len(done) \in Nat
      /\ Cardinality(Queued) + Len(done) + 1 + priv.retired = N
  BY HandledFacts
<1>3. N' = N /\ Queued' = Queued /\ ToSet(done') = ToSet(done) /\ CauseInv'
  BY <1>1, SameKernel
<1>4. handler' \in Handler /\ handler'.at = "poll"
  BY DEF Handler, Idle, None
<1>5. TypeInv'
  BY <1>1, <1>3, <1>4 DEF TypeInv
<1>6. /\ Handled' = {} /\ work'.who # "submit" /\ Given' = N /\ Flying
      /\ (Discarding' /\ p.action = "NORMAL" => Queued = {})
  <2>1. work.who = None
    BY DEF Locked
  <2>2. work'.who # "submit" /\ (Discarding' /\ p.action = "NORMAL" => Queued = {})
    BY <2>1 DEF Discarding, None
  <2>3. Handled' = {}
    BY <1>4 DEF Handled
  <2>4. Given' = N
    BY <1>3, <2>2 DEF Given
  <2>5. Flying
    BY <1>2 DEF Flying
  <2> QED
    BY <2>2, <2>3, <2>4, <2>5
<1>7. EndedInv'
  BY <1>2, <1>4 DEF EndedInv
<1>8. CountInv'
  <2>1. Cardinality(Handled') = 0
    BY <1>6, FS_EmptySet
  <2>2. Cardinality(Queued') + Len(done') + Cardinality(Handled') + priv'.retired = Given'
    <3>1. Cardinality(Queued) + Len(done) + 0 + (priv.retired + 1) = N
      BY <1>2
    <3> QED
      BY <1>3, <1>6, <2>1, <3>1
  <2> QED
    BY <1>1, <1>2, <1>3, <1>4, <2>2 DEF CountInv
<1>9. SubmitInv'
  BY <1>6 DEF SubmitInv
<1>10. OrderInv'
  <2> SUFFICES ASSUME p.action = "NORMAL"
               PROVE  /\ Asc(done) /\ Below(ToSet(done), Queued) /\ (Discarding' => Queued = {})
    BY <1>3, <1>6 DEF OrderInv, Below
  <2> QED
    BY <1>1, <1>6 DEF OrderInv
<1> QED
  BY <1>3, <1>5, <1>7, <1>8, <1>9, <1>10 DEF Inv

\* One more has come back.
LEMMA RetiredFacts ==
  ASSUME priv \in Priv
  PROVE  /\ Retired \in Priv /\ Retired.urbs = priv.urbs /\ Retired.action = priv.action
         /\ Retired.status = priv.status /\ Retired.retired = priv.retired + 1 /\ Retired.packets = priv.packets
<1>1. PICK r \in Nat : r = priv.retired + 1
  BY DEF Priv
<1>2. Retired = [priv EXCEPT !.retired = r]
  BY <1>1 DEF Retired
<1> QED
  BY <1>1, <1>2 DEF Priv

\* handle_control_completion
LEMMA HandleControlKeeps ==
  ASSUME Inv, HandleControl
  PROVE  Inv'
<1>1. /\ handler.at = "handle" /\ ~Locked /\ kind.type = "control"
      /\ Completed([priv EXCEPT !.status =
                      IF priv.action = "CANCELLED" THEN "CANCELLED" ELSE TransferStatus(urbs[1].status)])
      /\ urbs' = urbs /\ done' = done /\ refuses' = refuses /\ sent' = sent
      /\ kind' = kind /\ plugged' = plugged /\ phase' = phase
  BY DEF HandleControl, kernel
<1>2. N <= 1
  BY <1>1 DEF Inv, CauseInv
<1>3. Queued = {} /\ done = << >>
  BY <1>1, <1>2, LastFacts
<1>4. PICK p : p = [priv EXCEPT !.status =
                     IF priv.action = "CANCELLED" THEN "CANCELLED" ELSE TransferStatus(urbs[1].status)]
  OBVIOUS
<1>5. TransferStatus(urbs[1].status) \in Reports /\ "CANCELLED" \in Reports
  BY DEF TransferStatus, Reports
<1>6. p \in Priv
  <2>1. priv \in Priv
    BY DEF Inv, TypeInv
  <2> QED
    BY <1>4, <1>5, <2>1 DEF Priv
<1> QED
  BY <1>1, <1>3, <1>4, <1>6, CompletedKeeps

\* handle_bulk_completion of a transfer that is torn down
LEMMA HandleSurplusKeeps ==
  ASSUME Inv, HandleSurplus
  PROVE  Inv'
<1>1. /\ handler.at = "handle" /\ ~Locked /\ priv.action # "NORMAL"
      /\ IF Retired.retired = N THEN Completed(Settled(Retired)) ELSE Awaits(Retired)
      /\ urbs' = urbs /\ done' = done /\ refuses' = refuses /\ sent' = sent
      /\ kind' = kind /\ plugged' = plugged /\ phase' = phase
  BY DEF HandleSurplus, kernel
<1>2. priv \in Priv /\ work \in Work
  BY DEF Inv, TypeInv
<1>3. PICK r \in Priv : /\ r = Retired /\ r.urbs = priv.urbs /\ r.action = priv.action
                        /\ r.retired = priv.retired + 1
  BY <1>2, RetiredFacts
<1>4. CASE r.retired = N
  <2>1. Queued = {} /\ done = << >>
    BY <1>1, <1>3, <1>4, LastFacts
  <2>2. PICK p : p = Settled(r)
    OBVIOUS
  <2>3. p \in Priv
    BY <2>2 DEF Settled, Priv, Reports
  <2>4. Completed(p)
    BY <1>1, <1>3, <1>4, <2>2
  <2> QED
    BY <1>1, <2>1, <2>3, <2>4, CompletedKeeps
<1>5. CASE r.retired # N
  <2>1. priv' = r /\ handler' = Idle /\ work' = work
    BY <1>1, <1>3, <1>5 DEF Awaits
  <2> QED
    BY <1>1, <1>2, <1>3, <2>1, AwaitsKeeps
<1> QED
  BY <1>4, <1>5

\* handle_iso_completion
LEMMA HandleIsoKeeps ==
  ASSUME Inv, HandleIso
  PROVE  Inv'
<1>1. PICK u : u = urbs[handler.urb]
  OBVIOUS
<1>2. PICK results : results = [j \in 1 .. u.room |-> IF j <= u.actual THEN u.from + j ELSE 0]
  OBVIOUS
<1>3. PICK p : p = [Retired EXCEPT !.packets = @ \o results]
  OBVIOUS
<1>4. PICK status \in {"CANCELLED", "ERROR", "COMPLETED", "NO_DEVICE"} :
        status = IF p.action = "CANCELLED" THEN "CANCELLED" ELSE IF p.action # "NORMAL" THEN "ERROR"
                 ELSE IF u.status \in {"ok", "killed"} THEN "COMPLETED" ELSE "NO_DEVICE"
  OBVIOUS
<1>5. /\ handler.at = "handle" /\ ~Locked
      /\ IF (IF p.action # "NORMAL" THEN p.retired = N ELSE handler.urb = N)
         THEN Completed([p EXCEPT !.status = status]) ELSE Awaits(p)
      /\ urbs' = urbs /\ done' = done /\ refuses' = refuses /\ sent' = sent
      /\ kind' = kind /\ plugged' = plugged /\ phase' = phase
  BY <1>1, <1>2, <1>3, <1>4 DEF HandleIso, kernel
<1>6. priv \in Priv /\ work \in Work
  BY DEF Inv, TypeInv
<1>7. u \in Urb
  BY <1>1, <1>5, HandledFacts
<1>8. results \in Seq(Nat)
  <2>1. u.room \in Nat /\ u.from \in Nat
    BY <1>7 DEF Urb
  <2>2. results \in [1 .. u.room -> Nat]
    BY <1>2, <2>1
  <2> QED
    BY <2>1, <2>2
<1>9. p \in Priv /\ p.urbs = priv.urbs /\ p.action = priv.action /\ p.retired = priv.retired + 1
  <2>1. PICK r \in Priv : r = Retired /\ r.urbs = priv.urbs /\ r.action = priv.action /\ r.retired = priv.retired + 1
    BY <1>6, RetiredFacts
  <2>2. PICK all \in Seq(Nat) : all = r.packets \o results
    <3>1. PICK packets \in Seq(Nat) : packets = r.packets
      BY DEF Priv
    <3>2. packets \o results \in Seq(Nat)
      BY <1>8
    <3> QED
      BY <3>1, <3>2
  <2>3. p = [r EXCEPT !.packets = all]
    BY <1>3, <2>1, <2>2
  <2>4. p \in Priv /\ p.urbs = r.urbs /\ p.action = r.action /\ p.retired = r.retired
    BY <2>3 DEF Priv
  <2> QED
    BY <2>1, <2>4
<1>10. CASE IF p.action # "NORMAL" THEN p.retired = N ELSE handler.urb = N
  <2>1. (priv.action = "NORMAL" /\ handler.urb = N) \/ priv.retired + 1 = N
    BY <1>9, <1>10
  <2>2. Queued = {} /\ done = << >>
    BY <1>5, <2>1, LastFacts
  <2>3. PICK q : q = [p EXCEPT !.status = status]
    OBVIOUS
  <2>4. q \in Priv
    BY <1>9, <2>3 DEF Priv, Reports
  <2>5. Completed(q)
    BY <1>5, <1>10, <2>3
  <2> QED
    BY <1>5, <2>2, <2>4, <2>5, CompletedKeeps
<1>11. CASE ~(IF p.action # "NORMAL" THEN p.retired = N ELSE handler.urb = N)
  <2>1. priv' = p /\ handler' = Idle /\ work' = work
    BY <1>5, <1>11 DEF Awaits
  <2> QED
    BY <1>5, <1>6, <1>9, <2>1, AwaitsKeeps
<1> QED
  BY <1>10, <1>11

\* What is noted of a URB that has failed.
LEMMA NotedFacts ==
  ASSUME NEW p \in Priv, NEW s \in {"stall", "error", "shutdown", "overflow"}
  PROVE  /\ Noted(p, s) \in Priv /\ Noted(p, s).urbs = p.urbs /\ Noted(p, s).retired = p.retired
         /\ Noted(p, s).action = IF s = "error" THEN "ERROR" ELSE p.action
<1>1. CASE s = "shutdown"
  <2>1. Noted(p, s) = [p EXCEPT !.status = "NO_DEVICE"]
    BY <1>1 DEF Noted
  <2> QED
    BY <1>1, <2>1 DEF Priv, Reports
<1>2. CASE s = "error"
  <2>1. PICK status \in Reports : status = IF p.status = "COMPLETED" THEN "ERROR" ELSE p.status
    BY DEF Priv, Reports
  <2>2. Noted(p, s) = [p EXCEPT !.action = "ERROR", !.status = status]
    BY <1>2, <2>1 DEF Noted
  <2> QED
    BY <1>2, <2>2 DEF Priv
<1>3. CASE s \in {"stall", "overflow"}
  <2>1. PICK status \in Reports : status = IF p.status = "COMPLETED" THEN TransferStatus(s) ELSE p.status
    BY DEF Priv, Reports, TransferStatus
  <2>2. Noted(p, s) = [p EXCEPT !.status = status]
    BY <1>3, <2>1 DEF Noted
  <2> QED
    BY <1>3, <2>2 DEF Priv
<1> QED
  BY <1>1, <1>2, <1>3

\* handle_bulk_completion
LEMMA HandleBulkKeeps ==
  ASSUME Inv, HandleBulk
  PROVE  Inv'
<1>1. PICK i : i = handler.urb
  OBVIOUS
<1>2. PICK u : u = urbs[i]
  OBVIOUS
<1>3. PICK r : r = Retired
  OBVIOUS
<1>4. PICK next : next = IF u.status \in {"stall", "error", "shutdown"} THEN Noted(r, u.status)
                         ELSE [r EXCEPT !.action = "COMPLETED_EARLY"]
  OBVIOUS
<1>5. /\ handler.at = "handle" /\ ~Locked /\ priv.action = "NORMAL" /\ kind.type \in {"bulk", "interrupt"}
      /\ urbs' = urbs /\ done' = done /\ refuses' = refuses /\ sent' = sent
      /\ kind' = kind /\ plugged' = plugged /\ phase' = phase
  BY DEF HandleBulk, kernel
<1>6. \/ u.status = "overflow" /\ Completed(Noted(r, "overflow"))
      \/ i = N /\ Completed(r)
      \/ Awaits(r)
      \/ IF r.retired = N THEN Completed(next) ELSE DiscardRest(next, i)
  BY <1>1, <1>2, <1>3, <1>4 DEF HandleBulk
<1>7. /\ N \in Nat /\ i \in 1 .. N /\ priv \in Priv /\ work \in Work /\ u \in Urb
      /\ TypeInv /\ CauseInv
  BY <1>1, <1>2, <1>5, HandledFacts DEF Inv, TypeInv
<1>8. r \in Priv /\ r.urbs = priv.urbs /\ r.action = "NORMAL" /\ r.retired = priv.retired + 1
  BY <1>3, <1>5, <1>7, RetiredFacts
<1>9. CASE u.status = "overflow" /\ Completed(Noted(r, "overflow"))
  <2>1. i = N
    BY <1>2, <1>7, <1>9 DEF CauseInv
  <2>2. Queued = {} /\ done = << >>
    BY <1>1, <1>5, <2>1, LastFacts
  <2>3. PICK p : p = Noted(r, "overflow")
    OBVIOUS
  <2>4. p \in Priv /\ Completed(p)
    BY <1>8, <1>9, <2>3, NotedFacts
  <2> QED
    BY <1>5, <2>2, <2>4, CompletedKeeps
<1>10. CASE i = N /\ Completed(r)
  <2>1. Queued = {} /\ done = << >>
    BY <1>1, <1>5, <1>10, LastFacts
  <2> QED
    BY <1>5, <1>8, <1>10, <2>1, CompletedKeeps
<1>11. CASE Awaits(r)
  <2>1. priv' = r /\ handler' = Idle /\ work' = work
    BY <1>11 DEF Awaits
  <2> QED
    BY <1>5, <1>7, <1>8, <2>1, AwaitsKeeps
<1>12. CASE IF r.retired = N THEN Completed(next) ELSE DiscardRest(next, i)
  <2>1. next \in Priv /\ next.urbs = r.urbs /\ next.retired = r.retired
    <3>1. CASE u.status \in {"stall", "error", "shutdown"}
      <4>1. PICK s \in {"stall", "error", "shutdown", "overflow"} : s = u.status
        BY <3>1
      <4>2. next = Noted(r, s)
        BY <1>4, <3>1, <4>1
      <4> QED
        BY <1>8, <4>2, NotedFacts
    <3>2. CASE u.status \notin {"stall", "error", "shutdown"}
      <4>1. next = [r EXCEPT !.action = "COMPLETED_EARLY"]
        BY <1>4, <3>2
      <4> QED
        BY <1>8, <4>1 DEF Priv
    <3> QED
      BY <3>1, <3>2
  <2>2. CASE r.retired = N
    <3>1. Queued = {} /\ done = << >>
      BY <1>5, <1>8, <2>2, LastFacts
    <3>2. Completed(next)
      BY <1>12, <2>2
    <3> QED
      BY <1>5, <2>1, <3>1, <3>2, CompletedKeeps
  <2>3. CASE r.retired # N
    <3>1. /\ priv' = next /\ handler' = Idle
          /\ work' = [who |-> "handle", at |-> N, last |-> i + 1]
      BY <1>12, <2>3 DEF DiscardRest
    <3>2. work' \in Work /\ work'.who = "handle"
      BY <1>7, <3>1 DEF Work
    <3>3. ASSUME next.action = "NORMAL" PROVE Queued = {}
      <4>1. u.status \in {"stall", "shutdown"}
        <5>1. CASE u.status = "error"
          <6>1. next = Noted(r, "error")
            BY <1>4, <5>1
          <6>2. next.action = "ERROR"
            BY <1>8, <6>1, NotedFacts
          <6> QED
            BY <3>3, <6>2
        <5>2. CASE u.status \notin {"stall", "error", "shutdown"}
          <6>1. next = [r EXCEPT !.action = "COMPLETED_EARLY"]
            BY <1>4, <5>2
          <6>2. next.action = "COMPLETED_EARLY"
            BY <1>8, <6>1 DEF Priv
          <6> QED
            BY <3>3, <6>2
        <5> QED
          BY <5>1, <5>2
      <4>2. CASE u.status = "shutdown"
        BY <1>2, <1>7, <4>2 DEF CauseInv
      <4>3. CASE u.status = "stall"
        <5>1. N = 1 \/ refuses
          BY <1>2, <1>5, <1>7, <4>3 DEF CauseInv
        <5>2. CASE refuses
          BY <1>7, <5>2 DEF CauseInv
        <5>3. CASE N = 1
          <6>1. N <= 1
            BY <5>3
          <6> QED
            BY <1>5, <6>1, LastFacts
        <5> QED
          BY <5>1, <5>2, <5>3
      <4> QED
        BY <4>1, <4>2, <4>3
    <3>4. next.retired = priv.retired + 1 /\ next.urbs = priv.urbs
      BY <1>8, <2>1
    <3> QED
      BY <1>5, <2>1, <3>1, <3>2, <3>3, <3>4, AwaitsKeeps
  <2> QED
    BY <2>2, <2>3
<1> QED
  BY <1>6, <1>9, <1>10, <1>11, <1>12

-----------------------------------------------------------------------------
(* The invariant holds. *)

\* At first there is no URB.
LEMMA InitInv ==
  ASSUME UsbUrbsAssumption, StallsContinue, Init
  PROVE  Inv
<1>1. /\ kind \in Kinds /\ plugged = TRUE /\ urbs = << >> /\ done = << >> /\ refuses = FALSE /\ sent = 0
      /\ priv = [urbs |-> FALSE, action |-> "NORMAL", retired |-> 0, status |-> "COMPLETED", packets |-> << >>]
      /\ phase = "idle" /\ work = [who |-> None, at |-> 0, last |-> 0]
      /\ handler = [at |-> "poll", urb |-> 0, status |-> None]
  BY DEF Init, NoPriv, NoWork, Idle
<1>2. N = 0 /\ Queued = {} /\ ToSet(done) = {} /\ Handled = {} /\ ~Locked /\ ~Flying
  BY <1>1, ShortFacts DEF N, Queued, Handled, Locked, Flying
<1>3. TypeInv
  <2>1. << >> \in Seq(Urb) /\ << >> \in Seq(1 .. N) /\ << >> \in Seq(Nat)
    OBVIOUS
  <2>2. priv \in Priv
    BY <1>1, <2>1 DEF Priv, Reports
  <2>3. work \in Work /\ handler \in Handler
    BY <1>1 DEF Work, Handler, None
  <2> QED
    BY <1>1, <2>1, <2>2, <2>3 DEF TypeInv
<1>4. EndedInv /\ SubmitInv /\ OrderInv
  BY <1>1, <1>2 DEF EndedInv, SubmitInv, OrderInv, None
<1>5. CountInv /\ CauseInv
  BY <1>1, <1>2 DEF CountInv, CauseInv
<1> QED
  BY <1>3, <1>4, <1>5 DEF Inv

\* Every step keeps the invariant.
LEMMA NextInv ==
  ASSUME UsbUrbsAssumption, StallsContinue, IsoSplits, Inv, [Next]_vars
  PROVE  Inv'
<1>1. CASE Submit
  BY <1>1, SubmitKeeps
<1>2. CASE Cancel
  BY <1>2, CancelKeeps
<1>3. CASE Serve \/ Fail \/ Unplug \/ DiscardNext
  BY <1>3, DeviceKeeps
<1>4. CASE SubmitUrb
  BY <1>4, SubmitUrbKeeps
<1>5. CASE FirstRefused
  BY <1>5, FirstRefusedKeeps
<1>6. CASE RefusedAsEarly \/ LaterRefused
  BY <1>6, RefusedKeeps
<1>7. CASE Submitted \/ Unlock
  BY <1>7, ReleaseKeeps
<1>8. CASE Reap
  BY <1>8, ReapKeeps
<1>9. CASE HandleControl
  BY <1>9, HandleControlKeeps
<1>10. CASE HandleSurplus
  BY <1>10, HandleSurplusKeeps
<1>11. CASE HandleBulk
  BY <1>11, HandleBulkKeeps
<1>12. CASE HandleIso
  BY <1>12, HandleIsoKeeps
<1>13. CASE Complete \/ Disconnect
  BY <1>13, OverKeeps
<1>14. CASE UNCHANGED vars
  <2>1. /\ kind' = kind /\ plugged' = plugged /\ urbs' = urbs /\ done' = done /\ refuses' = refuses /\ sent' = sent
        /\ priv' = priv /\ phase' = phase /\ work' = work /\ handler' = handler
    BY <1>14 DEF vars
  <2>2. N' = N /\ Queued' = Queued /\ Handled' = Handled /\ Flying' = Flying /\ Locked' = Locked /\ Discarding' = Discarding
    BY <2>1 DEF N, Queued, Handled, Flying, Locked, Discarding
  <2>3. Given' = Given /\ ToSet(done') = ToSet(done) /\ (CauseInv => CauseInv')
    BY <2>1, <2>2, SameKernel DEF Given
  <2>4. (TypeInv => TypeInv') /\ (EndedInv => EndedInv')
    BY <2>1, <2>2 DEF TypeInv, EndedInv
  <2>5. (CountInv => CountInv') /\ (SubmitInv => SubmitInv') /\ (OrderInv => OrderInv')
    BY <2>1, <2>2, <2>3 DEF CountInv, SubmitInv, OrderInv
  <2> QED
    BY <2>3, <2>4, <2>5 DEF Inv
<1> QED
  BY <1>1, <1>2, <1>3, <1>4, <1>5, <1>6, <1>7, <1>8, <1>9, <1>10, <1>11, <1>12, <1>13, <1>14 DEF Next, Proceed

\* What the invariant says of the URBs.
LEMMA InvFrees ==
  ASSUME Inv
  PROVE  FreedOnlyWhenRetired
<1>1. TypeInv /\ EndedInv /\ CountInv
  BY DEF Inv
<1>2. SUFFICES ASSUME handler.at # "off"
               PROVE  /\ \A i \in 1 .. N : urbs[i].at # None => priv.urbs
                      /\ handler.at = "handle" => priv.urbs
  BY DEF FreedOnlyWhenRetired
<1>3. CASE Flying
  BY <1>1, <1>3 DEF CountInv
<1>4. CASE ~Flying
  <2>1. Queued = {} /\ done = << >> /\ handler.at # "handle"
    BY <1>1, <1>2, <1>4 DEF EndedInv, Flying
  <2>2. ASSUME NEW i \in 1 .. N PROVE urbs[i].at = None
    <3>1. urbs[i].at \in {None, "queued", "done"}
      BY <1>1, QueuedFacts DEF Urb
    <3>2. urbs[i].at # "queued"
      BY <2>1 DEF Queued
    <3>3. urbs[i].at # "done"
      BY <1>1, <2>1, ShortFacts DEF CountInv
    <3> QED
      BY <3>1, <3>2, <3>3
  <2> QED
    BY <2>1, <2>2
<1> QED
  BY <1>3, <1>4

\* Whatever happens, the URBs of a transfer are freed when the kernel has none of
\* them and none is handled ("wait for their completion before reporting results").
THEOREM FreedOnlyWhenRetiredHolds ==
  ASSUME UsbUrbsAssumption, StallsContinue, IsoSplits
  PROVE  Spec => []FreedOnlyWhenRetired
<1>1. Init => Inv
  BY InitInv
<1>2. Inv /\ [Next]_vars => Inv'
  BY NextInv
<1>3. Inv => FreedOnlyWhenRetired
  BY InvFrees
<1> QED
  BY <1>1, <1>2, <1>3, PTL DEF Spec

-----------------------------------------------------------------------------
(* What is known of a transfer that has not ended, on the way to ReportIsTrue. *)

\* Where the URBs of a transfer begin, in units, and where the last of them ends.
Splits(f, k) ==
  LET u == UnitsOf(k) IN
  /\ f[1] = 0 /\ f[Len(u) + 1] = LengthOf(k)
  /\ \A i \in DOMAIN u : f[i + 1] = f[i] + u[i]
  /\ k.type \in {"bulk", "interrupt"} => \A i \in DOMAIN u : f[i] = (i - 1) * BulkLength(k)
Start(k) == CHOOSE f \in [1 .. Len(UnitsOf(k)) + 1 -> Nat] : Splits(f, k)

\* The transfers that handle_bulk_completion handles.
BulkLike == kind.type \in {"bulk", "interrupt"}
\* URBs whose end is beyond what the device sends.
Bad(i) == urbs[i].status \in Faults \/ (urbs[i].status \in {"ok", "short"} /\ urbs[i].actual < urbs[i].room)
\* No URB before j is bad.
IsFirst(j) == \A i \in 1 .. N : i < j => ~Bad(i)
\* The URBs that have ended and are not retired.
Back == ToSet(done) \cup Handled
\* Nothing has torn the transfer down; and it has not been seen to fail.
Fresh == priv.action = "NORMAL"
Clean == Fresh /\ priv.status = "COMPLETED"
\* Where the units of URB i stop, and the URBs whose units are not counted, in their order.
Stops(i) == urbs[i].from + urbs[i].actual
Line == IF handler.at = "handle" THEN <<handler.urb>> \o done ELSE done

\* A URB has a status once it has ended, and data only if it was served.
StatusInv ==
  /\ \A i \in Queued : urbs[i].status = None
  /\ \A i \in Back : urbs[i].status # None
  /\ work.who = "submit" => \A i \in work.at .. N : urbs[i].status = None
  /\ \A i \in 1 .. N :
       /\ urbs[i].actual <= urbs[i].room
       /\ urbs[i].status \in {None, "unlinked", "shutdown"} => urbs[i].actual = 0
       /\ urbs[i].status = "killed" => ~Fresh
\* After a bad URB none is queued before it, and what comes back empty follows a bad one.
BadInv ==
  \A i \in 1 .. N :
       /\ Bad(i) => \A q \in Queued : i < q
       /\ urbs[i].status = "unlinked" => \E j \in 1 .. N : j < i /\ Bad(j)
\* The device has cut the transfer short when a URB is bad; how, the first bad one says.
CutInv ==
  /\ (past \cap (Faults \cup {"short"}) # {}) <=> \E i \in 1 .. N : Bad(i)
  /\ \A j \in 1 .. N : urbs[j].status \in Faults /\ IsFirst(j) => urbs[j].status \in past
  /\ \A f \in past \cap Faults : f \in kind.faults /\ \E j \in 1 .. N : urbs[j].status = f /\ IsFirst(j)
\* As long as no failure has been noted, no bad URB is retired.
GoneInv == Clean /\ BulkLike => \A i \in 1 .. N : Bad(i) => i \in Back
\* The kernel refuses more of a continuation only after a short end, while URBs are submitted.
EarlyInv ==
  /\ refuses => Continues(kind)
  /\ work.who = "submit" => phase = "submitting" /\ priv.status = "COMPLETED" /\ past \cap Faults = {} /\ (refuses => "short" \in past)
\* Why a transfer is torn down, and what has been noted of it, is true.
ActionInv ==
    /\ priv.action = "SUBMIT_FAILED" => "refused" \in past
    /\ priv.action = "CANCELLED" => "asked" \in past
    /\ priv.action = "ERROR" => priv.status # "COMPLETED"
    /\ priv.action = "COMPLETED_EARLY" /\ priv.status = "COMPLETED" => "short" \in past /\ past \cap Faults = {}
    /\ kind.type = "control" => priv.action \in {"NORMAL", "CANCELLED"}
    /\ kind.type = "iso" => priv.action \in {"NORMAL", "SUBMIT_FAILED", "CANCELLED"}
    /\ priv.status = "STALL" => "stall" \in past
    /\ priv.status = "ERROR" => past \cap {"error", "refused"} # {}
    /\ priv.status \in {"COMPLETED", "STALL", "ERROR", "NO_DEVICE"}
    /\ ~BulkLike => priv.status = "COMPLETED"
\* The URBs are those of the kind of the transfer.
SplitInv ==
  /\ DOMAIN buffer = 1 .. LengthOf(kind) /\ N = Len(UnitsOf(kind))
  /\ \A i \in 1 .. N : urbs[i].room = UnitsOf(kind)[i]
\* As long as nothing has torn it down, the URBs that are not retired are the last ones.
PlaceInv == Fresh => Queued \cup Back = priv.retired + 1 .. Given
\* The URBs that have ended hold, in their order, what has been sent and is not counted.
LineInv ==
  kind.type # "iso" =>
    /\ Line = << >> => transferred = sent
    /\ Line # << >> => urbs[Line[1]].from = transferred /\ Stops(Line[Len(Line)]) = sent
    /\ \A m \in 1 .. Len(Line) - 1 : urbs[Line[m + 1]].from = Stops(Line[m])
\* The device has sent no more than what lies before the URBs the kernel has.
FrontInv ==
  /\ sent <= LengthOf(kind)
  /\ \A i \in 1 .. N : Stops(i) <= sent /\ (urbs[i].actual > 0 => urbs[i].from <= Start(kind)[i] /\ \A q \in Queued : i < q)
  /\ \A i \in Queued : sent <= Start(kind)[i]
  /\ work.who = "submit" => sent <= Start(kind)[work.at]
\* What is counted of a transfer that goes well are whole URBs.
WholeInv == Clean /\ BulkLike => transferred = Start(kind)[priv.retired + 1]
Copied == IF Fresh /\ handler.at = "handle" THEN urbs[handler.urb].actual ELSE 0
\* What is counted, and what the kernel has copied of the URB being handled, is in its place.
PrefixInv == BulkLike => \A p \in 1 .. transferred + Copied : buffer[p] = p
\* After a failure that does not tear the transfer down, nothing comes any more.
AfterInv == Fresh /\ ~Clean => Queued = {} /\ \A i \in Back : urbs[i].actual = 0
\* After the bad URB of a continuation, the kernel gives the others nothing.
ContInv ==
  Continues(kind) =>
    \A i \in 1 .. N : Bad(i) => (refuses \/ i = N) /\ \A j \in 1 .. N : i < j => urbs[j].actual = 0
\* A URB after one that the unplugged device has ended is ended like it.
ShutInv ==
  Fresh => \A i, j \in 1 .. N : i < j /\ urbs[i].status = "shutdown" => urbs[j].status \in {"shutdown", None}
\* The results of the first n packets.
Told(n) == [p \in 1 .. n |-> p]
\* The URBs of an isochronous transfer are whole, and their results follow each other.
IsoInv ==
  kind.type = "iso" =>
    /\ \A i \in 1 .. N : urbs[i].status \in {None, "ok", "killed", "shutdown"}
    /\ Fresh => \A i \in 1 .. N : urbs[i].status = "ok" => urbs[i].from = Start(kind)[i] /\ urbs[i].actual = urbs[i].room
    /\ Fresh /\ plugged => /\ Queued = {} => sent = Start(kind)[Given + 1]
                           /\ \A q \in Queued : q - 1 \in Queued \/ sent = Start(kind)[q]
    /\ Fresh => (~plugged /\ \A i \in Back : urbs[i].status = "shutdown") \/ priv.packets = Told(Start(kind)[priv.retired + 1])

\* All of this, of a transfer that has not ended.
TransferInv ==
  Flying => /\ StatusInv /\ BadInv /\ CutInv /\ GoneInv /\ EarlyInv /\ ActionInv
            /\ SplitInv /\ PlaceInv /\ LineInv /\ FrontInv /\ WholeInv /\ PrefixInv /\ AfterInv /\ ContInv /\ ShutInv /\ IsoInv

\* The status s is true of the transfer, and what has been received is whole and in order.
True(s) ==
  /\ s = "COMPLETED" => past \cap Faults = {}
  /\ s = "STALL" => "stall" \in past
  /\ s = "OVERFLOW" => "overflow" \in past
  /\ s = "ERROR" => past \cap {"error", "refused"} # {}
  /\ s = "CANCELLED" => "asked" \in past
Whole(s) ==
  s # "NO_DEVICE" =>
    /\ kind.type # "iso" => transferred = sent
    /\ BulkLike /\ ~kind.out => \A p \in 1 .. transferred : buffer[p] = p
    /\ kind.type = "iso" /\ s = "COMPLETED" => priv.packets = [p \in 1 .. Len(kind.packets) |-> p]
\* What is about to be told, and what has been told, is true.
Reported(s) == (True(s) \/ (s = "ERROR" /\ Lacking)) /\ (s = "COMPLETED" => ~Lacking)
ToldInv ==
  /\ handler.at = "complete" => True(Outcome) /\ Whole(Outcome) /\ Whole("CANCELLED")
  /\ reported # None => /\ Reported(reported) /\ Whole(reported)
                        /\ phase = "idle" /\ Queued = {} /\ ~Locked

-----------------------------------------------------------------------------
(* What the device and the kernel do to a transfer, seen from its URBs. *)

\* Everything but the URBs, and the URB that is discarded next, stays.
Calm ==
  /\ kind' = kind /\ priv' = priv /\ buffer' = buffer /\ transferred' = transferred
  /\ phase' = phase /\ handler' = handler /\ reported' = reported
  /\ work'.who = work.who /\ (work.who = "submit" => work' = work)
\* A URB ends where the device, or a fault, has cut the transfer short.
Beyond(i, status, n) == status \in Faults \/ (status \in {"ok", "short"} /\ n < urbs[i].room)
Ends(i, status, n) ==
  /\ i \in Queued /\ status \in Faults \cup {"ok", "short", "killed"} /\ n \in 0 .. urbs[i].room
  /\ EndsAs(i, status, n)
  /\ refuses' = (refuses \/ (status \in Faults \cup {"short"} /\ Continues(kind)))
  /\ (\A q \in Queued : i <= q) \/ (n = 0 /\ status = "killed")
  /\ status \in {"ok", "short"} /\ (kind.out \/ kind.type = "iso") => n = urbs[i].room
  /\ status = "short" => Continues(kind) /\ n < urbs[i].room
  /\ status = "ok" /\ n < urbs[i].room => ~Continues(kind) \/ i = N
  /\ status \in Faults => status \in kind.faults /\ (FaultsEarly \/ phase # "submitting")
  /\ status = "killed" => Discarding
  /\ past' = IF Beyond(i, status, n) THEN Cut(IF status \in Faults THEN status ELSE "short") ELSE past
  /\ plugged' = plugged /\ Calm
AllEnd == Leaves /\ refuses' = refuses /\ past' = past /\ plugged /\ ~plugged' /\ Calm
NoneEnds == UNCHANGED <<kernel, past, plugged>> /\ Calm

\* How many units a URB may end with when it is cut.
LEMMA RoomFacts ==
  ASSUME NEW r \in Nat, NEW n \in 0 .. Max({r - 1, 0})
  PROVE  n \in 0 .. r
<1>1. \E x \in {r - 1, 0} : \A y \in {r - 1, 0} : x >= y
  <2>1. CASE r - 1 >= 0
    BY <2>1
  <2>2. CASE ~(r - 1 >= 0)
    BY <2>2
  <2> QED
    BY <2>1, <2>2
<1>2. Max({r - 1, 0}) \in {r - 1, 0}
  BY <1>1 DEF Max
<1> QED
  BY <1>2

\* A step of the device or of the kernel ends one URB, with those that follow it, or
\* all, or none.
LEMMA DeviceFacts ==
  ASSUME UsbUrbsAssumption, TypeInv, CauseInv, Serve \/ Fail \/ Unplug \/ DiscardNext
  PROVE  (\E i, status, n : Ends(i, status, n)) \/ AllEnd \/ NoneEnds
<1>1. Queued \in SUBSET Nat /\ \A i \in Queued : urbs[i].room \in Nat
  BY QueuedFacts DEF Urb
<1>2. CASE Serve
  <2>1. PICK i \in Queued : i = Min(Queued)
    BY <1>2, LeastQueued DEF Serve
  <2>2. \A q \in Queued : i <= q
    BY <1>1, <2>1, MinIsLeast
  <2>3. PICK r \in Nat : r = urbs[i].room
    BY <1>1
  <2>4. PICK n \in (IF kind.out \/ kind.type = "iso" THEN r ELSE 0) .. r :
          /\ End(i, IF n < r /\ Continues(kind) /\ ~kind.out /\ i < N THEN "short" ELSE "ok", n)
          /\ past' = IF n < r THEN Cut("short") ELSE past
    BY <1>2, <2>1, <2>3 DEF Serve
  <2>5. PICK status \in {"ok", "short"} :
          status = IF n < r /\ Continues(kind) /\ ~kind.out /\ i < N THEN "short" ELSE "ok"
    OBVIOUS
  <2>6. n \in Nat /\ n <= r /\ End(i, status, n) /\ status \in Statuses
    BY <2>3, <2>4, <2>5 DEF Statuses
  <2>7. EndsAs(i, status, n) /\ refuses' = (refuses \/ (status \in Faults \cup {"short"} /\ Continues(kind)))
    BY <2>6, EndFacts
  <2>8. Calm /\ plugged' = plugged
    BY <1>2 DEF Serve, Calm, data
  <2>9. /\ kind.out \/ kind.type = "iso" => n = r
        /\ status = "short" => Continues(kind) /\ n < r
        /\ status = "ok" /\ n < r => ~Continues(kind) \/ i = N
    <3>1. kind.out \/ kind.type = "iso" => n = r
      BY <2>3, <2>4
    <3>2. i \in Nat /\ N \in Nat /\ i <= N
      BY QueuedFacts
    <3> QED
      BY <2>5, <2>6, <3>1, <3>2
  <2>10. status \notin Faults /\ status # "killed"
    BY DEF Faults
  <2>11. Ends(i, status, n)
    BY <2>2, <2>3, <2>4, <2>6, <2>7, <2>8, <2>9, <2>10 DEF Ends, Beyond
  <2> QED
    BY <2>11
<1>3. CASE Fail
  <2>1. PICK i \in Queued : i = Min(Queued)
    BY <1>3, LeastQueued DEF Fail
  <2>2. \A q \in Queued : i <= q
    BY <1>1, <2>1, MinIsLeast
  <2>3. PICK r \in Nat : r = urbs[i].room
    BY <1>1
  <2>4. PICK f \in kind.faults :
          /\ past' = Cut(f)
          /\ IF f = "overflow" THEN i = N /\ End(i, f, r) ELSE \E n \in 0 .. Max({r - 1, 0}) : End(i, f, n)
    BY <1>3, <2>1, <2>3 DEF Fail
  <2>5. PICK n \in 0 .. r : End(i, f, n)
    <3>1. CASE f = "overflow"
      BY <2>3, <2>4, <3>1
    <3>2. CASE f # "overflow"
      BY <2>3, <2>4, <3>2, RoomFacts
    <3> QED
      BY <3>1, <3>2
  <2>6. f \in Faults /\ f \in Statuses
    BY DEF UsbUrbsAssumption, TypeInv, Kind, Statuses
  <2>7. EndsAs(i, f, n) /\ refuses' = (refuses \/ (f \in Faults \cup {"short"} /\ Continues(kind)))
    <3>1. n \in Nat
      OBVIOUS
    <3> QED
      BY <2>5, <2>6, <3>1, EndFacts
  <2>8. Calm /\ plugged' = plugged /\ (FaultsEarly \/ phase # "submitting")
    BY <1>3 DEF Fail, Calm, data
  <2>9. f \notin {"ok", "short", "killed"}
    BY <2>6 DEF Faults
  <2>10. Ends(i, f, n)
    BY <2>2, <2>3, <2>4, <2>6, <2>7, <2>8, <2>9 DEF Ends, Beyond
  <2> QED
    BY <2>10
<1>4. CASE Unplug
  <2>1. Calm /\ refuses' = refuses /\ past' = past /\ plugged /\ ~plugged'
    BY <1>4 DEF Unplug, Calm, data
  <2> QED
    BY <1>4, <2>1, UnplugFacts DEF AllEnd
<1>5. CASE DiscardNext
  <2>1. Calm /\ past' = past /\ plugged' = plugged /\ Discarding /\ Discard(work.at)
    <3>1. work' = [work EXCEPT !.at = work.at - 1] /\ work.who # "submit" /\ work \in Work
      BY <1>5 DEF DiscardNext, TypeInv
    <3>2. work'.who = work.who
      BY <3>1 DEF Work
    <3> QED
      BY <1>5, <3>1, <3>2 DEF DiscardNext, Calm, data, Discarding
  <2>2. CASE work.at \in Queued
    <3>1. PICK i \in Queued : i = work.at
      BY <2>2
    <3>2. PICK r \in Nat : r = urbs[i].room
      BY <1>1
    <3>3. PICK n \in 0 .. (IF i = Min(Queued) THEN Max({r - 1, 0}) ELSE 0) : End(i, "killed", n)
      BY <2>1, <3>1, <3>2 DEF Discard
    <3>4. n \in 0 .. r /\ (i = Min(Queued) \/ n = 0)
      <4>1. CASE i = Min(Queued)
        BY <3>2, <3>3, <4>1, RoomFacts
      <4>2. CASE i # Min(Queued)
        BY <3>2, <3>3, <4>2
      <4> QED
        BY <4>1, <4>2
    <3>5. n \in Nat /\ "killed" \in Statuses
      BY <3>4 DEF Statuses
    <3>6. EndsAs(i, "killed", n) /\ refuses' = (refuses \/ ("killed" \in Faults \cup {"short"} /\ Continues(kind)))
      BY <3>3, <3>5, EndFacts
    <3>7. (\A q \in Queued : i <= q) \/ n = 0
      BY <1>1, <3>4, MinIsLeast
    <3>8. "killed" \notin Faults
      BY DEF Faults
    <3>9. Ends(i, "killed", n)
      BY <2>1, <3>2, <3>4, <3>6, <3>7, <3>8 DEF Ends, Beyond
    <3> QED
      BY <3>9
  <2>3. CASE work.at \notin Queued
    BY <2>1, <2>3 DEF Discard, NoneEnds
  <2> QED
    BY <2>2, <2>3
<1> QED
  BY <1>2, <1>3, <1>4, <1>5

\* The URBs that end with URB i.
With(others, i, status, n) ==
  /\ others = IF status \in Faults \cup {"short"} /\ Continues(kind) THEN Queued \ {i} ELSE {}
  /\ Queued' = Queued \ ({i} \cup others) /\ Back' = Back \cup {i} \cup others
  /\ \A j \in others : Left(j, "done", "unlinked", sent + n, urbs[j].actual)
  /\ \A j \in 1 .. N : j # i /\ j \notin others => urbs'[j] = urbs[j]

\* What has become of the URBs when one has ended, with those that follow it.
LEMMA EndsFacts ==
  ASSUME Inv, NEW i, NEW status, NEW n, Ends(i, status, n)
  PROVE  /\ N \in Nat /\ N' = N /\ i \in 1 .. N /\ i \in Queued /\ i \notin Queued' /\ Queued \in SUBSET (1 .. N)
         /\ Queued' \subseteq Queued \ {i}
         /\ \E others \in SUBSET (Queued \ {i}) : With(others, i, status, n)
         /\ Left(i, "done", status, sent, n) /\ sent' = sent + n /\ n \in Nat /\ n <= urbs[i].room
         /\ \A j \in 1 .. N : urbs'[j].room = urbs[j].room /\ (j # i => urbs'[j].actual = urbs[j].actual)
         /\ Flying' = Flying /\ Handled' = Handled /\ Given' = Given /\ Discarding' = Discarding
<1>1. TypeInv
  BY DEF Inv
<1>2. N \in Nat /\ Queued \in SUBSET (1 .. N) /\ \A j \in 1 .. N : urbs[j] \in Urb
  BY <1>1, QueuedFacts
<1>3. i \in Queued /\ status \in Statuses /\ n \in Nat /\ n <= urbs[i].room /\ EndsAs(i, status, n) /\ Calm
  <2>1. i \in Queued /\ n \in 0 .. urbs[i].room /\ urbs[i].room \in Nat
    BY <1>2 DEF Ends, Urb
  <2> QED
    BY <2>1 DEF Ends, Statuses
<1>4. PICK others \in SUBSET (Queued \ {i}) : \E rest \in Seq(others) :
        /\ others = IF status \in Faults \cup {"short"} /\ Continues(kind) THEN Queued \ {i} ELSE {}
        /\ ToSet(rest) = others /\ Joins(done', done, <<i>> \o rest)
        /\ Queued' = Queued \ ({i} \cup others) /\ ToSet(done') = ToSet(done) \cup {i} \cup others /\ sent' = sent + n
        /\ Left(i, "done", status, sent, n)
        /\ \A j \in others : Left(j, "done", "unlinked", sent + n, urbs[j].actual)
        /\ \A j \in 1 .. N : j # i /\ j \notin others => urbs'[j] = urbs[j]
  BY <1>3 DEF EndsAs
<1>5. N' = N
  BY <1>3 DEF EndsAs
<1>6. Flying' = Flying /\ Handled' = Handled /\ Discarding' = Discarding /\ Given' = Given
  <2>1. Flying' = Flying /\ Handled' = Handled /\ Discarding' = Discarding
    BY <1>3 DEF Calm, Flying, Handled, Discarding
  <2>2. Given' = Given
    BY <1>3, <1>5 DEF Calm, Given
  <2> QED
    BY <2>1, <2>2
<1>7. Back' = Back \cup {i} \cup others
  BY <1>4, <1>6 DEF Back
<1>8. ASSUME NEW j \in 1 .. N
      PROVE  urbs'[j].room = urbs[j].room /\ (j # i => urbs'[j].actual = urbs[j].actual)
  <2>1. CASE j = i
    BY <1>4, <2>1 DEF Left
  <2>2. CASE j \in others
    BY <1>4, <2>2 DEF Left
  <2>3. CASE j # i /\ j \notin others
    BY <1>4, <2>3
  <2> QED
    BY <2>1, <2>2, <2>3
<1>9. With(others, i, status, n)
  BY <1>4, <1>7 DEF With
<1> QED
  BY <1>2, <1>3, <1>4, <1>5, <1>6, <1>8, <1>9

\* The URBs that have ended are some of them.
LEMMA BackInRange ==
  ASSUME Inv
  PROVE  Back \subseteq 1 .. N
<1>1. ToSet(done) \subseteq 1 .. N
  BY CountFacts DEF Inv
<1>2. Handled \subseteq 1 .. N
  BY DEF Inv, CountInv, Handled
<1> QED
  BY <1>1, <1>2 DEF Back

\* A URB that ends is bad when its end is beyond what the device sends; others are
\* bad as before.
LEMMA BadEnds ==
  ASSUME Inv, StatusInv, NEW i, NEW status, NEW n, Ends(i, status, n)
  PROVE  /\ \A j \in 1 .. N : Bad(j)' <=> Bad(j) \/ (j = i /\ Beyond(i, status, n))
         /\ \A q \in Queued : ~Bad(q)
         /\ \A j \in 1 .. N : j \notin Queued => urbs'[j] = urbs[j]
<1>1. PICK others \in SUBSET (Queued \ {i}) :
        /\ \A j \in others : Left(j, "done", "unlinked", sent + n, urbs[j].actual)
        /\ \A j \in 1 .. N : j # i /\ j \notin others => urbs'[j] = urbs[j]
  <2>1. PICK others \in SUBSET (Queued \ {i}) : With(others, i, status, n)
    BY EndsFacts
  <2> QED
    BY <2>1 DEF With
<1>2. i \in Queued /\ Left(i, "done", status, sent, n)
  BY EndsFacts
<1>3. \A q \in Queued : urbs[q].status = None
  BY DEF StatusInv
<1>4. \A q \in Queued : ~Bad(q)
  BY <1>3 DEF Bad, Faults, None
<1>5. ASSUME NEW j \in 1 .. N PROVE Bad(j)' <=> Bad(j) \/ (j = i /\ Beyond(i, status, n))
  <2>1. CASE j = i
    BY <1>2, <1>4, <2>1 DEF Bad, Left, Beyond
  <2>2. CASE j # i /\ j \in others
    <3>1. urbs'[j].status = "unlinked"
      BY <1>1, <2>2 DEF Left
    <3>2. ~Bad(j) /\ ~Bad(j)'
      BY <1>1, <1>4, <2>2, <3>1 DEF Bad, Faults
    <3> QED
      BY <2>2, <3>2
  <2>3. CASE j # i /\ j \notin others
    <3>1. urbs'[j] = urbs[j]
      BY <1>1, <2>3
    <3> QED
      BY <2>3, <3>1 DEF Bad
  <2> QED
    BY <2>1, <2>2, <2>3
<1>6. \A j \in 1 .. N : j \notin Queued => urbs'[j] = urbs[j]
  BY <1>1, <1>2
<1> QED
  BY <1>4, <1>5, <1>6

\* What the statuses of the URBs say stays true when one ends.
LEMMA StatusEnds ==
  ASSUME Inv, Flying, StatusInv, BadInv, NEW i, NEW status, NEW n, Ends(i, status, n)
  PROVE  StatusInv' /\ BadInv'
<1>1. /\ N \in Nat /\ N' = N /\ i \in 1 .. N /\ i \in Queued /\ i \notin Queued' /\ Queued \in SUBSET (1 .. N)
      /\ Queued' \subseteq Queued \ {i} /\ Left(i, "done", status, sent, n) /\ n \in Nat /\ n <= urbs[i].room
      /\ \A j \in 1 .. N : urbs'[j].room = urbs[j].room /\ (j # i => urbs'[j].actual = urbs[j].actual)
      /\ Discarding' = Discarding
  BY EndsFacts
<1>2. PICK others \in SUBSET (Queued \ {i}) :
        /\ others = IF status \in Faults \cup {"short"} /\ Continues(kind) THEN Queued \ {i} ELSE {}
        /\ Queued' = Queued \ ({i} \cup others) /\ Back' = Back \cup {i} \cup others
        /\ \A j \in others : Left(j, "done", "unlinked", sent + n, urbs[j].actual)
        /\ \A j \in 1 .. N : j # i /\ j \notin others => urbs'[j] = urbs[j]
  <2>1. PICK others \in SUBSET (Queued \ {i}) : With(others, i, status, n)
    BY EndsFacts
  <2> QED
    BY <2>1 DEF With
<1>3. /\ \A j \in 1 .. N : Bad(j)' <=> Bad(j) \/ (j = i /\ Beyond(i, status, n))
      /\ \A q \in Queued : ~Bad(q)
      /\ \A j \in 1 .. N : j \notin Queued => urbs'[j] = urbs[j]
  BY BadEnds
<1>4. /\ \A q \in Queued : urbs[q].status = None
      /\ \A b \in Back : urbs[b].status # None
      /\ work.who = "submit" => \A j \in work.at .. N : urbs[j].status = None
      /\ \A j \in 1 .. N : /\ urbs[j].actual <= urbs[j].room
                           /\ urbs[j].status \in {None, "unlinked", "shutdown"} => urbs[j].actual = 0
                           /\ urbs[j].status = "killed" => ~Fresh
  BY DEF StatusInv
<1>5. /\ status \in Faults \cup {"ok", "short", "killed"} /\ Calm
      /\ (\A q \in Queued : i <= q) \/ (n = 0 /\ status = "killed")
      /\ status = "killed" => Discarding
      /\ status = "short" => n < urbs[i].room
  BY DEF Ends
<1>6. urbs'[i].status = status /\ urbs'[i].actual = n /\ \A j \in others : urbs'[j].status = "unlinked"
  BY <1>1, <1>2 DEF Left
<1>7. status \notin {None, "unlinked", "shutdown"}
  BY <1>5 DEF Faults, None
<1>8. Back \subseteq 1 .. N /\ Fresh' = Fresh
  <2>1. Back \subseteq 1 .. N
    BY BackInRange
  <2> QED
    BY <1>5, <2>1 DEF Calm, Fresh
<1>9. \A q \in Queued' : urbs'[q].status = None
  BY <1>1, <1>2, <1>4
<1>10. ASSUME NEW b \in Back' PROVE urbs'[b].status # None
  <2>1. CASE b = i
    BY <1>6, <1>7, <2>1
  <2>2. CASE b \in others
    BY <1>6, <2>2 DEF None
  <2>3. CASE b # i /\ b \notin others
    BY <1>2, <1>4, <1>8, <2>3
  <2> QED
    BY <2>1, <2>2, <2>3
<1>11. ASSUME work'.who = "submit", NEW j \in work'.at .. N PROVE urbs'[j].status = None
  <2>1. work' = work /\ work.who = "submit"
    BY <1>5, <1>11 DEF Calm
  <2>2. j \in 1 .. N /\ j \in work.at .. N /\ urbs[j].at = None
    <3>1. work.at \in 1 .. N + 1 /\ \A k \in work.at .. N : urbs[k].at = None
      BY <2>1 DEF Inv, SubmitInv
    <3> QED
      BY <1>1, <2>1, <3>1
  <2>3. j \notin Queued
    BY <2>2 DEF Queued, None
  <2> QED
    BY <1>3, <1>4, <2>1, <2>2, <2>3
<1>12. ASSUME NEW j \in 1 .. N
       PROVE  /\ urbs'[j].actual <= urbs'[j].room
              /\ urbs'[j].status \in {None, "unlinked", "shutdown"} => urbs'[j].actual = 0
              /\ urbs'[j].status = "killed" => ~Fresh
  <2>1. CASE j = i
    <3>1. status = "killed" => ~Fresh
      BY <1>1, <1>5 DEF Inv, OrderInv, Fresh
    <3> QED
      BY <1>1, <1>6, <1>7, <2>1, <3>1
  <2>2. CASE j # i /\ j \in others
    <3>1. urbs'[j].status = "unlinked" /\ urbs'[j].actual = urbs[j].actual /\ urbs[j].status = None
      BY <1>1, <1>2, <1>4, <1>6, <2>2
    <3>2. urbs'[j].room = urbs[j].room
      BY <1>1
    <3> QED
      BY <1>4, <3>1, <3>2
  <2>3. CASE j # i /\ j \notin others
    <3>1. urbs'[j] = urbs[j]
      BY <1>2, <2>3
    <3> QED
      BY <1>4, <3>1
  <2> QED
    BY <2>1, <2>2, <2>3
<1>13. StatusInv'
  BY <1>1, <1>8, <1>9, <1>10, <1>11, <1>12 DEF StatusInv
<1>14. ASSUME NEW j \in 1 .. N, Bad(j)', NEW q \in Queued' PROVE j < q
  <2>1. CASE Bad(j)
    BY <1>1, <2>1 DEF BadInv
  <2>2. CASE j = i /\ Beyond(i, status, n)
    <3>1. status # "killed"
      BY <2>2 DEF Beyond, Faults
    <3>2. i <= q /\ i # q /\ q \in 1 .. N
      BY <1>1, <1>5, <3>1
    <3> QED
      BY <1>1, <2>2, <3>2
  <2> QED
    BY <1>3, <1>14, <2>1, <2>2
<1>15. ASSUME NEW j \in 1 .. N, urbs'[j].status = "unlinked" PROVE \E k \in 1 .. N : k < j /\ Bad(k)'
  <2>1. j # i
    BY <1>6, <1>7, <1>15
  <2>2. CASE j \in others
    <3>1. status \in Faults \cup {"short"}
      BY <1>2, <2>2
    <3>2. Beyond(i, status, n) /\ status # "killed"
      BY <1>5, <3>1 DEF Beyond, Faults
    <3>3. i <= j /\ i # j
      BY <1>2, <1>5, <2>2, <3>2
    <3>4. i < j
      BY <1>1, <3>3
    <3> QED
      BY <1>1, <1>3, <3>2, <3>4
  <2>3. CASE j \notin others
    <3>1. urbs'[j] = urbs[j]
      BY <1>2, <2>1, <2>3
    <3>2. \E k \in 1 .. N : k < j /\ Bad(k)
      BY <1>15, <3>1 DEF BadInv
    <3> QED
      BY <1>3, <3>2
  <2> QED
    BY <2>2, <2>3
<1>16. BadInv'
  BY <1>1, <1>14, <1>15 DEF BadInv
<1> QED
  BY <1>13, <1>16

\* So does what is known of the ways in which the transfer has been cut short.
LEMMA CutEnds ==
  ASSUME Inv, StatusInv, BadInv, CutInv, NEW i, NEW status, NEW n, Ends(i, status, n)
  PROVE  CutInv'
<1>1. N \in Nat /\ N' = N /\ i \in 1 .. N /\ i \in Queued /\ urbs'[i].status = status /\ kind' = kind
  <2>1. N \in Nat /\ N' = N /\ i \in 1 .. N /\ i \in Queued /\ Left(i, "done", status, sent, n)
    BY EndsFacts
  <2> QED
    BY <2>1 DEF Left, Ends, Calm
<1>2. /\ \A j \in 1 .. N : Bad(j)' <=> Bad(j) \/ (j = i /\ Beyond(i, status, n))
      /\ \A q \in Queued : ~Bad(q)
      /\ \A j \in 1 .. N : j \notin Queued => urbs'[j] = urbs[j]
  BY BadEnds
<1>3. \A j \in 1 .. N : Bad(j) => j < i
  BY <1>1 DEF BadInv
<1>4. PICK how \in Faults \cup {"short"} :
        /\ status \in Faults => how = status
        /\ status \notin Faults => how = "short"
        /\ how = IF status \in Faults THEN status ELSE "short"
  OBVIOUS
<1>5. past' = IF Beyond(i, status, n) THEN Cut(how) ELSE past
  BY <1>4 DEF Ends
<1>6. "short" \notin Faults /\ (status \in Faults => Beyond(i, status, n) /\ status \in kind.faults)
  BY DEF Faults, Beyond, Ends
<1>7. past \subseteq past' /\ (past \cap (Faults \cup {"short"}) # {} => past' = past)
  BY <1>5 DEF Cut
<1>8. Beyond(i, status, n) => past' \cap (Faults \cup {"short"}) # {}
  BY <1>4, <1>5 DEF Cut
<1>9. (past' \cap (Faults \cup {"short"}) # {}) <=> \E j \in 1 .. N : Bad(j)'
  <2>1. ASSUME NEW j \in 1 .. N, Bad(j)' PROVE past' \cap (Faults \cup {"short"}) # {}
    <3>1. CASE Bad(j)
      BY <1>7, <3>1 DEF CutInv
    <3>2. CASE Beyond(i, status, n)
      BY <1>8, <3>2
    <3> QED
      BY <1>2, <2>1, <3>1, <3>2
  <2>2. ASSUME past' \cap (Faults \cup {"short"}) # {} PROVE \E j \in 1 .. N : Bad(j)'
    <3>1. CASE Beyond(i, status, n)
      BY <1>1, <1>2, <3>1
    <3>2. CASE ~Beyond(i, status, n)
      <4>1. past' = past
        BY <1>5, <3>2
      <4>2. PICK j \in 1 .. N : Bad(j)
        BY <2>2, <4>1 DEF CutInv
      <4> QED
        BY <1>2, <4>2
    <3> QED
      BY <3>1, <3>2
  <2> QED
    BY <2>1, <2>2
<1>10. ASSUME NEW j \in 1 .. N, urbs'[j].status \in Faults, IsFirst(j)'
       PROVE  urbs'[j].status \in past'
  <2>1. \A k \in 1 .. N : k < j => ~Bad(k)
    BY <1>1, <1>2, <1>10 DEF IsFirst
  <2>2. CASE j = i
    <3>1. ~ \E k \in 1 .. N : Bad(k)
      BY <1>3, <2>1, <2>2
    <3>2. past \cap (Faults \cup {"short"}) = {}
      BY <3>1 DEF CutInv
    <3>3. status \in Faults /\ how = status
      BY <1>1, <1>4, <1>10, <2>2
    <3> QED
      BY <1>1, <1>5, <1>6, <2>2, <3>2, <3>3 DEF Cut
  <2>3. CASE j # i
    <3>1. urbs'[j] = urbs[j]
      <4>1. PICK others \in SUBSET (Queued \ {i}) : With(others, i, status, n)
        BY EndsFacts
      <4>2. j \notin others
        BY <1>10, <4>1 DEF With, Left, Faults
      <4> QED
        BY <2>3, <4>1, <4>2 DEF With
    <3>2. urbs[j].status \in Faults /\ IsFirst(j)
      BY <1>10, <2>1, <3>1 DEF IsFirst
    <3>3. urbs[j].status \in past
      BY <3>2 DEF CutInv
    <3> QED
      BY <1>7, <3>1, <3>3
  <2> QED
    BY <2>2, <2>3
<1>11. ASSUME NEW f \in past' \cap Faults
       PROVE  f \in kind.faults /\ \E j \in 1 .. N : urbs'[j].status = f /\ IsFirst(j)'
  <2>1. CASE f \in past
    <3>1. f \in kind.faults
      BY <1>11, <2>1 DEF CutInv
    <3>2. PICK j \in 1 .. N : urbs[j].status = f /\ IsFirst(j)
      BY <1>11, <2>1 DEF CutInv
    <3>3. Bad(j)
      BY <1>11, <3>2 DEF Bad
    <3>4. urbs'[j] = urbs[j]
      BY <1>2, <3>3
    <3>5. j < i
      BY <1>3, <3>3
    <3>6. ASSUME NEW k \in 1 .. N, k < j PROVE ~Bad(k)'
      <4>1. k # i
        BY <1>1, <3>5, <3>6
      <4>2. ~Bad(k)
        BY <3>2, <3>6 DEF IsFirst
      <4> QED
        BY <1>2, <4>1, <4>2
    <3>7. IsFirst(j)'
      BY <1>1, <3>6 DEF IsFirst
    <3> QED
      BY <3>1, <3>2, <3>4, <3>7
  <2>2. CASE f \notin past
    <3>1. f = how /\ past \cap (Faults \cup {"short"}) = {} /\ f # "short"
      BY <1>5, <1>6, <1>11, <2>2 DEF Cut
    <3>2. status \in Faults /\ f = status
      BY <1>4, <3>1
    <3>3. \A k \in 1 .. N : ~Bad(k)
      BY <3>1 DEF CutInv
    <3>4. \A k \in 1 .. N : k < i => ~Bad(k)'
      BY <1>1, <1>2, <3>3
    <3>5. IsFirst(i)'
      BY <1>1, <3>4 DEF IsFirst
    <3> QED
      BY <1>1, <1>6, <3>2, <3>5
  <2> QED
    BY <2>1, <2>2
<1> QED
  BY <1>1, <1>9, <1>10, <1>11 DEF CutInv

\* And what is known of the transfer that will be reported.
LEMMA ActionEnds ==
  ASSUME ~FaultsEarly, Inv, StatusInv, CutInv, GoneInv, EarlyInv, ActionInv,
         NEW i, NEW status, NEW n, Ends(i, status, n)
  PROVE  GoneInv' /\ EarlyInv' /\ ActionInv'
<1>1. /\ kind' = kind /\ priv' = priv /\ phase' = phase /\ work'.who = work.who
      /\ refuses' = (refuses \/ (status \in Faults \cup {"short"} /\ Continues(kind)))
      /\ status \in Faults => FaultsEarly \/ phase # "submitting"
      /\ status = "short" => Continues(kind) /\ n < urbs[i].room
  BY DEF Ends, Calm
<1>2. N' = N /\ i \in 1 .. N /\ Back \cup {i} \subseteq Back' /\ BulkLike' = BulkLike /\ Clean' = Clean
  <2>1. PICK others \in SUBSET (Queued \ {i}) : With(others, i, status, n)
    BY EndsFacts
  <2>2. N' = N /\ i \in 1 .. N
    BY EndsFacts
  <2> QED
    BY <1>1, <2>1, <2>2 DEF With, BulkLike, Clean, Fresh
<1>3. \A j \in 1 .. N : Bad(j)' <=> Bad(j) \/ (j = i /\ Beyond(i, status, n))
  BY BadEnds
<1>4. GoneInv'
  BY <1>2, <1>3 DEF GoneInv
<1>5. past' = IF Beyond(i, status, n) THEN Cut(IF status \in Faults THEN status ELSE "short") ELSE past
  BY DEF Ends
<1>6. past \subseteq past' /\ (past \cap (Faults \cup {"short"}) # {} => past' = past)
  BY <1>5 DEF Cut
<1>7. EarlyInv'
  <2>1. refuses' => Continues(kind')
    BY <1>1 DEF EarlyInv, Continues
  <2>2. ASSUME work'.who = "submit"
        PROVE  /\ phase' = "submitting" /\ priv'.status = "COMPLETED" /\ past' \cap Faults = {}
               /\ refuses' => "short" \in past'
    <3>1. /\ phase = "submitting" /\ priv.status = "COMPLETED" /\ past \cap Faults = {}
          /\ refuses => "short" \in past
      BY <1>1, <2>2 DEF EarlyInv
    <3>2. status \notin Faults
      BY <1>1, <3>1
    <3>3. past' \cap Faults = {}
      BY <1>5, <3>1, <3>2 DEF Cut, Faults
    <3>4. ASSUME status = "short" PROVE "short" \in past'
      <4>1. Beyond(i, status, n)
        BY <1>1, <3>4 DEF Beyond
      <4> QED
        BY <1>5, <3>1, <3>2, <4>1 DEF Cut
    <3> QED
      BY <1>1, <1>6, <3>1, <3>2, <3>3, <3>4
  <2> QED
    BY <2>1, <2>2 DEF EarlyInv
<1>8. ASSUME priv.action = "COMPLETED_EARLY", priv.status = "COMPLETED"
      PROVE  "short" \in past' /\ past' \cap Faults = {}
  BY <1>6, <1>8 DEF ActionInv
<1>9. ActionInv'
  BY <1>1, <1>2, <1>6, <1>8 DEF ActionInv
<1> QED
  BY <1>4, <1>7, <1>9

-----------------------------------------------------------------------------
(* Where the URBs of a transfer begin. *)

\* The whole pieces of a length and the rest make up the length.
LEMMA DivideSums ==
  ASSUME NEW a \in Nat, NEW b \in Nat \ {0}
  PROVE  a = (a \div b) * b + (a % b)
OBVIOUS

\* One piece more.
LEMMA OneMore ==
  ASSUME NEW i \in Int, NEW b \in Nat
  PROVE  i * b \in Int /\ (i + 1) * b = i * b + b /\ (i >= 0 => i * b >= 0) /\ 0 * b = 0
<1>1. i * b \in Int /\ (i + 1) * b = i * b + b /\ 0 * b = 0
  OBVIOUS
<1>2. i >= 0 => i * b >= 0
  OBVIOUS
<1> QED
  BY <1>1, <1>2

\* Pieces of one length, and the rest.
Pieces(u, b, whole, rest) == u = [i \in 1 .. whole |-> b] \o IF rest > 0 THEN <<rest>> ELSE << >>

\* Where they begin, and where the last ends.
Begins(u, b, length) ==
  \E f \in [1 .. Len(u) + 1 -> Nat] :
    /\ f[1] = 0 /\ f[Len(u) + 1] = length
    /\ \A i \in 1 .. Len(u) : f[i + 1] = f[i] + u[i] /\ f[i] = (i - 1) * b

\* The URBs of a bulk transfer are pieces of the same length, up to the last.
LEMMA BulkSplits ==
  ASSUME NEW b \in Nat \ {0}, NEW whole \in Nat, NEW rest \in Nat, NEW length \in Nat, length = whole * b + rest,
         NEW u \in Seq(Nat), Pieces(u, b, whole, rest)
  PROVE  Begins(u, b, length)
<1>1. PICK many : many = [i \in 1 .. whole |-> b]
  OBVIOUS
<1>2. many \in Seq(Nat) /\ Len(many) = whole /\ \A i \in 1 .. whole : many[i] = b
  BY <1>1
<1>3. PICK n \in {0, 1} : n = IF rest > 0 THEN 1 ELSE 0
  OBVIOUS
<1>4. Len(u) = whole + n /\ (\A i \in 1 .. whole : u[i] = b) /\ (n = 1 => u[whole + 1] = rest)
  <2>1. CASE rest > 0
    <3>1. u = many \o <<rest>>
      BY <1>1, <2>1 DEF Pieces
    <3>2. u = Append(many, rest)
      BY <1>2, <3>1
    <3> QED
      BY <1>2, <1>3, <2>1, <3>2
  <2>2. CASE ~(rest > 0)
    <3>1. u = many \o << >>
      BY <1>1, <2>2 DEF Pieces
    <3>2. u = many
      BY <1>2, <3>1
    <3> QED
      BY <1>2, <1>3, <2>2, <3>2
  <2> QED
    BY <2>1, <2>2
<1> DEFINE f == [i \in 1 .. Len(u) + 1 |-> IF i <= whole + 1 THEN (i - 1) * b ELSE length]
<1>5. ASSUME NEW i \in 1 .. Len(u) + 1 PROVE (i - 1) * b \in Nat
  <2>1. i - 1 \in Nat
    BY <1>3, <1>4
  <2> QED
    BY <2>1, OneMore
<1>6. f \in [1 .. Len(u) + 1 -> Nat]
  BY <1>5
<1>7. f[1] = 0
  <2>1. 1 \in 1 .. Len(u) + 1 /\ 1 <= whole + 1 /\ (1 - 1) * b = 0
    BY <1>3, <1>4
  <2> QED
    BY <2>1
<1>8. f[Len(u) + 1] = length
  <2>1. Len(u) + 1 \in 1 .. Len(u) + 1
    BY <1>3, <1>4
  <2>2. CASE n = 1
    BY <1>4, <2>1, <2>2
  <2>3. CASE n = 0
    <3>1. length = whole * b /\ Len(u) = whole /\ Len(u) + 1 <= whole + 1
      <4>1. rest = 0 /\ whole * b \in Nat
        BY <1>3, <2>3, OneMore
      <4> QED
        BY <1>4, <2>3, <4>1
    <3>2. f[Len(u) + 1] = (Len(u) + 1 - 1) * b
      BY <2>1, <3>1
    <3>3. Len(u) + 1 - 1 = whole
      BY <3>1
    <3> QED
      BY <3>1, <3>2, <3>3
  <2> QED
    BY <2>2, <2>3
<1>9. ASSUME NEW i \in 1 .. Len(u) PROVE f[i + 1] = f[i] + u[i] /\ f[i] = (i - 1) * b
  <2>1. i \in 1 .. whole + 1 /\ i \in 1 .. Len(u) + 1 /\ i + 1 \in 1 .. Len(u) + 1
    BY <1>3, <1>4
  <2>2. f[i] = (i - 1) * b
    BY <2>1
  <2>3. CASE i <= whole
    <3>1. i + 1 <= whole + 1 /\ f[i + 1] = (i + 1 - 1) * b
      BY <2>1, <2>3
    <3>2. ((i - 1) + 1) * b = (i - 1) * b + b /\ (i - 1) * b \in Int
      BY OneMore
    <3>3. i + 1 - 1 = (i - 1) + 1 /\ u[i] = b
      BY <1>4, <2>1, <2>3
    <3> QED
      BY <2>2, <3>1, <3>2, <3>3
  <2>4. CASE ~(i <= whole)
    <3>1. i = whole + 1 /\ n = 1 /\ ~(i + 1 <= whole + 1)
      BY <1>3, <1>4, <2>1, <2>4
    <3>2. f[i + 1] = length /\ u[i] = rest /\ i - 1 = whole
      BY <1>4, <2>1, <3>1
    <3> QED
      BY <2>2, <3>2
  <2> QED
    BY <2>2, <2>3, <2>4
<1> HIDE DEF f
<1> QED
  BY <1>6, <1>7, <1>8, <1>9 DEF Begins

\* A transfer of every kind is split, and its URBs begin somewhere.
LEMMA SplitFacts ==
  ASSUME UsbUrbsAssumption, IsoSplits, NEW k \in Kinds
  PROVE  /\ UnitsOf(k) \in Seq(Nat) /\ LengthOf(k) \in Nat
         /\ Start(k) \in [1 .. Len(UnitsOf(k)) + 1 -> Nat] /\ Splits(Start(k), k)
<1>1. /\ k.length \in Nat /\ MaxBulk \in Nat \ {0} /\ k.packets \in Seq(Nat)
      /\ k.type \in {"control", "bulk", "interrupt", "iso"}
  BY DEF UsbUrbsAssumption, Kind
<1>2. PICK u \in Seq(Nat) : u = UnitsOf(k)
  BY UnitsFacts
<1>3. DOMAIN u = 1 .. Len(u) /\ Len(u) \in Nat
  OBVIOUS
<1>4. PICK l \in Nat : l = LengthOf(k)
  BY <1>1 DEF LengthOf
<1>5. \E f \in [1 .. Len(u) + 1 -> Nat] :
        /\ f[1] = 0 /\ f[Len(u) + 1] = l
        /\ \A i \in DOMAIN u : f[i + 1] = f[i] + u[i]
        /\ k.type \in {"bulk", "interrupt"} => \A i \in DOMAIN u : f[i] = (i - 1) * BulkLength(k)
  <2>1. CASE k.type = "control"
    <3>1. u = <<l>>
      BY <1>2, <1>4, <2>1 DEF UnitsOf, LengthOf
    <3>2. Len(u) = 1 /\ u[1] = l /\ DOMAIN u = {1}
      BY <3>1
    <3> DEFINE f == [i \in 1 .. 2 |-> IF i = 1 THEN 0 ELSE l]
    <3>3. f \in [1 .. 2 -> Nat] /\ f[1] = 0 /\ f[2] = l /\ f[1 + 1] = f[1] + l
      OBVIOUS
    <3> HIDE DEF f
    <3>4. \A i \in DOMAIN u : f[i + 1] = f[i] + u[i]
      BY <3>2, <3>3
    <3>5. f \in [1 .. Len(u) + 1 -> Nat] /\ f[Len(u) + 1] = l
      BY <3>2, <3>3
    <3> QED
      BY <2>1, <3>3, <3>4, <3>5
  <2>2. CASE k.type = "iso"
    <3>1. PICK w \in Seq(Seq(Nat)) : w = IsoUrbs(k.packets)
      BY <2>2 DEF IsoSplits
    <3>2. u = [i \in DOMAIN w |-> Len(w[i])]
      BY <1>2, <2>2, <3>1 DEF UnitsOf
    <3>3. DOMAIN u = DOMAIN w /\ DOMAIN w = 1 .. Len(w) /\ Len(w) \in Nat
      BY <3>2
    <3>4. Len(u) = Len(w) /\ \A i \in DOMAIN u : u[i] = Len(w[i])
      BY <1>3, <3>2, <3>3
    <3>5. l = Len(k.packets)
      BY <1>4, <2>2 DEF LengthOf
    <3>6. PICK first \in [1 .. Len(w) + 1 -> 0 .. Len(k.packets)] :
            /\ first[1] = 0 /\ first[Len(w) + 1] = Len(k.packets)
            /\ \A i \in DOMAIN w : first[i + 1] = first[i] + Len(w[i])
      BY <2>2, <3>1 DEF IsoSplits
    <3>7. first \in [1 .. Len(u) + 1 -> Nat]
      <4>1. 0 .. Len(k.packets) \subseteq Nat
        OBVIOUS
      <4> QED
        BY <3>4, <3>6, <4>1
    <3> QED
      BY <2>2, <3>3, <3>4, <3>5, <3>6, <3>7
  <2>3. CASE k.type \in {"bulk", "interrupt"}
    <3>1. u = BulkUrbs(k) /\ l = k.length
      BY <1>2, <1>4, <2>3 DEF UnitsOf, LengthOf
    <3>2. PICK b \in Nat \ {0} : b = BulkLength(k)
      BY <1>1, MaxOfOne DEF BulkLength
    <3>3. PICK whole \in Nat, rest \in Nat : whole = l \div b /\ rest = l % b
      BY DivideFacts
    <3>4. l = whole * b + rest
      BY <3>3, DivideSums
    <3>5. CASE l = 0
      <4>1. u = <<0>>
        BY <3>1, <3>5 DEF BulkUrbs
      <4>2. Len(u) = 1 /\ u[1] = 0 /\ DOMAIN u = {1}
        BY <4>1
      <4> DEFINE f == [i \in 1 .. 2 |-> 0]
      <4>3. f \in [1 .. 2 -> Nat] /\ f[1] = 0 /\ f[2] = 0 /\ f[1 + 1] = f[1] + 0
        OBVIOUS
      <4>4. (1 - 1) * b = 0
        BY OneMore
      <4> HIDE DEF f
      <4>5. \A i \in DOMAIN u : f[i + 1] = f[i] + u[i] /\ f[i] = (i - 1) * BulkLength(k)
        BY <3>2, <4>2, <4>3, <4>4
      <4>6. f \in [1 .. Len(u) + 1 -> Nat] /\ f[Len(u) + 1] = l
        BY <3>5, <4>2, <4>3
      <4> QED
        BY <4>3, <4>5, <4>6
    <3>6. CASE l # 0
      <4>1. Pieces(u, b, whole, rest)
        BY <3>1, <3>2, <3>3, <3>6 DEF BulkUrbs, Pieces
      <4>2. Begins(u, b, l)
        BY <3>4, <4>1, BulkSplits
      <4> QED
        BY <1>3, <3>2, <4>2 DEF Begins
    <3> QED
      BY <3>5, <3>6
  <2> QED
    BY <1>1, <2>1, <2>2, <2>3
<1>6. \E f \in [1 .. Len(UnitsOf(k)) + 1 -> Nat] : Splits(f, k)
  BY <1>2, <1>4, <1>5 DEF Splits
<1>7. Start(k) \in [1 .. Len(UnitsOf(k)) + 1 -> Nat] /\ Splits(Start(k), k)
  BY <1>6 DEF Start
<1> QED
  BY <1>2, <1>4, <1>7

\* The URBs of the transfer of the moment follow each other.
LEMMA StartFacts ==
  ASSUME UsbUrbsAssumption, IsoSplits, TypeInv, SplitInv
  PROVE  /\ N \in Nat /\ Start(kind)[1] = 0 /\ Start(kind)[N + 1] = LengthOf(kind)
         /\ \A i \in 1 .. N + 1 : Start(kind)[i] \in Nat
         /\ \A i \in 1 .. N : Start(kind)[i + 1] = Start(kind)[i] + urbs[i].room
         /\ \A i, j \in 1 .. N + 1 : i <= j => Start(kind)[i] <= Start(kind)[j]
         /\ BulkLike => \A i \in 1 .. N : Start(kind)[i] = Offset(i)
<1>1. kind \in Kinds /\ N \in Nat
  BY QueuedFacts DEF TypeInv
<1>2. PICK F : F = Start(kind)
  OBVIOUS
<1>3. UnitsOf(kind) \in Seq(Nat) /\ F \in [1 .. Len(UnitsOf(kind)) + 1 -> Nat] /\ Splits(F, kind)
  BY <1>1, <1>2, SplitFacts
<1>4. /\ N = Len(UnitsOf(kind)) /\ DOMAIN UnitsOf(kind) = 1 .. N
      /\ \A i \in 1 .. N : urbs[i].room = UnitsOf(kind)[i] /\ UnitsOf(kind)[i] \in Nat
  BY <1>3 DEF SplitInv
<1>5. /\ F[1] = 0 /\ F[N + 1] = LengthOf(kind) /\ F \in [1 .. N + 1 -> Nat]
      /\ \A i \in 1 .. N : F[i + 1] = F[i] + urbs[i].room /\ urbs[i].room \in Nat
      /\ BulkLike => \A i \in 1 .. N : F[i] = Offset(i)
  BY <1>3, <1>4 DEF Splits, BulkLike, Offset
<1>6. ASSUME NEW i \in 1 .. N + 1, NEW j \in 1 .. N + 1, i <= j PROVE F[i] <= F[j]
  <2> SUFFICES ASSUME ~(F[i] <= F[j]) PROVE FALSE
    OBVIOUS
  <2> DEFINE T == {m \in 1 .. N + 1 : i <= m /\ ~(F[i] <= F[m])}
  <2>1. T \in SUBSET Nat /\ T # {}
    BY <1>6
  <2>2. PICK m \in T : \A n \in T : m <= n
    <3> HIDE DEF T
    <3> QED BY <2>1, MinIsLeast
  <2>3. m \in 1 .. N + 1 /\ i <= m /\ ~(F[i] <= F[m]) /\ m # i /\ F[i] \in Nat /\ F[m] \in Nat
    BY <1>5, <2>2
  <2>4. m - 1 \in 1 .. N /\ m - 1 \in 1 .. N + 1 /\ i <= m - 1 /\ ~(m <= m - 1) /\ (m - 1) + 1 = m
    BY <1>1, <2>3
  <2>5. m - 1 \notin T
    BY <2>2, <2>4
  <2>6. F[i] <= F[m - 1] /\ F[m - 1] \in Nat
    BY <1>5, <2>4, <2>5
  <2>7. F[m] = F[m - 1] + urbs[m - 1].room /\ urbs[m - 1].room \in Nat
    BY <1>5, <2>4
  <2> QED
    BY <2>3, <2>6, <2>7
<1> QED
  BY <1>1, <1>2, <1>5, <1>6

-----------------------------------------------------------------------------
(* The units of the URBs that have ended follow each other. *)

\* The URBs that have ended, the one that is handled first.
LEMMA LineFacts ==
  ASSUME Inv
  PROVE  /\ Line \in Seq(1 .. N) /\ \A m \in 1 .. Len(Line) : Line[m] \in Back
         /\ handler.at = "handle" => /\ Len(Line) = Len(done) + 1 /\ Line[1] = handler.urb
                                     /\ \A m \in 1 .. Len(done) : Line[m + 1] = done[m]
         /\ handler.at # "handle" => Line = done
<1>1. done \in Seq(1 .. N) /\ (handler.at = "handle" => handler.urb \in 1 .. N)
  BY DEF Inv, TypeInv, CountInv
<1>2. \A m \in 1 .. Len(done) : done[m] \in ToSet(done)
  BY <1>1 DEF ToSet
<1>3. CASE handler.at = "handle"
  <2>1. PICK i \in 1 .. N : i = handler.urb
    BY <1>1, <1>3
  <2>2. PICK L : L = <<i>> \o done
    OBVIOUS
  <2>3. <<i>> \in Seq(1 .. N) /\ Len(<<i>>) = 1 /\ <<i>>[1] = i
    OBVIOUS
  <2>4. /\ L \in Seq(1 .. N) /\ Len(L) = Len(done) + 1 /\ L[1] = i
        /\ \A m \in 1 .. Len(done) : L[m + 1] = done[m]
    BY <1>1, <2>2, <2>3
  <2>5. Line = L /\ i \in Back
    BY <1>3, <2>1, <2>2 DEF Line, Back, Handled
  <2>6. ASSUME NEW m \in 1 .. Len(L) PROVE L[m] \in Back
    <3>1. CASE m = 1
      BY <2>4, <2>5, <3>1
    <3>2. CASE m # 1
      <4>1. m - 1 \in 1 .. Len(done) /\ (m - 1) + 1 = m
        BY <1>1, <2>4, <3>2
      <4>2. L[m] = done[m - 1]
        BY <2>4, <4>1
      <4> QED
        BY <1>2, <4>1, <4>2 DEF Back
    <3> QED
      BY <3>1, <3>2
  <2> QED
    BY <1>3, <2>1, <2>4, <2>5, <2>6
<1>4. CASE handler.at # "handle"
  <2>1. Line = done
    BY <1>4 DEF Line
  <2> QED
    BY <1>1, <1>2, <1>4, <2>1 DEF Back
<1> QED
  BY <1>3, <1>4

\* Some URBs end, one after the other.
LEMMA LineGrows ==
  ASSUME Inv, LineInv, kind' = kind, transferred' = transferred, handler' = handler,
         NEW s \in Seq(1 .. N), Joins(done', done, s), \A b \in Back : urbs'[b] = urbs[b],
         s = << >> => sent' = sent,
         s # << >> => urbs'[s[1]].from = sent /\ Stops(s[Len(s)])' = sent',
         \A m \in 1 .. Len(s) - 1 : urbs'[s[m + 1]].from = Stops(s[m])'
  PROVE  LineInv'
<1> SUFFICES ASSUME kind.type # "iso" PROVE LineInv'
  BY DEF LineInv
<1>1. PICK L \in Seq(1 .. N) : L = Line /\ \A m \in 1 .. Len(L) : L[m] \in Back
  BY LineFacts
<1>2. /\ L = << >> => transferred = sent
      /\ L # << >> => urbs[L[1]].from = transferred /\ Stops(L[Len(L)]) = sent
      /\ \A m \in 1 .. Len(L) - 1 : urbs[L[m + 1]].from = Stops(L[m])
  BY <1>1 DEF LineInv
<1>3. Line' = L \o s
  <2>1. done \in Seq(1 .. N) /\ done' = done \o s /\ (handler.at = "handle" => handler.urb \in 1 .. N)
    BY DEF Inv, TypeInv, CountInv, Joins
  <2>2. CASE handler.at = "handle"
    <3>1. PICK i \in 1 .. N : i = handler.urb
      BY <2>1, <2>2
    <3>2. PICK a \in Seq(1 .. N) : a = <<i>>
      BY ShortFacts
    <3>3. Line' = <<i>> \o done' /\ Line = <<i>> \o done
      BY <2>2, <3>1, Zenon DEF Line
    <3>4. Line' = a \o (done \o s) /\ L = a \o done
      BY <1>1, <2>1, <3>2, <3>3, Zenon
    <3>5. a \o (done \o s) = (a \o done) \o s
      BY <2>1, <3>2
    <3> QED
      BY <3>4, <3>5
  <2>3. CASE handler.at # "handle"
    BY <1>1, <2>1, <2>3 DEF Line
  <2> QED
    BY <2>2, <2>3
<1>4. PICK t \in Seq(1 .. N) : t = L \o s
  <2>1. PICK S : S = 1 .. N
    OBVIOUS
  <2>2. L \in Seq(S) /\ s \in Seq(S)
    BY <1>1, <2>1
  <2>3. L \o s \in Seq(S)
    BY <2>2
  <2> QED
    BY <2>1, <2>3
<1>5. PICK a \in Nat, c \in Nat : a = Len(L) /\ c = Len(s)
  OBVIOUS
<1>6. Len(t) = a + c /\ (\A m \in 1 .. a : t[m] = L[m]) /\ (\A m \in 1 .. c : t[m + a] = s[m])
  BY <1>4, <1>5
<1>7. \A m \in 1 .. a : urbs'[L[m]] = urbs[L[m]] /\ Stops(L[m])' = Stops(L[m])
  BY <1>1, <1>5 DEF Stops
<1>8. (a = 0 <=> L = << >>) /\ (c = 0 <=> s = << >>) /\ (a + c = 0 <=> t = << >>)
  BY <1>5, <1>6
<1>9. t = << >> => transferred = sent'
  BY <1>2, <1>6, <1>8
<1>10. ASSUME t # << >> PROVE urbs'[t[1]].from = transferred /\ Stops(t[Len(t)])' = sent'
  <2>1. urbs'[t[1]].from = transferred
    <3>1. CASE a = 0
      <4>1. 1 \in 1 .. c /\ 1 + a = 1 /\ L = << >> /\ s # << >>
        BY <1>8, <1>10, <3>1
      <4>2. t[1] = s[1]
        BY <1>6, <4>1
      <4> QED
        BY <1>2, <4>1, <4>2
    <3>2. CASE a # 0
      <4>1. 1 \in 1 .. a /\ L # << >>
        BY <1>8, <3>2
      <4> QED
        BY <1>2, <1>6, <1>7, <4>1
    <3> QED
      BY <3>1, <3>2
  <2>2. Stops(t[Len(t)])' = sent'
    <3>1. CASE c = 0
      <4>1. a \in 1 .. a /\ Len(t) = a /\ L # << >> /\ s = << >>
        BY <1>6, <1>8, <1>10, <3>1
      <4>2. t[Len(t)] = L[a] /\ Stops(L[a])' = Stops(L[a])
        BY <1>6, <1>7, <4>1
      <4>3. Stops(L[a]) = sent /\ sent' = sent
        BY <1>2, <1>5, <4>1
      <4> QED
        BY <4>2, <4>3
    <3>2. CASE c # 0
      <4>1. c \in 1 .. c /\ Len(t) = c + a /\ s # << >>
        BY <1>6, <1>8, <3>2
      <4>2. t[Len(t)] = s[Len(s)]
        BY <1>5, <1>6, <4>1
      <4> QED
        BY <4>1, <4>2
    <3> QED
      BY <3>1, <3>2
  <2> QED
    BY <2>1, <2>2
<1>11. ASSUME NEW m \in 1 .. Len(t) - 1 PROVE urbs'[t[m + 1]].from = Stops(t[m])'
  <2>1. m \in Nat /\ 1 <= m /\ m + 1 <= a + c
    BY <1>6
  <2>2. CASE m + 1 <= a
    <3>1. m \in 1 .. Len(L) - 1 /\ m \in 1 .. a /\ m + 1 \in 1 .. a
      BY <1>5, <2>1, <2>2
    <3>2. t[m] = L[m] /\ t[m + 1] = L[m + 1]
      BY <1>6, <3>1
    <3>3. urbs[L[m + 1]].from = Stops(L[m])
      BY <1>2, <3>1
    <3>4. urbs'[L[m + 1]] = urbs[L[m + 1]] /\ Stops(L[m])' = Stops(L[m])
      BY <1>7, <3>1
    <3> QED
      BY <3>2, <3>3, <3>4
  <2>3. CASE m = a
    <3>1. 1 \in 1 .. c /\ 1 + a = m + 1 /\ a \in 1 .. a /\ L # << >> /\ s # << >>
      BY <1>8, <2>1, <2>3
    <3>2. t[m] = L[a] /\ t[m + 1] = s[1] /\ Stops(L[a])' = Stops(L[a])
      BY <1>6, <1>7, <2>3, <3>1
    <3>3. Stops(L[a]) = sent /\ urbs'[s[1]].from = sent
      BY <1>2, <1>5, <3>1
    <3> QED
      BY <3>2, <3>3
  <2>4. CASE m > a
    <3>1. PICK k \in Nat : k = m - a
      BY <2>1, <2>4
    <3>2. k \in 1 .. Len(s) - 1 /\ k \in 1 .. c /\ k + 1 \in 1 .. c /\ k + a = m /\ (k + 1) + a = m + 1
      BY <1>5, <2>1, <2>4, <3>1
    <3>3. t[m] = s[k] /\ t[m + 1] = s[k + 1]
      BY <1>6, <3>2
    <3> QED
      BY <3>2, <3>3
  <2> QED
    BY <2>1, <2>2, <2>3, <2>4
<1> QED
  BY <1>3, <1>4, <1>9, <1>10, <1>11 DEF LineInv

\* What the kernel has, and what has come back, is not the same.
LEMMA BackIsNotQueued ==
  ASSUME StatusInv
  PROVE  Back \cap Queued = {}
BY DEF StatusInv

\* The units of the transfer stay in line when a URB ends.
LEMMA LineEnds ==
  ASSUME Inv, StatusInv, LineInv, NEW i, NEW status, NEW n, Ends(i, status, n)
  PROVE  LineInv'
<1>1. /\ N \in Nat /\ i \in 1 .. N /\ i \in Queued /\ Queued \in SUBSET (1 .. N)
      /\ \A j \in 1 .. N : j \notin Queued => urbs'[j] = urbs[j]
  <2>1. N \in Nat /\ i \in 1 .. N /\ i \in Queued /\ Queued \in SUBSET (1 .. N)
    BY EndsFacts
  <2> QED
    BY <2>1, BadEnds
<1>2. EndsAs(i, status, n) /\ Calm
  BY DEF Ends
<1>3. PICK others \in SUBSET (Queued \ {i}) : \E rest \in Seq(others) :
        /\ ToSet(rest) = others /\ Joins(done', done, <<i>> \o rest) /\ sent' = sent + n
        /\ Left(i, "done", status, sent, n)
        /\ \A j \in others : Left(j, "done", "unlinked", sent + n, urbs[j].actual)
  BY <1>2 DEF EndsAs
<1>3a. PICK rest \in Seq(others) :
        /\ Joins(done', done, <<i>> \o rest) /\ sent' = sent + n
        /\ Left(i, "done", status, sent, n)
        /\ \A j \in others : Left(j, "done", "unlinked", sent + n, urbs[j].actual)
  BY <1>3
<1>4. \A q \in Queued : urbs[q].actual = 0
  BY <1>1 DEF StatusInv
<1>5. sent \in Nat /\ n \in Nat
  <2>1. n \in Nat
    BY EndsFacts
  <2> QED
    BY <2>1 DEF Inv, TypeInv
<1>6. Stops(i)' = sent' /\ urbs'[i].from = sent
  BY <1>3a DEF Left, Stops
<1>7. \A j \in others : urbs'[j].from = sent' /\ Stops(j)' = sent'
  BY <1>4, <1>5, <1>3a DEF Left, Stops
<1>8. rest \in Seq(1 .. N)
  <2>1. others \subseteq 1 .. N
    BY <1>1
  <2> QED
    BY <2>1, SeqOfSubset
<1>9. PICK s \in Seq(1 .. N) : s = <<i>> \o rest
  <2>1. PICK S : S = 1 .. N
    OBVIOUS
  <2>2. <<i>> \in Seq(S) /\ rest \in Seq(S)
    BY <1>1, <1>8, <2>1, ShortFacts
  <2>3. <<i>> \o rest \in Seq(S)
    BY <2>2
  <2> QED
    BY <2>1, <2>3
<1>10. PICK c \in Nat : c = Len(rest)
  BY <1>8
<1>11. Len(s) = c + 1 /\ s[1] = i /\ \A m \in 1 .. c : s[m + 1] = rest[m] /\ rest[m] \in others
  <2>1. \A m \in 1 .. c : rest[m] \in others
    BY <1>10, <1>3a
  <2>2. <<i>> \in Seq({i}) /\ Len(<<i>>) = 1 /\ <<i>>[1] = i
    OBVIOUS
  <2>3. Len(s) = c + 1 /\ s[1] = i /\ \A m \in 1 .. c : s[m + 1] = rest[m]
    BY <1>8, <1>9, <1>10, <2>2
  <2> QED
    BY <2>1, <2>3
<1>12. \A m \in 1 .. Len(s) : Stops(s[m])' = sent'
  <2> SUFFICES ASSUME NEW m \in 1 .. Len(s) PROVE Stops(s[m])' = sent'
    OBVIOUS
  <2>1. CASE m = 1
    BY <1>6, <1>11, <2>1
  <2>2. CASE m # 1
    <3>1. m - 1 \in 1 .. c /\ (m - 1) + 1 = m
      BY <1>11, <2>2
    <3>2. s[m] \in others
      BY <1>11, <3>1
    <3> QED
      BY <1>7, <3>2
  <2> QED
    BY <2>1, <2>2
<1>13. \A m \in 1 .. Len(s) - 1 : urbs'[s[m + 1]].from = Stops(s[m])'
  <2> SUFFICES ASSUME NEW m \in 1 .. Len(s) - 1 PROVE urbs'[s[m + 1]].from = Stops(s[m])'
    OBVIOUS
  <2>1. m \in 1 .. c /\ m \in 1 .. Len(s)
    BY <1>11
  <2>2. s[m + 1] \in others
    BY <1>11, <2>1
  <2> QED
    BY <1>7, <1>12, <2>1, <2>2
<1>14. s # << >> /\ Len(s) \in 1 .. Len(s)
  BY <1>11
<1>15. \A b \in Back : urbs'[b] = urbs[b]
  BY <1>1, BackInRange, BackIsNotQueued
<1>16. kind' = kind /\ transferred' = transferred /\ handler' = handler /\ Joins(done', done, s)
  BY <1>2, <1>9, <1>3a DEF Calm
<1>17. urbs'[s[1]].from = sent /\ Stops(s[Len(s)])' = sent'
  BY <1>6, <1>11, <1>12, <1>14
<1> QED
  BY <1>13, <1>14, <1>15, <1>16, <1>17, LineGrows

\* What is said of places and of the data that has come back stays true when a URB ends.
LEMMA PlaceEnds ==
  ASSUME Inv, StatusInv, SplitInv, PlaceInv, WholeInv, PrefixInv, AfterInv,
         NEW i, NEW status, NEW n, Ends(i, status, n)
  PROVE  SplitInv' /\ PlaceInv' /\ WholeInv' /\ PrefixInv' /\ AfterInv' /\ ShutInv'
<1>1. /\ N \in Nat /\ N' = N /\ i \in 1 .. N /\ i \in Queued /\ Queued \in SUBSET (1 .. N)
      /\ \A j \in 1 .. N : urbs'[j].room = urbs[j].room
      /\ Given' = Given /\ Left(i, "done", status, sent, n)
  BY EndsFacts
<1>2. /\ kind' = kind /\ priv' = priv /\ buffer' = buffer /\ transferred' = transferred /\ handler' = handler
      /\ BulkLike' = BulkLike /\ Fresh' = Fresh /\ Clean' = Clean
      /\ status \in Faults \cup {"ok", "short", "killed"}
  BY DEF Ends, Calm, BulkLike, Fresh, Clean
<1>3. PICK others \in SUBSET (Queued \ {i}) : With(others, i, status, n)
  BY EndsFacts
<1>4. /\ Queued' \cup Back' = Queued \cup Back
      /\ \A j \in others : urbs'[j].status = "unlinked"
      /\ \A j \in 1 .. N : j # i /\ j \notin others => urbs'[j] = urbs[j]
  BY <1>1, <1>3 DEF With, Left
<1>5. SplitInv'
  BY <1>1, <1>2 DEF SplitInv
<1>6. PlaceInv'
  BY <1>1, <1>2, <1>4 DEF PlaceInv
<1>7. WholeInv'
  BY <1>2 DEF WholeInv
<1>8. Copied' = Copied
  <2>1. CASE handler.at = "handle"
    <3>1. handler.urb \in 1 .. N /\ handler.urb \notin Queued
      BY <2>1, BackIsNotQueued DEF Inv, CountInv, Back, Handled
    <3>2. urbs'[handler.urb] = urbs[handler.urb]
      BY <1>1, <1>4, <3>1
    <3> QED
      BY <1>2, <3>2 DEF Copied
  <2>2. CASE handler.at # "handle"
    BY <1>2, <2>2 DEF Copied
  <2> QED
    BY <2>1, <2>2
<1>9. PrefixInv'
  BY <1>2, <1>8 DEF PrefixInv
<1>10. AfterInv'
  BY <1>1, <1>2 DEF AfterInv
<1>11. ASSUME NEW j \in 1 .. N PROVE urbs'[j].status # "shutdown"
  <2>1. CASE j = i
    BY <1>1, <1>2, <2>1 DEF Left, Faults
  <2>2. CASE j \in others
    BY <1>4, <2>2
  <2>3. CASE j # i /\ j \notin others
    <3>1. urbs'[j] = urbs[j]
      BY <1>4, <2>3
    <3>2. urbs[j].status # "shutdown"
      BY <1>1 DEF Inv, CauseInv
    <3> QED
      BY <3>1, <3>2
  <2> QED
    BY <2>1, <2>2, <2>3
<1>12. ShutInv'
  BY <1>1, <1>11 DEF ShutInv
<1> QED
  BY <1>5, <1>6, <1>7, <1>9, <1>10, <1>12

\* What the device has sent is no more than what comes before the URBs the kernel has.
LEMMA FrontEnds ==
  ASSUME UsbUrbsAssumption, IsoSplits, Inv, StatusInv, SplitInv, FrontInv,
         NEW i, NEW status, NEW n, Ends(i, status, n)
  PROVE  FrontInv'
<1>1. /\ N \in Nat /\ N' = N /\ i \in 1 .. N /\ i \in Queued /\ i \notin Queued' /\ Queued \in SUBSET (1 .. N)
      /\ Queued' \subseteq Queued \ {i} /\ Left(i, "done", status, sent, n) /\ sent' = sent + n
      /\ n \in Nat /\ n <= urbs[i].room
      /\ \A j \in 1 .. N : urbs'[j].room = urbs[j].room
  BY EndsFacts
<1>2. kind' = kind /\ work'.who = work.who /\ (work.who = "submit" => work' = work)
      /\ ((\A q \in Queued : i <= q) \/ n = 0)
  BY DEF Ends, Calm
<1>3. PICK others \in SUBSET (Queued \ {i}) :
        /\ \A j \in others : Left(j, "done", "unlinked", sent + n, urbs[j].actual)
        /\ \A j \in 1 .. N : j # i /\ j \notin others => urbs'[j] = urbs[j]
  <2>1. PICK others \in SUBSET (Queued \ {i}) : With(others, i, status, n)
    BY EndsFacts
  <2> QED
    BY <2>1 DEF With
<1>4. TypeInv /\ sent \in Nat /\ \A q \in Queued : urbs[q].actual = 0
  BY <1>1 DEF Inv, TypeInv, StatusInv
<1>5. PICK F : F = Start(kind)
  OBVIOUS
<1>6. /\ F[N + 1] = LengthOf(kind) /\ \A j \in 1 .. N + 1 : F[j] \in Nat
      /\ \A j \in 1 .. N : F[j + 1] = F[j] + urbs[j].room
      /\ \A j, k \in 1 .. N + 1 : j <= k => F[j] <= F[k]
  BY <1>4, <1>5, StartFacts
<1>7. /\ sent <= LengthOf(kind)
      /\ \A j \in 1 .. N : Stops(j) <= sent /\ (urbs[j].actual > 0 => urbs[j].from <= F[j] /\ \A q \in Queued : j < q)
      /\ \A q \in Queued : sent <= F[q]
      /\ work.who = "submit" => sent <= F[work.at]
  BY <1>5 DEF FrontInv
<1>8. urbs[i].room \in Nat /\ \A j \in 1 .. N : urbs[j].from \in Nat /\ urbs[j].actual \in Nat
  BY <1>1, <1>4, QueuedFacts DEF Urb
<1>9. ASSUME n # 0 PROVE sent' <= F[i + 1] /\ \A j \in 1 .. N + 1 : i < j => sent' <= F[j]
  <2>1. i \in 1 .. N + 1 /\ i + 1 \in 1 .. N + 1
    BY <1>1
  <2>2. sent <= F[i] /\ F[i + 1] = F[i] + urbs[i].room /\ F[i] \in Nat
    BY <1>1, <1>6, <1>7, <2>1
  <2>3. sent + n <= F[i + 1]
    BY <1>1, <1>4, <1>8, <2>2
  <2>4. ASSUME NEW j \in 1 .. N + 1, i < j PROVE sent' <= F[j]
    <3>1. i + 1 <= j
      BY <1>1, <2>4
    <3>2. F[i + 1] <= F[j] /\ F[i + 1] \in Nat /\ F[j] \in Nat
      BY <1>6, <2>1, <3>1
    <3> QED
      BY <1>1, <1>4, <2>3, <3>2
  <2> QED
    BY <1>1, <2>3, <2>4
<1>10. sent' = sent \/ n # 0
  BY <1>1, <1>4
<1>11. sent' <= LengthOf(kind)
  <2>1. CASE n # 0
    <3>1. N + 1 \in 1 .. N + 1 /\ i < N + 1
      BY <1>1
    <3> QED
      BY <1>6, <1>9, <2>1, <3>1
  <2> QED
    BY <1>7, <1>10, <2>1
<1>12. ASSUME NEW q \in Queued' PROVE sent' <= F[q]
  <2>1. q \in Queued /\ q # i /\ q \in 1 .. N + 1
    BY <1>1
  <2>2. CASE n # 0
    <3>1. i < q
      BY <1>1, <1>2, <2>1, <2>2
    <3> QED
      BY <1>9, <2>1, <2>2, <3>1
  <2> QED
    BY <1>7, <1>10, <2>1, <2>2
<1>13. ASSUME work'.who = "submit" PROVE sent' <= F[work'.at]
  <2>1. work.who = "submit" /\ work' = work
    BY <1>2, <1>13
  <2>2. CASE n # 0
    <3>1. work.at \in 1 .. N + 1 /\ \A k \in work.at .. N : urbs[k].at = None
      BY <2>1 DEF Inv, SubmitInv
    <3>2. i \notin work.at .. N
      BY <1>1, <3>1 DEF Queued, None
    <3>3. i < work.at
      BY <1>1, <3>1, <3>2
    <3> QED
      BY <1>9, <2>1, <2>2, <3>1, <3>3
  <2> QED
    BY <1>7, <1>10, <2>1, <2>2
<1>14. ASSUME NEW j \in 1 .. N
       PROVE  Stops(j)' <= sent' /\ (urbs'[j].actual > 0 => urbs'[j].from <= F[j] /\ \A q \in Queued' : j < q)
  <2>1. CASE j = i
    <3>1. Stops(j)' = sent' /\ urbs'[j].from = sent /\ urbs'[j].actual = n
      BY <1>1, <2>1 DEF Left, Stops
    <3>2. ASSUME n > 0, NEW q \in Queued' PROVE j < q
      <4>1. q \in Queued /\ q # i /\ q \in 1 .. N
        BY <1>1
      <4> QED
        BY <1>1, <1>2, <2>1, <3>2, <4>1
    <3> QED
      BY <1>1, <1>4, <1>7, <2>1, <3>1, <3>2
  <2>2. CASE j \in others
    <3>1. urbs'[j].from = sent + n /\ urbs'[j].actual = 0
      BY <1>3, <1>4, <2>2 DEF Left
    <3>2. Stops(j)' = sent'
      BY <1>1, <1>4, <3>1 DEF Stops
    <3> QED
      BY <1>1, <1>4, <3>1, <3>2
  <2>3. CASE j # i /\ j \notin others
    <3>1. urbs'[j] = urbs[j] /\ Stops(j)' = Stops(j)
      BY <1>3, <2>3 DEF Stops
    <3>2. Stops(j) \in Nat
      BY <1>8 DEF Stops
    <3>3. Stops(j) <= sent'
      BY <1>1, <1>4, <1>7, <3>2
    <3> QED
      BY <1>1, <1>7, <3>1, <3>3
  <2> QED
    BY <2>1, <2>2, <2>3
<1> QED
  BY <1>1, <1>2, <1>5, <1>11, <1>12, <1>13, <1>14 DEF FrontInv

\* When a URB of a continuation is bad, those after it get nothing.
LEMMA ContEnds ==
  ASSUME Inv, StatusInv, BadInv, FrontInv, ContInv, NEW i, NEW status, NEW n, Ends(i, status, n)
  PROVE  ContInv'
<1> SUFFICES ASSUME Continues(kind') PROVE ContInv'
  BY DEF ContInv
<1>1. /\ N \in Nat /\ N' = N /\ i \in 1 .. N /\ i \in Queued /\ Queued \in SUBSET (1 .. N)
      /\ \A j \in 1 .. N : j # i => urbs'[j].actual = urbs[j].actual
  BY EndsFacts
<1>2. Continues(kind) /\ ~refuses
  BY <1>1 DEF Ends, Calm, Inv, CauseInv
<1>3. \A j \in 1 .. N : Bad(j)' <=> Bad(j) \/ (j = i /\ Beyond(i, status, n))
  BY BadEnds
<1>4. ASSUME NEW j \in 1 .. N, Bad(j) PROVE FALSE
  <2>1. j < i
    BY <1>1, <1>4 DEF BadInv
  <2>2. j = N
    BY <1>2, <1>4 DEF ContInv
  <2> QED
    BY <1>1, <2>1, <2>2
<1>5. ASSUME Beyond(i, status, n) PROVE (refuses' \/ i = N) /\ \A j \in 1 .. N : i < j => urbs'[j].actual = 0
  <2>1. refuses' \/ i = N
    BY <1>2, <1>5 DEF Ends, Beyond
  <2>2. ASSUME NEW j \in 1 .. N, i < j PROVE urbs'[j].actual = 0
    <3>1. urbs'[j].actual = urbs[j].actual
      BY <1>1, <2>2
    <3>2. ~(urbs[j].actual > 0)
      <4>1. ~(j < i)
        BY <1>1, <2>2
      <4> QED
        BY <1>1, <4>1 DEF FrontInv
    <3>3. urbs[j].actual \in Nat
      BY QueuedFacts DEF Inv, Urb
    <3> QED
      BY <3>1, <3>2, <3>3
  <2> QED
    BY <2>1, <2>2
<1> QED
  BY <1>1, <1>3, <1>4, <1>5 DEF ContInv

\* The URBs of an isochronous transfer are served in turn.
LEMMA IsoEnds ==
  ASSUME UsbUrbsAssumption, IsoSplits, Inv, Flying, StatusInv, SplitInv, PlaceInv, IsoInv,
         NEW i, NEW status, NEW n, Ends(i, status, n)
  PROVE  IsoInv'
<1> SUFFICES ASSUME kind.type = "iso" PROVE IsoInv'
  BY DEF IsoInv, Ends, Calm
<1>1. /\ N \in Nat /\ N' = N /\ i \in 1 .. N /\ i \in Queued /\ i \notin Queued' /\ Queued \in SUBSET (1 .. N)
      /\ Left(i, "done", status, sent, n) /\ sent' = sent + n
      /\ \A j \in 1 .. N : urbs'[j].room = urbs[j].room
      /\ Given' = Given
  BY EndsFacts
<1>2. /\ kind' = kind /\ priv' = priv /\ plugged' = plugged /\ Fresh' = Fresh
      /\ status \in Faults => status \in kind.faults
      /\ status = "short" => Continues(kind)
      /\ status \in Faults \cup {"ok", "short", "killed"}
      /\ status \in {"ok", "short"} => n = urbs[i].room
      /\ (\A q \in Queued : i <= q) \/ (n = 0 /\ status = "killed")
      /\ status = "killed" => Discarding
  BY DEF Ends, Calm, Fresh
<1>3. status \in {"ok", "killed"} /\ ~Continues(kind)
  <2>1. kind.faults = {} /\ ~Continues(kind)
    BY DEF Inv, TypeInv, UsbUrbsAssumption, Continues
  <2> QED
    BY <1>2, <2>1
<1>4. Queued' = Queued \ {i} /\ \A j \in 1 .. N : j # i => urbs'[j] = urbs[j]
  <2>1. PICK others \in SUBSET (Queued \ {i}) : With(others, i, status, n)
    BY EndsFacts
  <2>2. others = {}
    BY <1>3, <2>1 DEF With
  <2> QED
    BY <2>1, <2>2 DEF With
<1>5. plugged
  BY <1>1 DEF Inv, CauseInv
<1>6. PICK F : F = Start(kind)
  OBVIOUS
<1>7. /\ \A j \in 1 .. N : urbs[j].status \in {None, "ok", "killed", "shutdown"}
      /\ Fresh => \A j \in 1 .. N : urbs[j].status = "ok" => urbs[j].from = F[j] /\ urbs[j].actual = urbs[j].room
      /\ Fresh => \A q \in Queued : q - 1 \in Queued \/ sent = F[q]
      /\ Fresh => (~plugged /\ \A j \in Back : urbs[j].status = "shutdown") \/ priv.packets = Told(F[priv.retired + 1])
  BY <1>5, <1>6 DEF IsoInv
<1>8. \A j \in 1 .. N : F[j + 1] = F[j] + urbs[j].room
  BY <1>6, StartFacts DEF Inv
<1>9. urbs'[i].status = status /\ urbs'[i].from = sent /\ urbs'[i].actual = n
  BY <1>1 DEF Left
<1>10. \A j \in 1 .. N : urbs'[j].status \in {None, "ok", "killed", "shutdown"}
  BY <1>3, <1>4, <1>7, <1>9
<1>11. ASSUME Fresh
       PROVE  /\ status = "ok" /\ n = urbs[i].room /\ sent = F[i] /\ sent' = F[i + 1]
              /\ \A q \in Queued : i <= q
              /\ Below(ToSet(done), Queued) /\ Below(Handled, ToSet(done) \cup Queued)
  <2>1. status = "ok"
    BY <1>1, <1>2, <1>3, <1>11 DEF Inv, OrderInv, Fresh
  <2>2. n = urbs[i].room /\ \A q \in Queued : i <= q
    BY <1>2, <2>1
  <2>3. i - 1 \notin Queued
    <3>1. ~(i <= i - 1)
      BY <1>1
    <3> QED
      BY <2>2, <3>1
  <2>4. sent = F[i]
    BY <1>1, <1>7, <1>11, <2>3
  <2>5. sent' = F[i + 1]
    BY <1>1, <1>8, <2>2, <2>4
  <2> QED
    BY <1>11, <2>1, <2>2, <2>4, <2>5 DEF Inv, OrderInv, Fresh
<1>12. ASSUME Fresh PROVE \A j \in 1 .. N : urbs'[j].status = "ok" => urbs'[j].from = F[j] /\ urbs'[j].actual = urbs'[j].room
  BY <1>1, <1>4, <1>7, <1>9, <1>11, <1>12
<1>13. ASSUME Fresh, NEW j \in Queued \cup Back, i < j PROVE j \in Queued
  <2>1. \A b \in Back : b < i
    BY <1>1, <1>11, <1>13 DEF Back, Below
  <2>2. j \in 1 .. N
    BY <1>1, <1>13, BackInRange
  <2>3. ~(j < i)
    BY <1>1, <1>13, <2>2
  <2> QED
    BY <1>13, <2>1, <2>3
<1>14. ASSUME Fresh PROVE Given \in Nat /\ priv.retired \in Nat /\ i \in priv.retired + 1 .. Given
  <2>1. Given \in Int
    BY <1>1 DEF Given, Inv, TypeInv, Work
  <2>2. priv.retired \in Nat
    BY DEF Inv, TypeInv, Priv
  <2>3. i \in priv.retired + 1 .. Given
    BY <1>1, <1>14 DEF PlaceInv
  <2> QED
    BY <2>1, <2>2, <2>3
<1>15. ASSUME Fresh, Queued' = {} PROVE sent' = F[Given + 1]
  <2>1. Given \in priv.retired + 1 .. Given
    BY <1>14, <1>15
  <2>2. Given \in Queued \cup Back
    BY <1>15, <2>1 DEF PlaceInv
  <2>3. ~(i < Given)
    <3>1. SUFFICES ASSUME i < Given PROVE FALSE
      OBVIOUS
    <3>2. Given \in Queued
      BY <1>13, <1>15, <2>2, <3>1
    <3>3. Given # i
      BY <1>1, <1>14, <1>15, <3>1
    <3> QED
      BY <1>4, <1>15, <3>2, <3>3
  <2>4. Given = i
    BY <1>14, <1>15, <2>3
  <2> QED
    BY <1>11, <1>15, <2>4
<1>16. ASSUME Fresh, NEW q \in Queued' PROVE q - 1 \in Queued' \/ sent' = F[q]
  <2>1. q \in Queued /\ q # i /\ i <= q /\ q \in 1 .. N
    BY <1>1, <1>4, <1>11, <1>16
  <2>2. i < q
    BY <1>1, <2>1
  <2>3. CASE q - 1 = i
    <3>1. i + 1 = q
      BY <1>1, <2>1, <2>3
    <3> QED
      BY <1>11, <1>16, <3>1
  <2>4. CASE q - 1 # i
    <3>1. i < q - 1 /\ q - 1 \in priv.retired + 1 .. Given
      <4>1. q \in priv.retired + 1 .. Given
        BY <1>16, <2>1 DEF PlaceInv
      <4> QED
        BY <1>1, <1>14, <1>16, <2>1, <2>2, <2>4, <4>1
    <3>2. q - 1 \in Queued \cup Back
      BY <1>16, <3>1 DEF PlaceInv
    <3>3. q - 1 \in Queued
      BY <1>13, <1>16, <3>1, <3>2
    <3> QED
      BY <1>4, <2>4, <3>3
  <2> QED
    BY <2>3, <2>4
<1>17. Fresh => priv.packets = Told(F[priv.retired + 1])
  BY <1>5, <1>7
<1> QED
  BY <1>1, <1>2, <1>6, <1>10, <1>12, <1>15, <1>16, <1>17 DEF IsoInv

\* What is known of a transfer stays true when a URB ends.
LEMMA EndsKeep ==
  ASSUME UsbUrbsAssumption, IsoSplits, ~FaultsEarly, Inv, Flying, TransferInv,
         NEW i, NEW status, NEW n, Ends(i, status, n)
  PROVE  TransferInv'
<1>1. /\ StatusInv /\ BadInv /\ CutInv /\ GoneInv /\ EarlyInv /\ ActionInv
      /\ SplitInv /\ PlaceInv /\ LineInv /\ FrontInv /\ WholeInv /\ PrefixInv /\ AfterInv /\ ContInv /\ ShutInv /\ IsoInv
  BY DEF TransferInv
<1>2. StatusInv' /\ BadInv'
  BY <1>1, StatusEnds
<1>3. CutInv'
  BY <1>1, CutEnds
<1>4. GoneInv' /\ EarlyInv' /\ ActionInv'
  BY <1>1, ActionEnds
<1>5. SplitInv' /\ PlaceInv' /\ WholeInv' /\ PrefixInv' /\ AfterInv' /\ ShutInv'
  BY <1>1, PlaceEnds
<1>6. LineInv'
  BY <1>1, LineEnds
<1>7. FrontInv'
  BY <1>1, FrontEnds
<1>8. ContInv'
  BY <1>1, ContEnds
<1>9. IsoInv'
  BY <1>1, IsoEnds
<1> QED
  BY <1>2, <1>3, <1>4, <1>5, <1>6, <1>7, <1>8, <1>9 DEF TransferInv

-----------------------------------------------------------------------------
(* The device leaves. *)

\* What has become of the URBs when the device has left.
LEMMA AllFacts ==
  ASSUME Inv, StatusInv, AllEnd
  PROVE  /\ N \in Nat /\ N' = N /\ Queued \in SUBSET (1 .. N) /\ Queued' = {} /\ Back' = Back \cup Queued
         /\ \A j \in Queued : Left(j, "done", "shutdown", sent, 0) /\ urbs[j].actual = 0
         /\ \A j \in 1 .. N : j \notin Queued => urbs'[j] = urbs[j]
         /\ \A j \in 1 .. N : urbs'[j].room = urbs[j].room /\ urbs'[j].actual = urbs[j].actual
         /\ \A j \in 1 .. N : Bad(j)' <=> Bad(j)
         /\ kind' = kind /\ Given' = Given /\ Fresh' = Fresh /\ Clean' = Clean /\ BulkLike' = BulkLike
         /\ sent' = sent /\ past' = past /\ priv' = priv /\ handler' = handler /\ refuses' = refuses
         /\ buffer' = buffer /\ transferred' = transferred /\ phase' = phase
         /\ work'.who = work.who /\ (work.who = "submit" => work' = work)
<1>1. N \in Nat /\ Queued \in SUBSET (1 .. N)
  BY QueuedFacts DEF Inv
<1>2. /\ kind' = kind /\ priv' = priv /\ handler' = handler /\ refuses' = refuses /\ past' = past
      /\ buffer' = buffer /\ transferred' = transferred /\ phase' = phase
      /\ work'.who = work.who /\ (work.who = "submit" => work' = work)
  BY DEF AllEnd, Calm
<1>3. /\ N' = N /\ Queued' = {} /\ ToSet(done') = ToSet(done) \cup Queued /\ sent' = sent
      /\ \A j \in Queued : Left(j, "done", "shutdown", sent, urbs[j].actual)
      /\ \A j \in 1 .. N : j \notin Queued => urbs'[j] = urbs[j]
  BY DEF AllEnd, Leaves
<1>4. \A j \in Queued : urbs[j].actual = 0 /\ urbs[j].status = None
  BY <1>1 DEF StatusInv
<1>5. \A j \in Queued : Left(j, "done", "shutdown", sent, 0)
  BY <1>3, <1>4
<1>6. Back' = Back \cup Queued
  BY <1>2, <1>3 DEF Back, Handled
<1>7. ASSUME NEW j \in 1 .. N
      PROVE  urbs'[j].room = urbs[j].room /\ urbs'[j].actual = urbs[j].actual /\ (Bad(j)' <=> Bad(j))
  <2>1. CASE j \in Queued
    <3>1. Left(j, "done", "shutdown", sent, 0) /\ urbs[j].actual = 0 /\ urbs[j].status = None
      BY <1>4, <1>5, <2>1
    <3>2. ~Bad(j) /\ ~Bad(j)'
      BY <3>1 DEF Left, Bad, Faults, None
    <3> QED
      BY <3>1, <3>2 DEF Left
  <2>2. CASE j \notin Queued
    <3>1. urbs'[j] = urbs[j]
      BY <1>3, <2>2
    <3> QED
      BY <3>1 DEF Bad
  <2> QED
    BY <2>1, <2>2
<1>8. Given' = Given /\ Fresh' = Fresh /\ Clean' = Clean /\ BulkLike' = BulkLike
  BY <1>2, <1>3 DEF Given, Fresh, Clean, BulkLike
<1> QED
  BY <1>1, <1>2, <1>3, <1>4, <1>5, <1>6, <1>7, <1>8

\* The units of the transfer stay in line when the device leaves.
LEMMA LineLeaves ==
  ASSUME Inv, StatusInv, LineInv, AllEnd
  PROVE  LineInv'
<1>1. /\ N \in Nat /\ Queued \in SUBSET (1 .. N) /\ sent' = sent
      /\ \A j \in Queued : Left(j, "done", "shutdown", sent, 0)
      /\ \A j \in 1 .. N : j \notin Queued => urbs'[j] = urbs[j]
      /\ kind' = kind /\ transferred' = transferred /\ handler' = handler
  BY AllFacts
<1>2. PICK rest \in Seq(Queued) : Joins(done', done, rest)
  BY DEF AllEnd, Leaves
<1>3. rest \in Seq(1 .. N)
  BY <1>1, SeqOfSubset
<1>4. \A m \in 1 .. Len(rest) : rest[m] \in Queued
  BY <1>2
<1>5. sent \in Nat
  BY DEF Inv, TypeInv
<1>6. ASSUME NEW j \in Queued PROVE urbs'[j].from = sent /\ Stops(j)' = sent
  <2>1. urbs'[j].from = sent /\ urbs'[j].actual = 0
    BY <1>1 DEF Left
  <2> QED
    BY <1>5, <2>1 DEF Stops
<1>7. rest # << >> => 1 \in 1 .. Len(rest) /\ Len(rest) \in 1 .. Len(rest)
  BY <1>3
<1>8. rest # << >> => urbs'[rest[1]].from = sent /\ Stops(rest[Len(rest)])' = sent'
  BY <1>1, <1>4, <1>6, <1>7
<1>9. ASSUME NEW m \in 1 .. Len(rest) - 1 PROVE urbs'[rest[m + 1]].from = Stops(rest[m])'
  <2>1. m \in 1 .. Len(rest) /\ m + 1 \in 1 .. Len(rest)
    BY <1>3
  <2> QED
    BY <1>4, <1>6, <2>1
<1>10. \A b \in Back : urbs'[b] = urbs[b]
  BY <1>1, BackInRange, BackIsNotQueued
<1> QED
  BY <1>1, <1>2, <1>3, <1>8, <1>9, <1>10, LineGrows

\* What is known of a transfer stays true when the device leaves.
LEMMA AllKeeps ==
  ASSUME Inv, Flying, TransferInv, AllEnd
  PROVE  TransferInv'
<1>1. /\ StatusInv /\ BadInv /\ CutInv /\ GoneInv /\ EarlyInv /\ ActionInv
      /\ SplitInv /\ PlaceInv /\ LineInv /\ FrontInv /\ WholeInv /\ PrefixInv /\ AfterInv /\ ContInv /\ ShutInv /\ IsoInv
  BY DEF TransferInv
<1>2. /\ N \in Nat /\ N' = N /\ Queued \in SUBSET (1 .. N) /\ Queued' = {} /\ Back' = Back \cup Queued
      /\ \A j \in Queued : Left(j, "done", "shutdown", sent, 0) /\ urbs[j].actual = 0
      /\ \A j \in 1 .. N : j \notin Queued => urbs'[j] = urbs[j]
      /\ \A j \in 1 .. N : urbs'[j].room = urbs[j].room /\ urbs'[j].actual = urbs[j].actual
      /\ \A j \in 1 .. N : Bad(j)' <=> Bad(j)
  BY <1>1, AllFacts
<1>3. /\ kind' = kind /\ Given' = Given /\ Fresh' = Fresh /\ Clean' = Clean /\ BulkLike' = BulkLike
      /\ sent' = sent /\ past' = past /\ priv' = priv /\ handler' = handler /\ refuses' = refuses
      /\ buffer' = buffer /\ transferred' = transferred /\ phase' = phase
      /\ work'.who = work.who /\ (work.who = "submit" => work' = work)
  BY <1>1, AllFacts
<1>4. /\ \A j \in Queued : urbs'[j].status = "shutdown" /\ urbs'[j].from = sent
      /\ plugged /\ ~plugged' /\ Back \cap Queued = {} /\ Back \subseteq 1 .. N
  BY <1>1, <1>2, BackIsNotQueued, BackInRange DEF Left, AllEnd
<1>5. StatusInv'
  <2>1. ASSUME NEW b \in Back' PROVE urbs'[b].status # None
    BY <1>1, <1>2, <1>4, <2>1 DEF StatusInv, None
  <2>2. ASSUME work'.who = "submit", NEW j \in work'.at .. N PROVE urbs'[j].status = None
    <3>1. work' = work /\ work.who = "submit"
      BY <1>3, <2>2
    <3>2. j \in 1 .. N /\ j \in work.at .. N /\ urbs[j].at = None
      <4>1. work.at \in 1 .. N + 1 /\ \A k \in work.at .. N : urbs[k].at = None
        BY <3>1 DEF Inv, SubmitInv
      <4> QED
        BY <1>2, <2>2, <3>1, <4>1
    <3>3. j \notin Queued
      BY <3>2 DEF Queued, None
    <3> QED
      BY <1>1, <1>2, <3>1, <3>2, <3>3 DEF StatusInv
  <2>3. ASSUME NEW j \in 1 .. N
        PROVE  /\ urbs'[j].actual <= urbs'[j].room
               /\ urbs'[j].status \in {None, "unlinked", "shutdown"} => urbs'[j].actual = 0
               /\ urbs'[j].status = "killed" => ~Fresh
    <3>1. CASE j \in Queued
      <4>1. urbs'[j].actual <= urbs'[j].room
        BY <1>1, <1>2 DEF StatusInv
      <4> QED
        BY <1>2, <1>4, <3>1, <4>1
    <3>2. CASE j \notin Queued
      BY <1>1, <1>2, <3>2 DEF StatusInv
    <3> QED
      BY <3>1, <3>2
  <2> QED
    BY <1>2, <1>3, <2>1, <2>2, <2>3 DEF StatusInv
<1>6. BadInv'
  <2>1. ASSUME NEW j \in 1 .. N, urbs'[j].status = "unlinked" PROVE \E k \in 1 .. N : k < j /\ Bad(k)
    BY <1>1, <1>2, <1>4, <2>1 DEF BadInv
  <2> QED
    BY <1>2, <2>1 DEF BadInv
<1>7. CutInv'
  <2>1. ASSUME NEW j \in 1 .. N PROVE IsFirst(j)' <=> IsFirst(j)
    BY <1>2 DEF IsFirst
  <2>2. ASSUME NEW j \in 1 .. N, NEW f \in Faults PROVE urbs'[j].status = f <=> urbs[j].status = f
    <3>1. CASE j \in Queued
      <4>1. urbs[j].status = None
        BY <1>1, <3>1 DEF StatusInv
      <4> QED
        BY <1>4, <3>1, <4>1 DEF Faults, None
    <3>2. CASE j \notin Queued
      BY <1>2, <3>2
    <3> QED
      BY <3>1, <3>2
  <2>3. (past \cap (Faults \cup {"short"}) # {}) <=> \E j \in 1 .. N : Bad(j)'
    BY <1>1, <1>2 DEF CutInv
  <2>4. \A j \in 1 .. N : urbs'[j].status \in Faults /\ IsFirst(j)' => urbs'[j].status \in past
    BY <1>1, <2>1, <2>2 DEF CutInv
  <2>5. ASSUME NEW f \in past \cap Faults
        PROVE  f \in kind.faults /\ \E j \in 1 .. N : urbs'[j].status = f /\ IsFirst(j)'
    BY <1>1, <2>1, <2>2 DEF CutInv
  <2> QED
    BY <1>2, <1>3, <2>3, <2>4, <2>5 DEF CutInv
<1>8. GoneInv' /\ EarlyInv' /\ ActionInv'
  <2>1. GoneInv'
    BY <1>1, <1>2, <1>3 DEF GoneInv
  <2>2. EarlyInv'
    BY <1>1, <1>3 DEF EarlyInv, Continues
  <2>3. ActionInv'
    BY <1>1, <1>3 DEF ActionInv
  <2> QED
    BY <2>1, <2>2, <2>3
<1>9. SplitInv' /\ PlaceInv' /\ WholeInv'
  BY <1>1, <1>2, <1>3 DEF SplitInv, PlaceInv, WholeInv
<1>10. LineInv'
  BY <1>1, LineLeaves
<1>11. FrontInv'
  <2>1. ASSUME NEW j \in 1 .. N
        PROVE  Stops(j)' <= sent /\ (urbs'[j].actual > 0 => urbs'[j].from <= Start(kind)[j])
    <3>1. CASE j \in Queued
      <4>1. sent \in Nat /\ urbs'[j].from = sent /\ urbs'[j].actual = 0
        BY <1>2, <1>4, <3>1 DEF Inv, TypeInv
      <4> QED
        BY <4>1 DEF Stops
    <3>2. CASE j \notin Queued
      <4>1. urbs'[j] = urbs[j]
        BY <1>2, <3>2
      <4> QED
        BY <1>1, <4>1 DEF FrontInv, Stops
    <3> QED
      BY <3>1, <3>2
  <2> QED
    BY <1>1, <1>2, <1>3, <2>1 DEF FrontInv
<1>12. PrefixInv'
  <2>1. handler.at = "handle" => handler.urb \in 1 .. N
    BY DEF Inv, CountInv
  <2>2. Copied' = Copied
    BY <1>2, <1>3, <2>1 DEF Copied
  <2> QED
    BY <1>1, <1>3, <2>2 DEF PrefixInv
<1>13. AfterInv'
  <2>1. ASSUME NEW b \in Back', Fresh, ~Clean PROVE urbs'[b].actual = 0
    <3>1. b \in Back
      BY <1>1, <1>2, <2>1 DEF AfterInv
    <3> QED
      BY <1>1, <1>2, <1>4, <2>1, <3>1 DEF AfterInv
  <2> QED
    BY <1>2, <1>3, <2>1 DEF AfterInv
<1>14. ContInv'
  BY <1>1, <1>2, <1>3 DEF ContInv, Continues
<1>15. ShutInv'
  <2> SUFFICES ASSUME Fresh, NEW i \in 1 .. N, NEW j \in 1 .. N, i < j, urbs'[i].status = "shutdown"
               PROVE  urbs'[j].status \in {"shutdown", None}
    BY <1>2, <1>3 DEF ShutInv
  <2>1. i \in Queued
    <3>1. urbs[i].status # "shutdown"
      BY <1>4 DEF Inv, CauseInv
    <3> QED
      BY <1>2, <3>1
  <2>2. Below(ToSet(done), Queued) /\ Below(Handled, ToSet(done) \cup Queued)
    BY DEF Inv, OrderInv, Fresh
  <2>3. j \notin Back
    <3>1. ~(j < i)
      BY <1>2
    <3> QED
      BY <2>1, <2>2, <3>1 DEF Back, Below
  <2>4. CASE j \in Queued
    BY <1>4, <2>4
  <2>5. CASE j \notin Queued
    <3>1. priv.retired \in Nat /\ Given \in Int
      BY <1>2 DEF Inv, TypeInv, Priv, Given, Work
    <3>2. i \in priv.retired + 1 .. Given /\ j \notin priv.retired + 1 .. Given
      BY <1>1, <2>1, <2>3, <2>5 DEF PlaceInv
    <3>3. j > Given
      BY <1>2, <3>1, <3>2
    <3>4. work.who = "submit" /\ j > work.at - 1 /\ work.at \in Int
      BY <1>2, <3>3 DEF Given, Inv, TypeInv, Work
    <3>5. j \in work.at .. N
      BY <1>2, <3>4
    <3>6. urbs[j].status = None
      BY <1>1, <3>4, <3>5 DEF StatusInv
    <3> QED
      BY <1>2, <2>5, <3>6
  <2> QED
    BY <2>4, <2>5
<1>16. IsoInv'
  <2> SUFFICES ASSUME kind.type = "iso" PROVE IsoInv'
    BY <1>3 DEF IsoInv
  <2>1. /\ \A j \in 1 .. N : urbs[j].status \in {None, "ok", "killed", "shutdown"}
        /\ Fresh => \A j \in 1 .. N : urbs[j].status = "ok" => urbs[j].from = Start(kind)[j] /\ urbs[j].actual = urbs[j].room
        /\ Fresh => priv.packets = Told(Start(kind)[priv.retired + 1])
    BY <1>1, <1>4 DEF IsoInv
  <2>2. \A j \in 1 .. N : urbs'[j].status \in {None, "ok", "killed", "shutdown"}
    BY <1>2, <1>4, <2>1
  <2>3. Fresh => \A j \in 1 .. N :
          urbs'[j].status = "ok" => urbs'[j].from = Start(kind)[j] /\ urbs'[j].actual = urbs'[j].room
    BY <1>2, <1>4, <2>1
  <2> QED
    BY <1>2, <1>3, <1>4, <2>1, <2>2, <2>3 DEF IsoInv
<1> QED
  BY <1>5, <1>6, <1>7, <1>8, <1>9, <1>10, <1>11, <1>12, <1>13, <1>14, <1>15, <1>16 DEF TransferInv

-----------------------------------------------------------------------------
(* What is done to a transfer while its URBs stay as they are. *)

\* What is said of the URBs stays the same.
LEMMA SameUrbs ==
  ASSUME urbs' = urbs
  PROVE  /\ N' = N /\ Queued' = Queued
         /\ \A i : (Bad(i)' <=> Bad(i)) /\ (IsFirst(i)' <=> IsFirst(i)) /\ Stops(i)' = Stops(i)
<1>1. N' = N
  BY DEF N
<1>2. Queued' = Queued
  BY <1>1 DEF Queued
<1>3. \A i : Bad(i)' <=> Bad(i)
  BY DEF Bad
<1>4. \A i : IsFirst(i)' <=> IsFirst(i)
  BY <1>1, <1>3 DEF IsFirst
<1>5. \A i : Stops(i)' = Stops(i)
  BY DEF Stops
<1> QED
  BY <1>1, <1>2, <1>3, <1>4, <1>5

\* How much has come, and how much is there besides.
LEMMA DataFacts ==
  ASSUME Inv, LineInv, kind.type # "iso"
  PROVE  transferred \in Nat /\ Copied \in Nat
<1>1. /\ N \in Nat /\ sent \in Nat /\ \A i \in 1 .. N : urbs[i].from \in Nat /\ urbs[i].actual \in Nat
      /\ handler.at = "handle" => handler.urb \in 1 .. N
  BY QueuedFacts DEF Inv, TypeInv, CountInv, Urb
<1>2. PICK L \in Seq(1 .. N) : L = Line
  BY LineFacts
<1>3. CASE L = << >>
  BY <1>1, <1>2, <1>3 DEF LineInv, Copied
<1>4. CASE L # << >>
  <2>1. 1 \in 1 .. Len(L)
    BY <1>4
  <2>2. L[1] \in 1 .. N
    <3>1. PICK S : S = 1 .. N
      OBVIOUS
    <3>2. L \in Seq(S)
      BY <3>1
    <3>3. L[1] \in S
      BY <2>1, <3>2
    <3> QED
      BY <3>1, <3>3
  <2>3. transferred = urbs[L[1]].from
    BY <1>2, <1>4 DEF LineInv
  <2> QED
    BY <1>1, <2>2, <2>3 DEF Copied
<1> QED
  BY <1>3, <1>4

\* What the invariants that do not look at the work, and not at what has been asked
\* for, say stays true.
LEMMA UrbsStay ==
  ASSUME StatusInv, BadInv, SplitInv, LineInv, PrefixInv, ContInv, Inv,
         urbs' = urbs, done' = done, kind' = kind, sent' = sent, buffer' = buffer, transferred' = transferred,
         handler' = handler, refuses' = refuses, Fresh' => Fresh,
         work'.who = "submit" => work.who = "submit" /\ work.at <= work'.at /\ {work.at, work'.at} \subseteq Nat
  PROVE  StatusInv' /\ BadInv' /\ SplitInv' /\ LineInv' /\ PrefixInv' /\ ContInv'
<1>1. /\ N' = N /\ Queued' = Queued
      /\ \A i : (Bad(i)' <=> Bad(i)) /\ (IsFirst(i)' <=> IsFirst(i)) /\ Stops(i)' = Stops(i)
  BY SameUrbs
<1>2. Back' = Back /\ Line' = Line /\ BulkLike' = BulkLike /\ N \in Nat
  BY QueuedFacts DEF Inv, Back, Handled, Line, BulkLike
<1>3. StatusInv'
  <2>1. ASSUME work'.who = "submit", NEW j \in work'.at .. N PROVE urbs[j].status = None
    <3>1. j \in work.at .. N /\ work.who = "submit"
      BY <1>2, <2>1
    <3> QED
      BY <3>1 DEF StatusInv
  <2> QED
    BY <1>1, <1>2, <2>1 DEF StatusInv
<1>4. BadInv'
  BY <1>1 DEF BadInv
<1>5. SplitInv'
  BY <1>1 DEF SplitInv
<1>6. LineInv'
  BY <1>1, <1>2 DEF LineInv
<1>7. PrefixInv'
  <2> SUFFICES ASSUME BulkLike, NEW p \in 1 .. transferred + Copied' PROVE buffer[p] = p
    BY <1>2 DEF PrefixInv
  <2>1. kind.type # "iso"
    BY DEF BulkLike
  <2>2. transferred \in Nat /\ Copied \in Nat
    BY <2>1, DataFacts
  <2>3. Copied' = Copied \/ Copied' = 0
    BY DEF Copied
  <2>4. p \in 1 .. transferred + Copied
    BY <2>2, <2>3
  <2> QED
    BY <2>4 DEF PrefixInv
<1>8. ContInv'
  BY <1>1 DEF ContInv, Continues
<1> QED
  BY <1>3, <1>4, <1>5, <1>6, <1>7, <1>8

\* What is known of a transfer stays true when nothing of it changes but the work.
LEMMA SameKeep ==
  ASSUME Inv, Flying, TransferInv,
         urbs' = urbs, done' = done, kind' = kind, sent' = sent, buffer' = buffer, transferred' = transferred,
         handler' = handler, refuses' = refuses, priv' = priv, past' = past, plugged' = plugged, Given' = Given,
         work'.who = "submit" => work' = work /\ phase' = phase
  PROVE  TransferInv'
<1>1. /\ StatusInv /\ BadInv /\ CutInv /\ GoneInv /\ EarlyInv /\ ActionInv
      /\ SplitInv /\ PlaceInv /\ LineInv /\ FrontInv /\ WholeInv /\ PrefixInv /\ AfterInv /\ ContInv /\ ShutInv /\ IsoInv
  BY DEF TransferInv
<1>2. /\ N' = N /\ Queued' = Queued
      /\ \A i : (Bad(i)' <=> Bad(i)) /\ (IsFirst(i)' <=> IsFirst(i)) /\ Stops(i)' = Stops(i)
  BY SameUrbs
<1>3. Back' = Back /\ BulkLike' = BulkLike /\ Fresh' = Fresh /\ Clean' = Clean
  BY DEF Back, Handled, BulkLike, Fresh, Clean
<1>4. StatusInv' /\ BadInv' /\ SplitInv' /\ LineInv' /\ PrefixInv' /\ ContInv'
  <2>1. work'.who = "submit" => work.who = "submit" /\ work.at <= work'.at /\ {work.at, work'.at} \subseteq Nat
    <3> SUFFICES ASSUME work'.who = "submit" PROVE work.who = "submit" /\ work.at <= work'.at /\ {work.at, work'.at} \subseteq Nat
      OBVIOUS
    <3>1. work' = work /\ N \in Nat
      BY QueuedFacts DEF Inv
    <3>2. work.at \in 1 .. N + 1
      BY <3>1 DEF Inv, SubmitInv
    <3> QED
      BY <3>1, <3>2
  <2> QED
    BY <1>1, <1>3, <2>1, UrbsStay
<1>5. CutInv'
  BY <1>1, <1>2 DEF CutInv
<1>6. GoneInv'
  BY <1>1, <1>2, <1>3 DEF GoneInv
<1>7. EarlyInv'
  BY <1>1 DEF EarlyInv, Continues
<1>8. ActionInv'
  BY <1>1, <1>3 DEF ActionInv
<1>9. PlaceInv' /\ WholeInv' /\ AfterInv' /\ ShutInv'
  BY <1>1, <1>2, <1>3 DEF PlaceInv, WholeInv, AfterInv, ShutInv
<1>10. FrontInv'
  BY <1>1, <1>2 DEF FrontInv
<1>11. IsoInv'
  BY <1>1, <1>2, <1>3 DEF IsoInv
<1> QED
  BY <1>4, <1>5, <1>6, <1>7, <1>8, <1>9, <1>10, <1>11 DEF TransferInv

\* So it does when the transfer is no longer as it should be.
LEMMA TurnKeeps ==
  ASSUME UsbUrbsAssumption, IsoSplits, Inv, Flying, TransferInv,
         urbs' = urbs, done' = done, kind' = kind, sent' = sent, buffer' = buffer, transferred' = transferred,
         handler' = handler, refuses' = refuses, plugged' = plugged, ~Fresh',
         past' = past \/ \E x \in {"refused", "asked"} : past' = past \cup {x},
         EarlyInv', ActionInv',
         work'.who = "submit" => work.who = "submit" /\ work'.at = N + 1
  PROVE  TransferInv'
<1>1. /\ StatusInv /\ BadInv /\ CutInv /\ GoneInv /\ EarlyInv /\ ActionInv
      /\ SplitInv /\ PlaceInv /\ LineInv /\ FrontInv /\ WholeInv /\ PrefixInv /\ AfterInv /\ ContInv /\ ShutInv /\ IsoInv
  BY DEF TransferInv
<1>2. /\ N' = N /\ Queued' = Queued
      /\ \A i : (Bad(i)' <=> Bad(i)) /\ (IsFirst(i)' <=> IsFirst(i)) /\ Stops(i)' = Stops(i)
  BY SameUrbs
<1>3. N \in Nat /\ ~Clean'
  BY QueuedFacts DEF Inv, Clean
<1>4. StatusInv' /\ BadInv' /\ SplitInv' /\ LineInv' /\ PrefixInv' /\ ContInv'
  <2>1. work'.who = "submit" => work.who = "submit" /\ work.at <= work'.at /\ {work.at, work'.at} \subseteq Nat
    <3> SUFFICES ASSUME work'.who = "submit" PROVE work.who = "submit" /\ work.at <= work'.at /\ {work.at, work'.at} \subseteq Nat
      OBVIOUS
    <3>1. work.who = "submit" /\ work.at \in 1 .. N + 1 /\ work'.at = N + 1
      BY DEF Inv, SubmitInv
    <3> QED
      BY <1>3, <3>1
  <2> QED
    BY <1>1, <2>1, UrbsStay
<1>5. CutInv'
  <2>1. past' \cap Faults = past \cap Faults /\ past' \cap (Faults \cup {"short"}) = past \cap (Faults \cup {"short"})
    BY DEF Faults
  <2>2. past \subseteq past'
    OBVIOUS
  <2> QED
    BY <1>1, <1>2, <2>1, <2>2 DEF CutInv
<1>6. GoneInv' /\ PlaceInv' /\ WholeInv' /\ AfterInv' /\ ShutInv'
  BY <1>3 DEF GoneInv, PlaceInv, WholeInv, AfterInv, ShutInv
<1>7. FrontInv'
  <2>1. sent <= Start(kind)[N + 1]
    <3>1. Start(kind)[N + 1] = LengthOf(kind)
      BY <1>1, StartFacts DEF Inv
    <3> QED
      BY <1>1, <3>1 DEF FrontInv
  <2> QED
    BY <1>1, <1>2, <2>1 DEF FrontInv
<1>8. IsoInv'
  BY <1>1, <1>2 DEF IsoInv
<1> QED
  BY <1>4, <1>5, <1>6, <1>7, <1>8 DEF TransferInv

\* The units of the transfer stay in line while their places stay the same.
LEMMA LineStays ==
  ASSUME Inv, LineInv, Line' = Line, kind' = kind, transferred' = transferred, sent' = sent,
         \A j \in 1 .. N : urbs'[j].from = urbs[j].from /\ Stops(j)' = Stops(j)
  PROVE  LineInv'
<1> SUFFICES ASSUME kind.type # "iso" PROVE LineInv'
  BY DEF LineInv
<1>1. PICK L \in Seq(1 .. N) : L = Line
  BY LineFacts
<1>2. \A m \in 1 .. Len(L) : L[m] \in 1 .. N
  BY <1>1, LineFacts, BackInRange
<1>3. L # << >> => 1 \in 1 .. Len(L) /\ Len(L) \in 1 .. Len(L)
  BY <1>1
<1>4. \A m \in 1 .. Len(L) - 1 : m \in 1 .. Len(L) /\ m + 1 \in 1 .. Len(L)
  BY <1>1
<1>5. /\ L = << >> => transferred = sent
      /\ L # << >> => urbs[L[1]].from = transferred /\ Stops(L[Len(L)]) = sent
      /\ \A m \in 1 .. Len(L) - 1 : urbs[L[m + 1]].from = Stops(L[m])
  BY <1>1 DEF LineInv
<1>6. /\ L = << >> => transferred = sent
      /\ L # << >> => urbs'[L[1]].from = transferred /\ Stops(L[Len(L)])' = sent
      /\ \A m \in 1 .. Len(L) - 1 : urbs'[L[m + 1]].from = Stops(L[m])'
  BY <1>2, <1>3, <1>4, <1>5
<1> QED
  BY <1>1, <1>6 DEF LineInv

\* One more URB is submitted.
LEMMA SubmitUrbKeep ==
  ASSUME UsbUrbsAssumption, IsoSplits, Inv, Flying, TransferInv, SubmitUrb
  PROVE  TransferInv'
<1>1. /\ StatusInv /\ BadInv /\ CutInv /\ GoneInv /\ EarlyInv /\ ActionInv
      /\ SplitInv /\ PlaceInv /\ LineInv /\ FrontInv /\ WholeInv /\ PrefixInv /\ AfterInv /\ ContInv /\ ShutInv /\ IsoInv
  BY DEF TransferInv
<1>2. /\ kind' = kind /\ plugged' = plugged /\ done' = done /\ refuses' = refuses /\ sent' = sent /\ priv' = priv
      /\ buffer' = buffer /\ transferred' = transferred /\ phase' = phase /\ handler' = handler /\ past' = past
      /\ work.who = "submit" /\ work.at <= N /\ plugged /\ ~refuses
  BY DEF SubmitUrb, data
<1>3. PICK w \in Nat : w = work.at /\ w \in 1 .. N
  <2>1. work.at \in 1 .. N + 1 /\ N \in Nat
    BY <1>2, QueuedFacts DEF Inv, SubmitInv
  <2> QED
    BY <1>2, <2>1
<1>4. work'.who = "submit" /\ work'.at = w + 1 /\ work.at = w
  BY <1>2, <1>3 DEF SubmitUrb, Inv, TypeInv, Work
<1>5. N \in Nat /\ N' = N /\ \A j \in 1 .. N :
        /\ urbs'[j].at = IF j = w THEN "queued" ELSE urbs[j].at
        /\ urbs'[j].status = urbs[j].status /\ urbs'[j].room = urbs[j].room
        /\ urbs'[j].from = urbs[j].from /\ urbs'[j].actual = urbs[j].actual
  <2>1. N \in Nat /\ urbs \in Seq(Urb) /\ DOMAIN urbs = 1 .. N /\ \A j \in 1 .. N : urbs[j] \in Urb
    BY QueuedFacts DEF Inv, TypeInv
  <2>2. urbs' = [urbs EXCEPT ![w].at = "queued"]
    BY <1>3 DEF SubmitUrb
  <2>3. N' = N
    BY <2>1, <2>2 DEF N
  <2>4. ASSUME NEW u \in Urb, NEW v, v = [u EXCEPT !.at = "queued"]
        PROVE  v.at = "queued" /\ v.status = u.status /\ v.room = u.room /\ v.from = u.from /\ v.actual = u.actual
    BY <2>4 DEF Urb
  <2>5. ASSUME NEW j \in 1 .. N
        PROVE  /\ urbs'[j].at = IF j = w THEN "queued" ELSE urbs[j].at
               /\ urbs'[j].status = urbs[j].status /\ urbs'[j].room = urbs[j].room
               /\ urbs'[j].from = urbs[j].from /\ urbs'[j].actual = urbs[j].actual
    <3>1. CASE j = w
      <4>1. urbs'[j] = [urbs[j] EXCEPT !.at = "queued"] /\ urbs[j] \in Urb
        BY <2>1, <2>2, <3>1
      <4> QED
        BY <2>4, <3>1, <4>1
    <3>2. CASE j # w
      <4>1. urbs'[j] = urbs[j]
        BY <2>1, <2>2, <3>2
      <4> QED
        BY <3>2, <4>1
    <3> QED
      BY <3>1, <3>2
  <2> QED
    BY <2>1, <2>3, <2>5
<1>6. Queued' = Queued \cup {w}
  BY <1>3, <1>5 DEF Queued
<1>7. \A j \in w .. N : urbs[j].status = None
  BY <1>1, <1>2, <1>4 DEF StatusInv
<1>8. urbs[w].actual = 0 /\ urbs[w].status = None /\ w \in w .. N
  BY <1>1, <1>3, <1>5, <1>7 DEF StatusInv
<1>9. Back' = Back /\ Line' = Line /\ BulkLike' = BulkLike /\ Fresh' = Fresh /\ Clean' = Clean /\ Back \subseteq 1 .. N
  BY <1>2, BackInRange DEF Back, Handled, Line, BulkLike, Fresh, Clean
<1>10. \A j \in 1 .. N : (Bad(j)' <=> Bad(j)) /\ Stops(j)' = Stops(j)
  BY <1>5 DEF Bad, Stops
<1>11. \A j \in 1 .. N : Bad(j) => j < w
  <2> SUFFICES ASSUME NEW j \in 1 .. N, Bad(j) PROVE j < w
    OBVIOUS
  <2>1. j \notin w .. N
    BY <1>7 DEF Bad, Faults, None
  <2> QED
    BY <1>3, <1>5, <2>1
<1>12. StatusInv'
  <2>1. \A j \in work'.at .. N : j \in w .. N
    BY <1>3, <1>4, <1>5
  <2>2. \A j \in 1 .. N :
          /\ urbs'[j].actual <= urbs'[j].room
          /\ urbs'[j].status \in {None, "unlinked", "shutdown"} => urbs'[j].actual = 0
          /\ urbs'[j].status = "killed" => ~Fresh'
    BY <1>1, <1>5, <1>9 DEF StatusInv
  <2>3. \A q \in Queued' : urbs'[q].status = None
    <3>1. Queued \subseteq 1 .. N /\ \A q \in Queued : urbs[q].status = None
      BY <1>1 DEF StatusInv, Queued
    <3>2. \A q \in 1 .. N : urbs'[q].status = urbs[q].status
      BY <1>5
    <3>3. \A q \in Queued' : q \in 1 .. N /\ urbs[q].status = None
      BY <1>3, <1>6, <1>8, <3>1
    <3> QED
      BY <3>2, <3>3
  <2>4. \A b \in Back' : urbs'[b].status # None
    BY <1>1, <1>5, <1>9 DEF StatusInv
  <2>5. \A j \in work'.at .. N : urbs'[j].status = None
    <3>1. w .. N \subseteq 1 .. N
      BY <1>3, <1>5
    <3> QED
      BY <1>5, <1>7, <2>1, <3>1
  <2> QED
    BY <1>5, <2>2, <2>3, <2>4, <2>5 DEF StatusInv
<1>13. BadInv'
  <2>1. \A j \in 1 .. N : Bad(j)' => \A q \in Queued' : j < q
    BY <1>1, <1>6, <1>10, <1>11 DEF BadInv
  <2>2. \A j \in 1 .. N : urbs'[j].status = "unlinked" => \E k \in 1 .. N : k < j /\ Bad(k)'
    BY <1>1, <1>5, <1>10 DEF BadInv
  <2> QED
    BY <1>5, <2>1, <2>2 DEF BadInv
<1>14. CutInv'
  <2>1. \A j \in 1 .. N : IsFirst(j)' <=> IsFirst(j)
    BY <1>5, <1>10 DEF IsFirst
  <2> QED
    BY <1>1, <1>2, <1>5, <1>10, <2>1 DEF CutInv
<1>15. GoneInv' /\ EarlyInv' /\ ActionInv'
  <2>1. GoneInv'
    BY <1>1, <1>5, <1>9, <1>10 DEF GoneInv
  <2>2. EarlyInv'
    BY <1>1, <1>2 DEF EarlyInv, Continues
  <2>3. ActionInv'
    BY <1>1, <1>2, <1>9 DEF ActionInv
  <2> QED
    BY <2>1, <2>2, <2>3
<1>16. SplitInv' /\ LineInv' /\ WholeInv'
  <2>1. SplitInv'
    BY <1>1, <1>2, <1>5 DEF SplitInv
  <2>2. LineInv'
    BY <1>1, <1>2, <1>5, <1>9, <1>10, LineStays
  <2>3. WholeInv'
    BY <1>1, <1>2, <1>9 DEF WholeInv
  <2> QED
    BY <2>1, <2>2, <2>3
<1>17. Given = w - 1 /\ Given' = w
  BY <1>2, <1>3, <1>4 DEF Given
<1>18. PlaceInv'
  <2> SUFFICES ASSUME Fresh PROVE Queued' \cup Back' = priv.retired + 1 .. w
    BY <1>2, <1>9, <1>17 DEF PlaceInv
  <2>1. priv.retired \in Nat /\ priv.retired <= w - 1
    <3>1. Cardinality(Queued) \in Nat /\ Len(done) \in Nat /\ Cardinality(Handled) \in Nat
      BY CountFacts DEF Inv
    <3>2. Cardinality(Queued) + Len(done) + Cardinality(Handled) + priv.retired = w - 1 /\ priv.retired \in Nat
      BY <1>17 DEF Inv, CountInv, TypeInv, Priv
    <3> QED
      BY <1>3, <3>1, <3>2
  <2>2. Queued \cup Back = priv.retired + 1 .. w - 1
    BY <1>1, <1>17 DEF PlaceInv
  <2> QED
    BY <1>3, <1>6, <1>9, <2>1, <2>2
<1>19. FrontInv'
  <2>1. sent <= Start(kind)[w] /\ sent <= Start(kind)[w + 1]
    <3>1. sent <= Start(kind)[w] /\ sent \in Nat
      BY <1>1, <1>2, <1>4 DEF FrontInv, Inv, TypeInv
    <3>2. w \in 1 .. N + 1 /\ w + 1 \in 1 .. N + 1 /\ w <= w + 1
      BY <1>3, <1>5
    <3>3. Start(kind)[w] \in Nat /\ Start(kind)[w + 1] \in Nat /\ Start(kind)[w] <= Start(kind)[w + 1]
      BY <1>1, <3>2, StartFacts DEF Inv
    <3> QED
      BY <3>1, <3>3
  <2>2. \A j \in 1 .. N : urbs[j].actual > 0 => \A q \in Queued' : j < q
    <3> SUFFICES ASSUME NEW j \in 1 .. N, urbs[j].actual > 0, NEW q \in Queued' PROVE j < q
      OBVIOUS
    <3>1. CASE q = w
      <4>1. j \notin w .. N
        <5>1. ~(0 > 0)
          OBVIOUS
        <5> QED
          BY <1>1, <1>7, <5>1 DEF StatusInv
      <4> QED
        BY <1>3, <1>5, <3>1, <4>1
    <3>2. CASE q # w
      BY <1>1, <1>6, <3>2 DEF FrontInv
    <3> QED
      BY <3>1, <3>2
  <2>3. \A q \in Queued' : sent <= Start(kind)[q]
    BY <1>1, <1>6, <2>1 DEF FrontInv
  <2>4. \A j \in 1 .. N :
          Stops(j)' <= sent /\ (urbs'[j].actual > 0 => urbs'[j].from <= Start(kind)[j] /\ \A q \in Queued' : j < q)
    BY <1>1, <1>5, <1>10, <2>2 DEF FrontInv
  <2> QED
    BY <1>1, <1>2, <1>4, <1>5, <2>1, <2>3, <2>4 DEF FrontInv
<1>20. PrefixInv'
  <2>1. handler.at = "handle" => handler.urb \in 1 .. N
    BY DEF Inv, CountInv
  <2>2. Copied' = Copied
    BY <1>2, <1>5, <1>9, <2>1 DEF Copied
  <2> QED
    BY <1>1, <1>2, <1>9, <2>2 DEF PrefixInv
<1>21. AfterInv'
  <2>1. Fresh => Clean
    BY <1>1, <1>2 DEF EarlyInv, Clean
  <2> QED
    BY <1>9, <2>1 DEF AfterInv
<1>22. ContInv'
  BY <1>1, <1>2, <1>5, <1>10 DEF ContInv, Continues
<1>23. ShutInv'
  BY <1>1, <1>5, <1>9 DEF ShutInv
<1>24. IsoInv'
  <2> SUFFICES ASSUME kind.type = "iso" PROVE IsoInv'
    BY <1>2 DEF IsoInv
  <2>1. ASSUME Fresh PROVE w - 1 \in Queued \/ sent = Start(kind)[w]
    <3>1. CASE Queued = {}
      <4>1. sent = Start(kind)[Given + 1] /\ Given + 1 = w
        BY <1>1, <1>2, <1>3, <1>17, <2>1, <3>1 DEF IsoInv
      <4> QED
        BY <4>1
    <3>2. CASE Queued # {}
      <4>1. PICK q \in Queued : TRUE
        BY <3>2
      <4>2. priv.retired \in Nat /\ Queued \cup Back = priv.retired + 1 .. w - 1
        BY <1>1, <1>17, <2>1 DEF PlaceInv, Inv, TypeInv, Priv
      <4>3. w - 1 \in Queued \cup Back /\ q <= w - 1 /\ q \in Nat
        BY <1>3, <4>1, <4>2
      <4>4. w - 1 \notin Back
        <5>1. Below(ToSet(done), Queued) /\ Below(Handled, ToSet(done) \cup Queued)
          BY <2>1 DEF Inv, OrderInv, Fresh
        <5>2. w - 1 \in Back => w - 1 < q
          BY <4>1, <5>1 DEF Below, Back
        <5> QED
          BY <1>3, <4>3, <5>2
      <4> QED
        BY <4>3, <4>4
    <3> QED
      BY <3>1, <3>2
  <2>2. Fresh => \A q \in Queued' : q - 1 \in Queued' \/ sent = Start(kind)[q]
    BY <1>1, <1>2, <1>6, <2>1 DEF IsoInv
  <2>3. Fresh => \A j \in 1 .. N :
          urbs'[j].status = "ok" => urbs'[j].from = Start(kind)[j] /\ urbs'[j].actual = urbs'[j].room
    BY <1>1, <1>5 DEF IsoInv
  <2>4. \A j \in 1 .. N : urbs'[j].status \in {None, "ok", "killed", "shutdown"}
    BY <1>1, <1>5 DEF IsoInv
  <2>5. Fresh => priv.packets = Told(Start(kind)[priv.retired + 1])
    BY <1>1, <1>2 DEF IsoInv
  <2> QED
    BY <1>2, <1>5, <1>6, <1>9, <2>2, <2>3, <2>4, <2>5 DEF IsoInv
<1> QED
  BY <1>12, <1>13, <1>14, <1>15, <1>16, <1>18, <1>19, <1>20, <1>21, <1>22, <1>23, <1>24 DEF TransferInv

\* What the kernel refuses, and what is asked for.
LEMMA TurnsKeep ==
  ASSUME UsbUrbsAssumption, IsoSplits, Inv, Flying, TransferInv, RefusedAsEarly \/ LaterRefused \/ Cancel
  PROVE  TransferInv'
<1>1. /\ urbs' = urbs /\ done' = done /\ kind' = kind /\ sent' = sent /\ buffer' = buffer /\ transferred' = transferred
      /\ handler' = handler /\ refuses' = refuses /\ plugged' = plugged
  BY DEF RefusedAsEarly, LaterRefused, Cancel, kernel, data
<1>2. EarlyInv /\ ActionInv
  BY DEF TransferInv
<1>3. /\ refuses => Continues(kind)
      /\ work.who = "submit" => phase = "submitting" /\ priv.status = "COMPLETED" /\ past \cap Faults = {}
                                /\ (refuses => "short" \in past)
  BY <1>2 DEF EarlyInv
<1>4. /\ priv.action = "SUBMIT_FAILED" => "refused" \in past
      /\ priv.action = "CANCELLED" => "asked" \in past
      /\ priv.action = "ERROR" => priv.status # "COMPLETED"
      /\ priv.action = "COMPLETED_EARLY" /\ priv.status = "COMPLETED" => "short" \in past /\ past \cap Faults = {}
      /\ kind.type = "control" => priv.action \in {"NORMAL", "CANCELLED"}
      /\ kind.type = "iso" => priv.action \in {"NORMAL", "SUBMIT_FAILED", "CANCELLED"}
      /\ priv.status = "STALL" => "stall" \in past
      /\ priv.status = "ERROR" => past \cap {"error", "refused"} # {}
      /\ priv.status \in {"COMPLETED", "STALL", "ERROR", "NO_DEVICE"}
      /\ kind.type \notin {"bulk", "interrupt"} => priv.status = "COMPLETED"
  BY <1>2 DEF ActionInv, BulkLike
<1>5. priv \in Priv /\ work \in Work
  BY DEF Inv, TypeInv
<1>6. kind.type = "control" => N <= 1
  BY DEF Inv, CauseInv
<1>7. CASE RefusedAsEarly
  <2>1. /\ work.who = "submit" /\ refuses /\ phase' = phase /\ past' = past
        /\ priv' = [priv EXCEPT !.action = "COMPLETED_EARLY", !.retired = @ + Unsubmitted(work.at)]
        /\ work' = [work EXCEPT !.at = N + 1]
    BY <1>7 DEF RefusedAsEarly
  <2>2. priv'.action = "COMPLETED_EARLY" /\ priv'.status = priv.status
    BY <1>5, <2>1 DEF Priv
  <2>3. work'.who = "submit" /\ work'.at = N + 1
    BY <1>5, <2>1 DEF Work
  <2>4. EarlyInv'
    BY <1>1, <1>3, <2>1, <2>2, <2>3 DEF EarlyInv, Continues
  <2>5. kind.type \in {"bulk", "interrupt"}
    BY <1>3, <2>1 DEF Continues
  <2>6. ActionInv'
    BY <1>1, <1>3, <1>4, <2>1, <2>2, <2>5 DEF ActionInv, BulkLike
  <2>7. ~Fresh'
    BY <2>2 DEF Fresh
  <2> QED
    BY <1>1, <2>1, <2>3, <2>4, <2>6, <2>7, TurnKeeps
<1>8. CASE LaterRefused
  <2>1. /\ work.who = "submit" /\ work.at \in 2 .. N /\ phase' = phase /\ past' = past \cup {"refused"}
        /\ priv' = [priv EXCEPT !.action = "SUBMIT_FAILED", !.retired = @ + Unsubmitted(work.at)]
        /\ work'.who = "withdraw"
    BY <1>8 DEF LaterRefused
  <2>2. priv'.action = "SUBMIT_FAILED" /\ priv'.status = priv.status
    BY <1>5, <2>1 DEF Priv
  <2>3. EarlyInv'
    BY <1>1, <1>3, <2>1 DEF EarlyInv, Continues
  <2>4. kind.type # "control"
    <3>1. N \in Nat
      BY QueuedFacts DEF Inv
    <3> QED
      BY <1>6, <2>1, <3>1
  <2>5. ActionInv'
    BY <1>1, <1>4, <2>1, <2>2, <2>4 DEF ActionInv, BulkLike
  <2>6. ~Fresh'
    BY <2>2 DEF Fresh
  <2> QED
    BY <1>1, <2>1, <2>3, <2>5, <2>6, TurnKeeps
<1>9. CASE Cancel
  <2>1. /\ ~Locked /\ past' = past \cup {"asked"}
        /\ priv' = [priv EXCEPT !.action = Cancelled(priv.action)]
        /\ work'.who # "submit"
    BY <1>9 DEF Cancel, NoWork, None
  <2>2. priv'.action = Cancelled(priv.action) /\ priv'.status = priv.status
    BY <1>5, <2>1 DEF Priv
  <2>3. EarlyInv'
    BY <1>1, <1>3, <2>1 DEF EarlyInv, Continues
  <2>4. priv'.action = "CANCELLED" \/ (priv'.action = "ERROR" /\ priv.action = "ERROR" /\ kind.type = "bulk")
    BY <2>2 DEF Cancelled
  <2>5. ActionInv'
    BY <1>1, <1>4, <2>1, <2>2, <2>4 DEF ActionInv, BulkLike
  <2>6. ~Fresh'
    BY <2>4 DEF Fresh
  <2> QED
    BY <1>1, <2>1, <2>3, <2>5, <2>6, TurnKeeps
<1> QED
  BY <1>7, <1>8, <1>9

\* The lock is released.
LEMMA ReleaseKeep ==
  ASSUME Inv, Flying, TransferInv, (Submitted \/ Unlock), Flying'
  PROVE  TransferInv'
<1>1. /\ urbs' = urbs /\ done' = done /\ kind' = kind /\ sent' = sent /\ buffer' = buffer /\ transferred' = transferred
      /\ handler' = handler /\ refuses' = refuses /\ past' = past /\ plugged' = plugged
  BY DEF Submitted, Unlock, kernel, data
<1>2. priv' = priv
  BY DEF Submitted, Unlock, Flying
<1>3. work'.who = None
  BY DEF Submitted, Unlock, NoWork
<1>4. Given' = Given
  <2>1. Given' = N
    BY <1>1, <1>3 DEF Given, N, None
  <2>2. N \in Nat
    BY QueuedFacts DEF Inv
  <2>3. Given = N
    BY <2>2 DEF Submitted, Unlock, Given
  <2> QED
    BY <2>1, <2>3
<1> QED
  BY <1>1, <1>2, <1>3, <1>4, SameKeep DEF None

\* What the device and the kernel do.
LEMMA DeviceKeep ==
  ASSUME UsbUrbsAssumption, IsoSplits, ~FaultsEarly, Inv, Flying, TransferInv,
         Serve \/ Fail \/ Unplug \/ DiscardNext
  PROVE  TransferInv'
<1>1. (\E i, status, n : Ends(i, status, n)) \/ AllEnd \/ NoneEnds
  BY DeviceFacts DEF Inv
<1>2. CASE \E i, status, n : Ends(i, status, n)
  <2>1. PICK i, status, n : Ends(i, status, n)
    BY <1>2
  <2> QED
    BY <2>1, EndsKeep
<1>3. CASE AllEnd
  BY <1>3, AllKeeps
<1>4. CASE NoneEnds
  <2>1. /\ urbs' = urbs /\ done' = done /\ kind' = kind /\ sent' = sent /\ buffer' = buffer /\ transferred' = transferred
        /\ handler' = handler /\ refuses' = refuses /\ past' = past /\ plugged' = plugged /\ priv' = priv /\ phase' = phase
        /\ work'.who = work.who /\ (work.who = "submit" => work' = work)
    BY <1>4 DEF NoneEnds, Calm, kernel
  <2>2. Given' = Given
    BY <2>1 DEF Given, N
  <2> QED
    BY <2>1, <2>2, SameKeep
<1> QED
  BY <1>1, <1>2, <1>3, <1>4

-----------------------------------------------------------------------------
(* URBs are reaped. *)

\* As long as all is well, the first that has come back is the next to be retired.
LEMMA NextFacts ==
  ASSUME Inv, Fresh, PlaceInv, NEW i \in Back, Below({i}, (Back \cup Queued) \ {i})
  PROVE  i = priv.retired + 1 /\ \A j \in Back : i <= j
<1>1. N \in Nat /\ Back \subseteq 1 .. N /\ priv.retired \in Nat
  BY BackInRange, QueuedFacts DEF Inv, TypeInv, Priv
<1>2. Queued \cup Back = priv.retired + 1 .. Given /\ Given \in Int
  BY <1>1 DEF PlaceInv, Given, Inv, TypeInv, Work
<1>3. i \in priv.retired + 1 .. Given
  BY <1>2
<1>4. priv.retired + 1 \in Queued \cup Back
  BY <1>1, <1>2, <1>3
<1>5. priv.retired + 1 = i
  <2>1. SUFFICES ASSUME priv.retired + 1 # i PROVE FALSE
    OBVIOUS
  <2>2. i < priv.retired + 1
    BY <1>4, <2>1 DEF Below
  <2> QED
    BY <1>1, <1>2, <1>3, <2>2
<1>6. \A j \in Back : i <= j
  BY <1>1, <1>2, <1>5
<1> QED
  BY <1>5, <1>6

\* A URB is reaped: its data is at its place.
LEMMA ReapKeep ==
  ASSUME UsbUrbsAssumption, IsoSplits, Inv, Flying, TransferInv, Reap
  PROVE  TransferInv'
<1>1. /\ StatusInv /\ BadInv /\ CutInv /\ GoneInv /\ EarlyInv /\ ActionInv
      /\ SplitInv /\ PlaceInv /\ LineInv /\ FrontInv /\ WholeInv /\ PrefixInv /\ AfterInv /\ ContInv /\ ShutInv /\ IsoInv
  BY DEF TransferInv
<1>2. PICK i : i = Head(done)
  OBVIOUS
<1>3. /\ kind' = kind /\ plugged' = plugged /\ refuses' = refuses /\ sent' = sent /\ priv' = priv
      /\ transferred' = transferred /\ phase' = phase /\ work' = work /\ past' = past
      /\ handler.at = "poll" /\ done # << >> /\ done' = Tail(done)
      /\ urbs' = [urbs EXCEPT ![i].at = None]
      /\ handler' = [Idle EXCEPT !.at = "handle", !.urb = i]
      /\ buffer' = IF BulkLike
                   THEN [p \in DOMAIN buffer |->
                           IF p - Offset(i) \in 1 .. urbs[i].actual THEN urbs[i].from + p - Offset(i) ELSE buffer[p]]
                   ELSE buffer
  BY <1>2 DEF Reap, BulkLike
<1>4. /\ N \in Nat /\ done \in Seq(1 .. N) /\ i \in 1 .. N /\ i \in ToSet(done) /\ ToSet(done) = ToSet(done') \cup {i}
      /\ (Asc(done) => Below({i}, ToSet(done')))
  <2>1. N \in Nat /\ done \in Seq(1 .. N)
    BY QueuedFacts DEF Inv, TypeInv
  <2>2. PICK S : S = 1 .. N
    OBVIOUS
  <2>3. S \in SUBSET Nat /\ done \in Seq(S)
    BY <2>1, <2>2
  <2>4. Head(done) \in S /\ ToSet(done) = ToSet(done') \cup {Head(done)} /\ (Asc(done) => Below({Head(done)}, ToSet(done')))
    BY <1>3, <2>3, TailFacts
  <2> QED
    BY <1>2, <2>1, <2>2, <2>4
<1>5. handler'.at = "handle" /\ handler'.urb = i
  BY <1>3 DEF Idle
<1>6. N' = N /\ \A j \in 1 .. N :
        /\ urbs'[j].at = IF j = i THEN None ELSE urbs[j].at
        /\ urbs'[j].status = urbs[j].status /\ urbs'[j].room = urbs[j].room
        /\ urbs'[j].from = urbs[j].from /\ urbs'[j].actual = urbs[j].actual
  <2>1. urbs \in Seq(Urb) /\ DOMAIN urbs = 1 .. N /\ \A j \in 1 .. N : urbs[j] \in Urb
    BY QueuedFacts DEF Inv, TypeInv
  <2>2. N' = N
    BY <1>3, <2>1 DEF N
  <2>3. ASSUME NEW u \in Urb, NEW v, v = [u EXCEPT !.at = None]
        PROVE  v.at = None /\ v.status = u.status /\ v.room = u.room /\ v.from = u.from /\ v.actual = u.actual
    BY <2>3 DEF Urb
  <2>4. ASSUME NEW j \in 1 .. N
        PROVE  /\ urbs'[j].at = IF j = i THEN None ELSE urbs[j].at
               /\ urbs'[j].status = urbs[j].status /\ urbs'[j].room = urbs[j].room
               /\ urbs'[j].from = urbs[j].from /\ urbs'[j].actual = urbs[j].actual
    <3>1. CASE j = i
      <4>1. urbs'[j] = [urbs[j] EXCEPT !.at = None] /\ urbs[j] \in Urb
        BY <1>3, <2>1, <3>1
      <4> QED
        BY <2>3, <3>1, <4>1
    <3>2. CASE j # i
      <4>1. urbs'[j] = urbs[j]
        BY <1>3, <2>1, <3>2
      <4> QED
        BY <3>2, <4>1
    <3> QED
      BY <3>1, <3>2
  <2> QED
    BY <2>2, <2>4
<1>7. Queued' = Queued
  <2>1. i \notin Queued
    BY <1>4 DEF Inv, CountInv
  <2> QED
    BY <1>6, <2>1 DEF Queued, None
<1>8. Back' = Back /\ i \in Back /\ Back \subseteq 1 .. N
  <2>1. Handled = {} /\ Handled' = {i}
    BY <1>3, <1>5 DEF Handled
  <2> QED
    BY <1>4, <2>1, BackInRange DEF Back
<1>9. Line' = Line /\ Line = done
  <2>1. done = <<i>> \o done'
    <3>1. PICK S : S = 1 .. N
      OBVIOUS
    <3>2. done \in Seq(S) /\ done # << >>
      BY <1>3, <1>4, <3>1
    <3>3. done = <<Head(done)>> \o Tail(done)
      BY <3>2
    <3> QED
      BY <1>2, <1>3, <3>3
  <2> QED
    BY <1>3, <1>5, <2>1 DEF Line
<1>10. BulkLike' = BulkLike /\ Fresh' = Fresh /\ Clean' = Clean
  BY <1>3 DEF BulkLike, Fresh, Clean
<1>11. \A j \in 1 .. N : (Bad(j)' <=> Bad(j)) /\ Stops(j)' = Stops(j) /\ (IsFirst(j)' <=> IsFirst(j))
  BY <1>6 DEF Bad, Stops, IsFirst
<1>12. StatusInv'
  <2>1. Queued \subseteq 1 .. N
    BY DEF Queued
  <2>2. work.who = "submit" => \A j \in work.at .. N : j \in 1 .. N
    <3>1. work.who = "submit" => work.at \in 1 .. N + 1
      BY DEF Inv, SubmitInv
    <3> QED
      BY <1>4, <3>1
  <2> QED
    BY <1>1, <1>3, <1>6, <1>7, <1>8, <1>10, <2>1, <2>2 DEF StatusInv
<1>13. BadInv' /\ CutInv' /\ GoneInv'
  <2>1. BadInv'
    BY <1>1, <1>6, <1>7, <1>11 DEF BadInv
  <2>2. CutInv'
    BY <1>1, <1>3, <1>6, <1>11 DEF CutInv
  <2>3. GoneInv'
    BY <1>1, <1>6, <1>8, <1>10, <1>11 DEF GoneInv
  <2> QED
    BY <2>1, <2>2, <2>3
<1>14. EarlyInv' /\ ActionInv'
  <2>1. EarlyInv'
    BY <1>1, <1>3 DEF EarlyInv, Continues
  <2>2. ActionInv'
    BY <1>1, <1>3, <1>10 DEF ActionInv
  <2> QED
    BY <2>1, <2>2
<1>15. SplitInv'
  BY <1>1, <1>3, <1>6 DEF SplitInv
<1>16. Given' = Given
  BY <1>3, <1>6 DEF Given
<1>17. PlaceInv' /\ WholeInv'
  BY <1>1, <1>3, <1>7, <1>8, <1>10, <1>16 DEF PlaceInv, WholeInv
<1>18. LineInv'
  BY <1>1, <1>3, <1>6, <1>9, <1>11, LineStays
<1>19. FrontInv'
  <2>1. Queued \subseteq 1 .. N
    BY DEF Queued
  <2> QED
    BY <1>1, <1>3, <1>6, <1>7, <1>11, <2>1 DEF FrontInv
<1>20. AfterInv' /\ ShutInv' /\ ContInv'
  <2>1. AfterInv'
    BY <1>1, <1>6, <1>7, <1>8, <1>10 DEF AfterInv
  <2>2. ShutInv'
    BY <1>1, <1>6, <1>10 DEF ShutInv
  <2>3. ContInv'
    BY <1>1, <1>3, <1>6, <1>11 DEF ContInv, Continues
  <2> QED
    BY <2>1, <2>2, <2>3
<1>21. IsoInv'
  <2> SUFFICES ASSUME kind.type = "iso" PROVE IsoInv'
    BY <1>3 DEF IsoInv
  <2>1. /\ \A j \in 1 .. N : urbs'[j].status \in {None, "ok", "killed", "shutdown"}
        /\ Fresh => \A j \in 1 .. N : urbs'[j].status = "ok" => urbs'[j].from = Start(kind)[j] /\ urbs'[j].actual = urbs'[j].room
    BY <1>1, <1>6 DEF IsoInv
  <2>2. Fresh => (~plugged /\ \A j \in Back : urbs'[j].status = "shutdown") \/ priv.packets = Told(Start(kind)[priv.retired + 1])
    BY <1>1, <1>6, <1>8 DEF IsoInv
  <2>3. Fresh /\ plugged => /\ Queued = {} => sent = Start(kind)[Given + 1]
                            /\ \A q \in Queued : q - 1 \in Queued \/ sent = Start(kind)[q]
    BY <1>1 DEF IsoInv
  <2> QED
    BY <1>3, <1>6, <1>7, <1>8, <1>10, <1>16, <2>1, <2>2, <2>3 DEF IsoInv
<1>22. PrefixInv'
  <2> SUFFICES ASSUME BulkLike, NEW p \in 1 .. transferred + Copied' PROVE buffer'[p] = p
    BY <1>3, <1>10 DEF PrefixInv
  <2>1. kind.type # "iso"
    BY DEF BulkLike
  <2>2. PICK t \in Nat, a \in Nat, f \in Nat : t = transferred /\ a = urbs[i].actual /\ f = urbs[i].from
    <3>1. transferred \in Nat
      BY <1>1, <2>1, DataFacts
    <3> QED
      BY <1>4, <3>1, QueuedFacts DEF Inv, Urb
  <2>3. urbs[i].from = transferred /\ Stops(i) <= sent
    <3>1. Line # << >> /\ Line[1] = i
      BY <1>2, <1>3, <1>4, <1>9
    <3> QED
      BY <1>1, <1>4, <2>1, <3>1 DEF LineInv, FrontInv
  <2>4. f = t /\ t + a <= sent /\ sent \in Nat /\ sent <= LengthOf(kind)
    BY <1>1, <2>2, <2>3 DEF Stops, FrontInv, Inv, TypeInv
  <2>5. Copied = 0
    BY <1>3 DEF Copied
  <2>6. \A q \in 1 .. t : buffer[q] = q
    BY <1>1, <2>2, <2>5 DEF PrefixInv
  <2>7. Copied' = IF Fresh THEN a ELSE 0
    BY <1>4, <1>5, <1>6, <1>10, <2>2 DEF Copied
  <2>8. PICK o \in Nat : o = Offset(i) /\ o = Start(kind)[i]
    <3>1. Start(kind)[i] = Offset(i) /\ Start(kind)[i] \in Nat
      <4>1. i \in 1 .. N + 1
        BY <1>4
      <4> QED
        BY <1>1, <1>4, <4>1, StartFacts DEF Inv
    <3> QED
      BY <3>1
  <2>9. a > 0 => f <= o
    BY <1>1, <1>4, <2>2, <2>8 DEF FrontInv
  <2>10. ASSUME Fresh PROVE o = t \/ a = 0
    <3>1. Below({i}, (Back \cup Queued) \ {i})
      <4>1. Asc(done) /\ Below(ToSet(done), Queued)
        BY <2>10 DEF Inv, OrderInv, Fresh
      <4>2. Back \subseteq {i} \cup ToSet(done')
        BY <1>3, <1>4 DEF Back, Handled
      <4> QED
        BY <1>4, <4>1, <4>2 DEF Below
    <3>2. i = priv.retired + 1
      BY <1>1, <1>8, <2>10, <3>1, NextFacts
    <3>3. CASE Clean
      BY <1>1, <2>2, <2>8, <3>2, <3>3 DEF WholeInv
    <3>4. CASE ~Clean
      BY <1>1, <1>8, <2>2, <2>10, <3>4 DEF AfterInv
    <3> QED
      BY <3>3, <3>4
  <2>11. p \in DOMAIN buffer /\ p \in Nat /\ 1 <= p
    <3>1. p \in 1 .. t + a
      BY <2>2, <2>7
    <3> QED
      BY <1>1, <2>4, <3>1, SplitFacts DEF SplitInv, Inv, TypeInv
  <2>12. buffer'[p] = IF p - o \in 1 .. a THEN f + p - o ELSE buffer[p]
    BY <1>3, <2>2, <2>8, <2>11
  <2>13. CASE p - o \in 1 .. a
    <3>1. a > 0 /\ o < p
      BY <2>11, <2>13
    <3>2. o = t
      <4>1. CASE Fresh
        BY <2>10, <3>1, <4>1
      <4>2. CASE ~Fresh
        <5>1. p <= t
          BY <2>2, <2>7, <4>2
        <5>2. t <= o
          BY <2>4, <2>9, <3>1
        <5> QED
          BY <2>11, <3>1, <5>1, <5>2
      <4> QED
        BY <4>1, <4>2
    <3> QED
      BY <2>4, <2>11, <2>12, <2>13, <3>2
  <2>14. CASE ~(p - o \in 1 .. a)
    <3>1. p <= t
      <4>1. CASE Fresh
        BY <2>2, <2>7, <2>10, <2>11, <2>14, <4>1
      <4>2. CASE ~Fresh
        BY <2>2, <2>7, <4>2
      <4> QED
        BY <4>1, <4>2
    <3> QED
      BY <2>6, <2>11, <2>12, <2>14, <3>1
  <2> QED
    BY <2>13, <2>14
<1> QED
  BY <1>12, <1>13, <1>14, <1>15, <1>17, <1>18, <1>19, <1>20, <1>21, <1>22 DEF TransferInv

-----------------------------------------------------------------------------
(* URBs are handled. *)

\* What is known of the URB that is handled.
LEMMA HandledIs ==
  ASSUME Inv, Flying, TransferInv, handler.at = "handle", ~Locked
  PROVE  /\ handler.urb \in 1 .. N /\ handler.urb \in Back /\ Back = ToSet(done) \cup {handler.urb} /\ Given = N
         /\ urbs[handler.urb].status # None
         /\ Fresh => /\ handler.urb = priv.retired + 1 /\ urbs[handler.urb].status # "killed"
                     /\ Queued \cup ToSet(done) = priv.retired + 2 .. N
                     /\ \A j \in Back : handler.urb <= j
                     /\ \A j \in ToSet(done) : handler.urb < j
         /\ Clean /\ BulkLike => IsFirst(handler.urb) /\ urbs[handler.urb].status # "unlinked"
<1>1. N \in Nat /\ handler.urb \in 1 .. N /\ Given = N
  BY HandledFacts
<1>2. Back = ToSet(done) \cup {handler.urb} /\ Back \subseteq 1 .. N
  BY BackInRange DEF Back, Handled
<1>3. StatusInv /\ BadInv /\ PlaceInv /\ GoneInv
  BY DEF TransferInv
<1>4. urbs[handler.urb].status # None
  BY <1>2, <1>3 DEF StatusInv
<1>5. ASSUME Fresh
      PROVE  /\ handler.urb = priv.retired + 1 /\ urbs[handler.urb].status # "killed"
             /\ Queued \cup ToSet(done) = priv.retired + 2 .. N
             /\ \A j \in Back : handler.urb <= j
             /\ \A j \in ToSet(done) : handler.urb < j
  <2>1. Below({handler.urb}, ToSet(done) \cup Queued)
    BY <1>5 DEF Inv, OrderInv, Fresh, Handled
  <2>2. Below({handler.urb}, (Back \cup Queued) \ {handler.urb})
    BY <1>2, <2>1 DEF Below
  <2>3. handler.urb = priv.retired + 1 /\ \A j \in Back : handler.urb <= j
    BY <1>2, <1>3, <1>5, <2>2, NextFacts
  <2>4. urbs[handler.urb].status # "killed"
    BY <1>1, <1>3, <1>5 DEF StatusInv
  <2>5. Queued \cup Back = priv.retired + 1 .. N /\ priv.retired \in Nat
    BY <1>1, <1>3, <1>5 DEF PlaceInv, Inv, TypeInv, Priv
  <2>6. handler.urb \notin Queued \cup ToSet(done)
    <3>1. ~(handler.urb < handler.urb)
      BY <1>1
    <3> QED
      BY <2>1, <3>1 DEF Below
  <2>7. Queued \cup ToSet(done) = (priv.retired + 1 .. N) \ {priv.retired + 1}
    BY <1>2, <2>3, <2>5, <2>6
  <2>8. (priv.retired + 1 .. N) \ {priv.retired + 1} = priv.retired + 2 .. N
    BY <1>1, <2>5
  <2> QED
    BY <2>1, <2>3, <2>4, <2>7, <2>8 DEF Below
<1>6. ASSUME Clean, BulkLike PROVE IsFirst(handler.urb) /\ urbs[handler.urb].status # "unlinked"
  <2>1. ASSUME NEW k \in 1 .. N, k < handler.urb PROVE ~Bad(k)
    <3>1. k \notin Back
      <4>1. ~(handler.urb <= k)
        BY <1>1, <2>1
      <4> QED
        BY <1>5, <1>6, <4>1 DEF Clean
    <3> QED
      BY <1>3, <1>6, <3>1 DEF GoneInv
  <2>2. urbs[handler.urb].status # "unlinked"
    BY <1>1, <1>3, <2>1 DEF BadInv
  <2> QED
    BY <2>1, <2>2 DEF IsFirst
<1> QED
  BY <1>1, <1>2, <1>4, <1>5, <1>6

\* The units of the URB that is handled are counted.
LEMMA LineHandled ==
  ASSUME Inv, LineInv, handler.at = "handle", kind.type # "iso",
         urbs' = urbs, done' = done, sent' = sent, kind' = kind,
         transferred' = transferred + urbs[handler.urb].actual, handler'.at # "handle"
  PROVE  LineInv' /\ (done = << >> => transferred' = sent)
<1>1. PICK L \in Seq(1 .. N) :
        /\ L = Line /\ Len(L) = Len(done) + 1 /\ L[1] = handler.urb
        /\ \A m \in 1 .. Len(done) : L[m + 1] = done[m]
  BY LineFacts
<1>2. PICK c \in Nat : c = Len(done) /\ (done = << >> <=> c = 0)
  BY DEF Inv, TypeInv
<1>3. /\ L # << >> /\ urbs[L[1]].from = transferred /\ Stops(L[c + 1]) = sent
      /\ \A m \in 1 .. c : urbs[L[m + 1]].from = Stops(L[m])
  <2>1. L # << >> /\ Len(L) = c + 1 /\ Len(L) - 1 = c
    BY <1>1, <1>2
  <2> QED
    BY <1>1, <2>1 DEF LineInv
<1>4. transferred' = Stops(L[1])
  BY <1>1, <1>3 DEF Stops
<1>5. c = 0 => transferred' = sent
  BY <1>3, <1>4
<1>6. ASSUME c # 0 PROVE urbs[done[1]].from = transferred' /\ Stops(done[c]) = sent
  <2>1. 1 \in 1 .. c /\ c \in 1 .. c
    BY <1>6
  <2>2. done[1] = L[1 + 1] /\ done[c] = L[c + 1]
    BY <1>1, <1>2, <2>1
  <2> QED
    BY <1>3, <1>4, <2>1, <2>2
<1>7. ASSUME NEW m \in 1 .. c - 1 PROVE urbs[done[m + 1]].from = Stops(done[m])
  <2>1. m \in 1 .. c /\ m + 1 \in 1 .. c
    BY <1>2
  <2>2. done[m] = L[m + 1] /\ done[m + 1] = L[(m + 1) + 1]
    BY <1>1, <1>2, <2>1
  <2> QED
    BY <1>3, <2>1, <2>2
<1>8. Line' = done /\ \A j : Stops(j)' = Stops(j)
  BY DEF Line, Stops
<1> QED
  BY <1>2, <1>5, <1>6, <1>7, <1>8 DEF LineInv

\* What has been counted is there.
LEMMA PrefixHandled ==
  ASSUME UsbUrbsAssumption, IsoSplits, Inv, LineInv, SplitInv, PrefixInv, FrontInv, handler.at = "handle", BulkLike,
         transferred' = transferred + urbs[handler.urb].actual,
         (~Fresh /\ buffer' = Moved(handler.urb)) \/ (Fresh /\ buffer' = buffer)
  PROVE  DOMAIN buffer' = DOMAIN buffer /\ transferred' \in Nat /\ \A p \in 1 .. transferred' : buffer'[p] = p
<1>1. PICK i \in 1 .. N : i = handler.urb
  BY DEF Inv, CountInv
<1>2. PICK t \in Nat, a \in Nat, f \in Nat : t = transferred /\ a = urbs[i].actual /\ f = urbs[i].from
  <2>1. transferred \in Nat
    BY DataFacts DEF BulkLike
  <2> QED
    BY <2>1, QueuedFacts DEF Inv, Urb
<1>3. f = t /\ Stops(i) <= sent
  <2>1. PICK L \in Seq(1 .. N) : L = Line /\ Len(L) = Len(done) + 1 /\ L[1] = i
    BY <1>1, LineFacts
  <2>2. Len(done) \in Nat
    BY DEF Inv, TypeInv
  <2>3. L # << >>
    BY <2>1, <2>2
  <2> QED
    BY <1>2, <2>1, <2>3 DEF LineInv, FrontInv, BulkLike
<1>4. t + a <= LengthOf(kind) /\ DOMAIN buffer = 1 .. LengthOf(kind) /\ LengthOf(kind) \in Nat
  <2>1. LengthOf(kind) \in Nat
    BY SplitFacts DEF Inv, TypeInv
  <2>2. sent \in Nat /\ sent <= LengthOf(kind) /\ t + a <= sent
    BY <1>2, <1>3 DEF Stops, FrontInv, Inv, TypeInv
  <2> QED
    BY <2>1, <2>2 DEF SplitInv
<1>5. transferred' = t + a
  BY <1>1, <1>2
<1>6. CASE Fresh /\ buffer' = buffer
  <2>1. Copied = a
    BY <1>1, <1>2, <1>6 DEF Copied
  <2> QED
    BY <1>2, <1>5, <1>6, <2>1 DEF PrefixInv
<1>7. CASE ~Fresh /\ buffer' = Moved(handler.urb)
  <2>1. buffer' = [p \in DOMAIN buffer |-> IF p - t \in 1 .. a THEN f + p - t ELSE buffer[p]]
    BY <1>1, <1>2, <1>7 DEF Moved
  <2>2. Copied = 0
    BY <1>7 DEF Copied
  <2>3. \A p \in 1 .. t : buffer[p] = p
    BY <1>2, <2>2 DEF PrefixInv
  <2>4. ASSUME NEW p \in 1 .. t + a PROVE buffer'[p] = p
    <3>1. p \in DOMAIN buffer /\ p \in Nat
      BY <1>4
    <3>2. buffer'[p] = IF p - t \in 1 .. a THEN f + p - t ELSE buffer[p]
      BY <2>1, <3>1
    <3>3. CASE p - t \in 1 .. a
      BY <1>3, <3>1, <3>2, <3>3
    <3>4. CASE ~(p - t \in 1 .. a)
      <4>1. p \in 1 .. t
        BY <3>4
      <4> QED
        BY <2>3, <3>2, <3>4, <4>1
    <3> QED
      BY <3>3, <3>4
  <2> QED
    BY <1>5, <2>1, <2>4
<1> QED
  BY <1>6, <1>7

\* What is known of the transfer stays true when the URB that is handled is retired.
LEMMA RetiredKeep ==
  ASSUME Inv, Flying, TransferInv, handler.at = "handle", ~Locked, handler' = Idle,
         urbs' = urbs, done' = done, refuses' = refuses, sent' = sent, kind' = kind, plugged' = plugged, past' = past,
         DOMAIN buffer' = DOMAIN buffer, priv'.retired = priv.retired + 1, Fresh' => Fresh,
         work'.who # "submit",
         LineInv', PrefixInv', GoneInv', ActionInv', WholeInv', AfterInv', IsoInv'
  PROVE  TransferInv'
<1>1. /\ StatusInv /\ BadInv /\ CutInv /\ EarlyInv /\ SplitInv /\ PlaceInv /\ FrontInv /\ ContInv /\ ShutInv
  BY DEF TransferInv
<1>2. /\ N' = N /\ Queued' = Queued
      /\ \A i : (Bad(i)' <=> Bad(i)) /\ (IsFirst(i)' <=> IsFirst(i)) /\ Stops(i)' = Stops(i)
  BY SameUrbs
<1>3. Back' = ToSet(done) /\ Back' \subseteq Back
  BY DEF Back, Handled, Idle
<1>4. StatusInv'
  BY <1>1, <1>2, <1>3 DEF StatusInv
<1>5. BadInv' /\ CutInv' /\ SplitInv' /\ ContInv'
  <2>1. BadInv'
    BY <1>1, <1>2 DEF BadInv
  <2>2. CutInv'
    BY <1>1, <1>2 DEF CutInv
  <2>3. SplitInv'
    BY <1>1, <1>2 DEF SplitInv
  <2>4. ContInv'
    BY <1>1, <1>2 DEF ContInv, Continues
  <2> QED
    BY <2>1, <2>2, <2>3, <2>4
<1>6. EarlyInv'
  BY <1>1 DEF EarlyInv, Continues
<1>7. FrontInv'
  BY <1>1, <1>2 DEF FrontInv
<1>8. ShutInv'
  BY <1>1, <1>2 DEF ShutInv
<1>9. PlaceInv'
  <2> SUFFICES ASSUME Fresh PROVE Queued \cup ToSet(done) = (priv.retired + 1) + 1 .. N
    BY <1>2, <1>3 DEF PlaceInv, Given
  <2>1. Queued \cup ToSet(done) = priv.retired + 2 .. N
    BY HandledIs
  <2>2. priv.retired \in Nat
    BY DEF Inv, TypeInv, Priv
  <2>3. (priv.retired + 1) + 1 = priv.retired + 2
    BY <2>2
  <2> QED
    BY <2>1, <2>3
<1> QED
  BY <1>4, <1>5, <1>6, <1>7, <1>8, <1>9 DEF TransferInv

\* When a transfer has ended, what will be told is known.
LEMMA CompletedTold ==
  ASSUME Inv, Flying, ToldInv, NEW p \in Priv, Completed(p), past' = past, kind' = kind, sent' = sent, reported' = reported,
         BulkLike /\ p.action = "CANCELLED" => "asked" \in past,
         True(p.status) \/ (BulkLike /\ p.action = "CANCELLED"),
         kind.type # "iso" => transferred' = sent,
         BulkLike => \A q \in 1 .. transferred' : buffer'[q] = q,
         kind.type = "iso" /\ p.status = "COMPLETED"
           => p.packets = [q \in 1 .. Len(kind.packets) |-> q]
  PROVE  TransferInv' /\ ToldInv'
<1>1. /\ handler' = [at |-> "complete", urb |-> 0, status |-> p.status]
      /\ priv' = [p EXCEPT !.urbs = FALSE]
  BY DEF Completed
<1>2. PICK s : s = IF BulkLike /\ p.action = "CANCELLED" THEN "CANCELLED" ELSE p.status
  OBVIOUS
<1>3. handler'.at = "complete" /\ handler'.status = p.status /\ priv'.packets = p.packets /\ priv'.action = p.action
  BY <1>1 DEF Priv
<1>4. TransferInv'
  BY <1>3 DEF TransferInv, Flying
<1>5. reported' = None
  BY DEF ToldInv, Flying
<1>6. True(s)
  BY <1>2 DEF True
<1>7. True(s)'
  BY <1>6 DEF True
<1>8. Whole(s)' /\ Whole("CANCELLED")'
  BY <1>2, <1>3 DEF Whole, BulkLike
<1>9. Outcome' = s
  BY <1>2, <1>3 DEF Outcome, BulkLike
<1>10. True(Outcome)' /\ Whole(Outcome)'
  BY <1>7, <1>8, <1>9 DEF True, Whole
<1> QED
  BY <1>4, <1>5, <1>8, <1>10 DEF ToldInv

\* What is noted of a URB that has failed is true.
LEMMA NotedTells ==
  ASSUME Inv, Flying, TransferInv, handler.at = "handle", ~Locked, BulkLike, Fresh,
         NEW s \in {"stall", "error", "shutdown", "overflow"}, urbs[handler.urb].status = s
  PROVE  /\ True(Noted(Retired, s).status) /\ Noted(Retired, s).status \in {"STALL", "ERROR", "NO_DEVICE", "OVERFLOW"}
         /\ s # "overflow" => Noted(Retired, s).status # "OVERFLOW"
         /\ Noted(Retired, s).action = IF s = "error" THEN "ERROR" ELSE "NORMAL"
         /\ Noted(Retired, s).retired = priv.retired + 1 /\ Noted(Retired, s) \in Priv
<1>1. PICK r \in Priv : r = Retired /\ r.action = "NORMAL" /\ r.status = priv.status /\ r.retired = priv.retired + 1
  BY RetiredFacts DEF Inv, TypeInv, Fresh
<1>2. /\ Noted(r, s) \in Priv /\ Noted(r, s).retired = r.retired
      /\ Noted(r, s).action = IF s = "error" THEN "ERROR" ELSE r.action
  BY NotedFacts
<1>3. handler.urb \in 1 .. N /\ (Clean => IsFirst(handler.urb))
  BY HandledIs
<1>4. Clean /\ s # "shutdown" => s \in past
  <2>1. CutInv
    BY DEF TransferInv
  <2> QED
    BY <1>3, <2>1 DEF CutInv, Faults
<1>5. /\ priv.status = "STALL" => "stall" \in past
      /\ priv.status = "ERROR" => past \cap {"error", "refused"} # {}
      /\ priv.status \in {"COMPLETED", "STALL", "ERROR", "NO_DEVICE"}
  BY DEF TransferInv, ActionInv
<1>6. CASE s = "shutdown"
  <2>1. Noted(r, s) = [r EXCEPT !.status = "NO_DEVICE"]
    BY <1>6 DEF Noted
  <2>2. Noted(r, s).status = "NO_DEVICE"
    BY <2>1 DEF Priv
  <2> QED
    BY <1>1, <1>2, <2>2 DEF True
<1>7. CASE s # "shutdown"
  <2>1. PICK t \in {"STALL", "ERROR", "OVERFLOW"} :
          t = IF s = "stall" THEN "STALL" ELSE IF s = "error" THEN "ERROR" ELSE "OVERFLOW"
    OBVIOUS
  <2>2. PICK status : status = IF r.status = "COMPLETED" THEN t ELSE r.status
    OBVIOUS
  <2>3. Noted(r, s).status = status
    <3>1. CASE s = "error"
      <4>1. t = "ERROR"
        BY <2>1, <3>1
      <4>2. Noted(r, s) = [r EXCEPT !.action = "ERROR", !.status = status]
        BY <2>2, <3>1, <4>1 DEF Noted
      <4> QED
        BY <4>2 DEF Priv
    <3>2. CASE s = "stall"
      <4>1. t = "STALL"
        BY <2>1, <3>2
      <4>2. TransferStatus(s) = "STALL"
        BY <3>2 DEF TransferStatus
      <4>3. Noted(r, s) = [r EXCEPT !.status = status]
        BY <2>2, <3>2, <4>1, <4>2 DEF Noted
      <4> QED
        BY <4>3 DEF Priv
    <3>3. CASE s = "overflow"
      <4>1. t = "OVERFLOW"
        BY <2>1, <3>3
      <4>2. TransferStatus(s) = "OVERFLOW"
        BY <3>3 DEF TransferStatus
      <4>3. Noted(r, s) = [r EXCEPT !.status = status]
        BY <2>2, <3>3, <4>1, <4>2 DEF Noted
      <4> QED
        BY <4>3 DEF Priv
    <3> QED
      BY <1>7, <3>1, <3>2, <3>3
  <2>4. CASE r.status = "COMPLETED"
    <3>1. s \in past
      BY <1>1, <1>4, <1>7, <2>4 DEF Clean
    <3>2. status = t
      BY <2>2, <2>4
    <3>3. True(t)
      BY <1>7, <2>1, <3>1 DEF True
    <3>4. s # "overflow" => t # "OVERFLOW"
      BY <1>7, <2>1
    <3> QED
      BY <1>1, <1>2, <2>1, <2>3, <3>2, <3>3, <3>4
  <2>5. CASE r.status # "COMPLETED"
    <3>1. status = priv.status /\ status \in {"STALL", "ERROR", "NO_DEVICE"}
      BY <1>1, <1>5, <2>2, <2>5
    <3>2. True(status)
      BY <1>5, <3>1 DEF True
    <3> QED
      BY <1>1, <1>2, <2>3, <3>1, <3>2
  <2> QED
    BY <2>4, <2>5
<1> QED
  BY <1>6, <1>7

\* A transfer that ends early with a URB that is short has not failed.
LEMMA EarlyTells ==
  ASSUME Inv, Flying, TransferInv, handler.at = "handle", ~Locked, BulkLike, Clean,
         urbs[handler.urb].status \in {"ok", "short", "killed", "unlinked"},
         urbs[handler.urb].actual < urbs[handler.urb].room
  PROVE  "short" \in past /\ past \cap Faults = {}
<1>1. /\ handler.urb \in 1 .. N /\ N \in Nat /\ IsFirst(handler.urb)
      /\ urbs[handler.urb].status \in {"ok", "short"}
      /\ \A j \in Back : handler.urb <= j
  BY HandledIs, QueuedFacts DEF Clean, Inv
<1>2. CutInv /\ GoneInv
  BY DEF TransferInv
<1>3. Bad(handler.urb)
  BY <1>1 DEF Bad
<1>4. past \cap (Faults \cup {"short"}) # {}
  BY <1>1, <1>2, <1>3 DEF CutInv
<1>5. ASSUME NEW f \in past \cap Faults PROVE FALSE
  <2>1. PICK j \in 1 .. N : urbs[j].status = f /\ IsFirst(j)
    BY <1>2 DEF CutInv
  <2>2. j \in Back
    <3>1. Bad(j)
      BY <2>1 DEF Bad
    <3> QED
      BY <1>2, <3>1 DEF GoneInv
  <2>3. handler.urb <= j /\ j # handler.urb
    BY <1>1, <2>1, <2>2 DEF Faults
  <2>4. handler.urb < j
    BY <1>1, <2>3
  <2> QED
    BY <1>1, <1>3, <2>1, <2>4 DEF IsFirst
<1> QED
  BY <1>4, <1>5

\* Nor has one whose last URB is not bad.
LEMMA LastTells ==
  ASSUME Inv, Flying, TransferInv, handler.at = "handle", ~Locked, BulkLike, Clean, done = << >>,
         urbs[handler.urb].status \in {"ok", "short", "killed", "unlinked"}
  PROVE  past \cap Faults = {}
<1>1. Back = {handler.urb}
  <2>1. ToSet(done) = {}
    BY ShortFacts
  <2> QED
    BY <2>1, HandledIs
<1>2. CutInv /\ GoneInv
  BY DEF TransferInv
<1>3. ASSUME NEW f \in past \cap Faults PROVE FALSE
  <2>1. PICK j \in 1 .. N : urbs[j].status = f
    BY <1>2 DEF CutInv
  <2>2. j \in Back
    <3>1. Bad(j)
      BY <2>1 DEF Bad
    <3> QED
      BY <1>2, <3>1 DEF GoneInv
  <2> QED
    BY <1>1, <2>1, <2>2 DEF Faults
<1> QED
  BY <1>3

Placed(t, s, r) == (\A j \in 1 .. Len(s) : t[j] = s[j]) /\ (\A j \in 1 .. Len(r) : t[j + Len(s)] = r[j])

\* What a sequence that joins two others is at each place.
LEMMA JoinIs ==
  ASSUME NEW s \in Seq(Nat), NEW r \in Seq(Nat), NEW t, Joins(t, s, r)
  PROVE  Placed(t, s, r)
<1>1. \A j \in 1 .. Len(s) : t[j] = s[j]
  BY DEF Joins
<1>2. ASSUME NEW j \in 1 .. Len(r) PROVE t[j + Len(s)] = r[j]
  <2>1. PICK k : k = j + Len(s)
    OBVIOUS
  <2>2. k \in 1 .. Len(s) + Len(r) /\ k > Len(s) /\ k - Len(s) = j
    BY <2>1
  <2>3. t[k] = r[k - Len(s)]
    BY <2>2 DEF Joins
  <2> QED
    BY <2>1, <2>2, <2>3
<1> QED
  BY <1>1, <1>2 DEF Placed

\* The results of packets follow those before.
LEMMA ToldJoins ==
  ASSUME NEW a \in Nat, NEW b \in Nat, NEW r, r = [j \in 1 .. b |-> a + j]
  PROVE  Told(a) \o r = Told(a + b) /\ Told(a) \in Seq(Nat) /\ r \in Seq(Nat)
<1>1. PICK s : s = Told(a)
  OBVIOUS
<1>2. s \in Seq(Nat) /\ Len(s) = a /\ \A j \in 1 .. a : s[j] = j
  BY <1>1 DEF Told
<1>3. r \in Seq(Nat) /\ Len(r) = b /\ \A j \in 1 .. b : r[j] = a + j
  <2>1. \A j \in 1 .. b : a + j \in Nat
    OBVIOUS
  <2> QED
    BY <2>1
<1>4. PICK t : t = s \o r
  OBVIOUS
<1>5. t \in Seq(Nat) /\ Len(t) = a + b /\ (\A j \in 1 .. a : t[j] = s[j]) /\ (\A j \in 1 .. b : t[j + a] = r[j])
  <2>1. Joins(t, s, r)
    BY <1>4 DEF Joins
  <2>2. s \in Seq(Nat) /\ r \in Seq(Nat)
    BY <1>2, <1>3
  <2>3. t \in Seq(Nat) /\ Len(t) = Len(s) + Len(r)
    BY <2>1, <2>2 DEF Joins
  <2>4. Placed(t, s, r)
    BY <2>1, <2>2, JoinIs
  <2> QED
    BY <1>2, <1>3, <2>3, <2>4 DEF Placed
<1>6. ASSUME NEW j \in 1 .. a + b PROVE t[j] = j
  <2>1. CASE j \in 1 .. a
    BY <1>2, <1>5, <2>1
  <2>2. CASE j \notin 1 .. a
    <3>1. j - a \in 1 .. b /\ (j - a) + a = j /\ a + (j - a) = j
      BY <2>2
    <3> QED
      BY <1>3, <1>5, <3>1
  <2> QED
    BY <2>1, <2>2
<1>7. t = [j \in 1 .. a + b |-> j]
  <2>1. t = [j \in 1 .. a + b |-> t[j]]
    BY <1>5
  <2> QED
    BY <1>6, <2>1
<1> QED
  BY <1>1, <1>2, <1>3, <1>4, <1>7 DEF Told

\* handle_control_completion
LEMMA HandleControlKeep ==
  ASSUME Inv, Flying, TransferInv, ToldInv, HandleControl
  PROVE  TransferInv' /\ ToldInv'
<1>1. /\ handler.at = "handle" /\ ~Locked /\ kind.type = "control"
      /\ Completed([priv EXCEPT !.status =
                      IF priv.action = "CANCELLED" THEN "CANCELLED" ELSE TransferStatus(urbs[1].status)])
      /\ transferred' = transferred + urbs[1].actual
      /\ urbs' = urbs /\ done' = done /\ sent' = sent /\ kind' = kind /\ reported' = reported /\ past' = past
  BY DEF HandleControl, kernel
<1>2. N <= 1
  BY <1>1 DEF Inv, CauseInv
<1>3. done = << >>
  BY <1>1, <1>2, LastFacts
<1>4. handler.urb = 1 /\ 1 \in 1 .. N /\ N = 1
  <2>1. handler.urb \in 1 .. N /\ N \in Nat
    BY <1>1, HandledFacts
  <2> QED
    BY <1>2, <2>1
<1>5. PICK s \in Statuses : s = urbs[1].status
  BY <1>4, QueuedFacts DEF Inv, Urb
<1>6. PICK p : p = [priv EXCEPT !.status = IF priv.action = "CANCELLED" THEN "CANCELLED" ELSE TransferStatus(s)]
  OBVIOUS
<1>7. TransferStatus(s) \in Reports /\ "CANCELLED" \in Reports
  BY DEF TransferStatus, Reports
<1>8. p \in Priv /\ p.action = priv.action
      /\ p.status = IF priv.action = "CANCELLED" THEN "CANCELLED" ELSE TransferStatus(s)
  <2>1. priv \in Priv
    BY DEF Inv, TypeInv
  <2> QED
    BY <1>6, <1>7, <2>1 DEF Priv
<1>9. StatusInv /\ BadInv /\ CutInv /\ LineInv /\ ActionInv
  BY DEF TransferInv
<1>10. /\ priv.action = "CANCELLED" => "asked" \in past
       /\ priv.action \in {"NORMAL", "CANCELLED"}
  BY <1>1, <1>9 DEF ActionInv
<1>11. transferred' = sent
  <2>1. handler'.at # "handle"
    BY <1>1 DEF Completed
  <2> QED
    BY <1>1, <1>3, <1>4, <1>9, <2>1, LineHandled
<1>12. s # None /\ (priv.action # "CANCELLED" => s # "killed")
  BY <1>1, <1>4, <1>5, <1>10, HandledIs DEF Fresh
<1>13. \A j \in 1 .. N : j = 1
  BY <1>4
<1>14. s # "unlinked"
  <2>1. ASSUME NEW j \in 1 .. N, j < 1 PROVE FALSE
    BY <1>4, <2>1
  <2> QED
    BY <1>4, <1>5, <1>9, <2>1 DEF BadInv
<1>15. s \in Faults => s \in past
  <2>1. IsFirst(1)
    BY <1>4 DEF IsFirst
  <2> QED
    BY <1>4, <1>5, <1>9, <2>1 DEF CutInv
<1>16. s \notin Faults => past \cap Faults = {}
  BY <1>5, <1>9, <1>13 DEF CutInv
<1>17. ASSUME priv.action # "CANCELLED" PROVE True(TransferStatus(s))
  <2>1. CASE s \in {"ok", "short"}
    <3>1. TransferStatus(s) = "COMPLETED" /\ s \notin Faults
      BY <2>1 DEF TransferStatus, Faults
    <3> QED
      BY <1>16, <3>1 DEF True
  <2>2. CASE s = "stall"
    <3>1. TransferStatus(s) = "STALL" /\ s \in Faults
      BY <2>2 DEF TransferStatus, Faults
    <3> QED
      BY <1>15, <2>2, <3>1 DEF True
  <2>3. CASE s = "overflow"
    <3>1. TransferStatus(s) = "OVERFLOW" /\ s \in Faults
      BY <2>3 DEF TransferStatus, Faults
    <3> QED
      BY <1>15, <2>3, <3>1 DEF True
  <2>4. CASE s = "error"
    <3>1. TransferStatus(s) = "ERROR" /\ s \in Faults
      BY <2>4 DEF TransferStatus, Faults
    <3> QED
      BY <1>15, <2>4, <3>1 DEF True
  <2>5. CASE s = "shutdown"
    <3>1. TransferStatus(s) = "NO_DEVICE"
      BY <2>5 DEF TransferStatus
    <3> QED
      BY <3>1 DEF True
  <2> QED
    BY <1>5, <1>12, <1>14, <1>17, <2>1, <2>2, <2>3, <2>4, <2>5 DEF Statuses, Faults
<1>18. Completed(p)
  BY <1>1, <1>5, <1>6
<1>19. True(p.status)
  <2>1. CASE priv.action = "CANCELLED"
    BY <1>8, <1>10, <2>1 DEF True
  <2>2. CASE priv.action # "CANCELLED"
    BY <1>8, <1>17, <2>2
  <2> QED
    BY <2>1, <2>2
<1> QED
  BY <1>1, <1>8, <1>11, <1>18, <1>19, CompletedTold DEF BulkLike

\* handle_bulk_completion of a transfer that is torn down
LEMMA HandleSurplusKeep ==
  ASSUME UsbUrbsAssumption, IsoSplits, Inv, Flying, TransferInv, ToldInv, HandleSurplus
  PROVE  TransferInv' /\ (ToldInv' \/ handler' = Idle)
<1>1. /\ handler.at = "handle" /\ ~Locked /\ kind.type \in {"bulk", "interrupt"} /\ priv.action # "NORMAL"
      /\ buffer' = Moved(handler.urb) /\ transferred' = transferred + urbs[handler.urb].actual
      /\ IF Retired.retired = N THEN Completed(Settled(Retired)) ELSE Awaits(Retired)
      /\ urbs' = urbs /\ done' = done /\ refuses' = refuses /\ sent' = sent
      /\ kind' = kind /\ plugged' = plugged /\ phase' = phase /\ reported' = reported /\ past' = past
  BY DEF HandleSurplus, kernel
<1>2. PICK r \in Priv : /\ r = Retired /\ r.action = priv.action /\ r.status = priv.status
                        /\ r.retired = priv.retired + 1
  BY RetiredFacts DEF Inv, TypeInv
<1>3. LineInv /\ SplitInv /\ PrefixInv /\ FrontInv /\ ActionInv
  BY DEF TransferInv
<1>4. BulkLike /\ ~Fresh
  BY <1>1 DEF BulkLike, Fresh
<1>5. DOMAIN buffer' = DOMAIN buffer /\ transferred' \in Nat /\ \A q \in 1 .. transferred' : buffer'[q] = q
  BY <1>1, <1>3, <1>4, PrefixHandled
<1>6. LineInv' /\ (done = << >> => transferred' = sent)
  <2>1. handler'.at # "handle"
    BY <1>1 DEF Completed, Awaits, Idle
  <2> QED
    BY <1>1, <1>3, <2>1, LineHandled
<1>7. /\ priv.action = "SUBMIT_FAILED" => "refused" \in past
      /\ priv.action = "CANCELLED" => "asked" \in past
      /\ priv.action = "ERROR" => priv.status # "COMPLETED"
      /\ priv.action = "COMPLETED_EARLY" /\ priv.status = "COMPLETED" => past \cap Faults = {}
      /\ priv.status = "STALL" => "stall" \in past
      /\ priv.status = "ERROR" => past \cap {"error", "refused"} # {}
      /\ priv.status \in {"COMPLETED", "STALL", "ERROR", "NO_DEVICE"}
  BY <1>3 DEF ActionInv
<1>8. CASE r.retired = N
  <2>1. done = << >>
    BY <1>1, <1>2, <1>8, LastFacts
  <2>2. PICK p : p = Settled(r)
    OBVIOUS
  <2>3. /\ p \in Priv /\ p.action = r.action
        /\ p.status = IF r.action # "COMPLETED_EARLY" /\ r.status = "COMPLETED" THEN "ERROR" ELSE r.status
    BY <2>2 DEF Settled, Priv, Reports
  <2>4. Completed(p)
    BY <1>1, <1>2, <1>8, <2>2
  <2>5. ASSUME p.action # "CANCELLED" PROVE True(p.status)
    <3>1. CASE r.action # "COMPLETED_EARLY" /\ r.status = "COMPLETED"
      <4>1. p.status = "ERROR" /\ r.action = "SUBMIT_FAILED"
        BY <1>1, <1>2, <1>7, <2>3, <2>5, <3>1 DEF Priv
      <4> QED
        BY <1>2, <1>7, <4>1 DEF True
    <3>2. CASE ~(r.action # "COMPLETED_EARLY" /\ r.status = "COMPLETED")
      <4>1. p.status = priv.status /\ (priv.status = "COMPLETED" => priv.action = "COMPLETED_EARLY")
        BY <1>2, <2>3, <3>2
      <4> QED
        BY <1>7, <4>1 DEF True
    <3> QED
      BY <3>1, <3>2
  <2>6. p.action = "CANCELLED" => "asked" \in past
    BY <1>2, <1>7, <2>3
  <2>7. kind.type # "iso"
    BY <1>1
  <2>8. True(p.status) \/ (BulkLike /\ p.action = "CANCELLED")
    BY <1>4, <2>5
  <2>9. (kind.type # "iso" => transferred' = sent) /\ (BulkLike => \A q \in 1 .. transferred' : buffer'[q] = q)
    BY <1>5, <1>6, <2>1
  <2> QED
    BY <1>1, <2>3, <2>4, <2>6, <2>7, <2>8, <2>9, CompletedTold
<1>9. CASE r.retired # N
  <2>1. priv' = r /\ handler' = Idle /\ work' = work
    BY <1>1, <1>2, <1>9 DEF Awaits
  <2>2. ~Fresh' /\ ~Clean' /\ BulkLike' = BulkLike
    BY <1>1, <1>2, <2>1 DEF Fresh, Clean, BulkLike
  <2>3. PrefixInv'
    <3>1. Copied' = 0
      BY <2>2 DEF Copied
    <3>2. \A n \in Nat : n + 0 = n
      OBVIOUS
    <3>3. transferred' + Copied' = transferred'
      BY <1>5, <3>1, <3>2, Zenon
    <3> QED
      BY <1>5, <3>3 DEF PrefixInv
  <2>4. GoneInv' /\ WholeInv' /\ AfterInv'
    BY <2>2 DEF GoneInv, WholeInv, AfterInv
  <2>5. ActionInv'
    <3>1. ActionInv
      BY <1>3
    <3> QED
      BY <1>1, <1>2, <2>1, <2>2, <3>1 DEF ActionInv
  <2>6. IsoInv'
    BY <1>1 DEF IsoInv
  <2>7. work'.who # "submit"
    BY <1>1, <2>1 DEF Locked, None
  <2> QED
    BY <1>1, <1>2, <1>5, <1>6, <2>1, <2>2, <2>3, <2>4, <2>5, <2>6, <2>7, RetiredKeep
<1> QED
  BY <1>8, <1>9

\* What the URB of an isochronous transfer that is handled has brought.
LEMMA IsoHandled ==
  ASSUME UsbUrbsAssumption, IsoSplits, Inv, Flying, TransferInv, handler.at = "handle", ~Locked, kind.type = "iso", Fresh,
         NEW results,
         results = [j \in 1 .. urbs[handler.urb].room |->
                      IF j <= urbs[handler.urb].actual THEN urbs[handler.urb].from + j ELSE 0]
  PROVE  \/ /\ urbs[handler.urb].status = "ok"
            /\ priv.packets \o results = Told(Start(kind)[handler.urb + 1])
         \/ urbs[handler.urb].status = "shutdown" /\ ~plugged /\ \A j \in Back : urbs[j].status = "shutdown"
<1>1. PICK i \in 1 .. N : i = handler.urb /\ i = priv.retired + 1 /\ i \in Back
                          /\ urbs[i].status \notin {None, "killed"} /\ \A j \in Back : i <= j
  BY HandledIs
<1>2. StatusInv /\ SplitInv /\ ShutInv /\ IsoInv
  BY DEF TransferInv
<1>3. urbs[i].status \in {"ok", "shutdown"}
  BY <1>1, <1>2 DEF IsoInv
<1>4. CASE urbs[i].status = "shutdown"
  <2>1. ~plugged
    BY <1>1, <1>4 DEF Inv, CauseInv
  <2>2. ASSUME NEW j \in Back PROVE urbs[j].status = "shutdown"
    <3>1. j \in 1 .. N /\ urbs[j].status # None
      BY <1>2, BackInRange DEF StatusInv
    <3>2. j = i \/ i < j
      BY <1>1, <3>1
    <3> QED
      BY <1>1, <1>2, <1>4, <3>1, <3>2 DEF ShutInv
  <2> QED
    BY <1>1, <1>4, <2>1, <2>2
<1>5. CASE urbs[i].status = "ok"
  <2>1. priv.packets = Told(Start(kind)[i])
    <3>1. ~(\A j \in Back : urbs[j].status = "shutdown")
      BY <1>1, <1>5
    <3> QED
      BY <1>1, <1>2, <3>1 DEF IsoInv
  <2>2. PICK a \in Nat, b \in Nat :
          /\ a = Start(kind)[i] /\ b = urbs[i].room
          /\ urbs[i].from = a /\ urbs[i].actual = b /\ Start(kind)[i + 1] = a + b
    <3>1. urbs[i] \in Urb /\ TypeInv
      BY <1>1, QueuedFacts DEF Inv
    <3>2. i \in 1 .. N + 1
      BY <1>1, <3>1, QueuedFacts
    <3>3. Start(kind)[i] \in Nat /\ Start(kind)[i + 1] = Start(kind)[i] + urbs[i].room
      BY <1>1, <1>2, <3>1, <3>2, StartFacts
    <3>4. urbs[i].from = Start(kind)[i] /\ urbs[i].actual = urbs[i].room
      BY <1>1, <1>2, <1>5 DEF IsoInv
    <3> QED
      BY <3>1, <3>3, <3>4 DEF Urb
  <2>3. results = [j \in 1 .. b |-> a + j]
    BY <1>1, <2>2
  <2>4. Told(a) \o results = Told(a + b)
    BY <2>3, ToldJoins
  <2> QED
    BY <1>1, <1>5, <2>1, <2>2, <2>4
<1> QED
  BY <1>3, <1>4, <1>5

\* handle_iso_completion
LEMMA HandleIsoKeep ==
  ASSUME UsbUrbsAssumption, IsoSplits, Inv, Flying, TransferInv, ToldInv, HandleIso
  PROVE  TransferInv' /\ (ToldInv' \/ handler' = Idle)
<1>1. PICK i : i = handler.urb
  OBVIOUS
<1>2. PICK results :
        results = [j \in 1 .. urbs[handler.urb].room |->
                     IF j <= urbs[handler.urb].actual THEN urbs[handler.urb].from + j ELSE 0]
  OBVIOUS
<1>3. PICK p : p = [Retired EXCEPT !.packets = @ \o results]
  OBVIOUS
<1>4. PICK status \in {"CANCELLED", "ERROR", "COMPLETED", "NO_DEVICE"} :
        status = IF p.action = "CANCELLED" THEN "CANCELLED"
                 ELSE IF p.action # "NORMAL" THEN "ERROR"
                 ELSE IF urbs[i].status \in {"ok", "killed"} THEN "COMPLETED" ELSE "NO_DEVICE"
  OBVIOUS
<1>5. /\ handler.at = "handle" /\ ~Locked /\ kind.type = "iso"
      /\ IF (IF p.action # "NORMAL" THEN p.retired = N ELSE i = N)
         THEN Completed([p EXCEPT !.status = status]) ELSE Awaits(p)
      /\ urbs' = urbs /\ done' = done /\ refuses' = refuses /\ sent' = sent /\ buffer' = buffer /\ transferred' = transferred
      /\ kind' = kind /\ plugged' = plugged /\ phase' = phase /\ reported' = reported /\ past' = past
  BY <1>1, <1>2, <1>3, <1>4 DEF HandleIso, kernel, data
<1>6. i \in 1 .. N /\ N \in Nat /\ priv \in Priv /\ urbs[i] \in Urb /\ kind \in Kinds /\ ~BulkLike /\ priv.retired \in Nat
  BY <1>1, <1>5, HandledFacts DEF BulkLike
<1>7. results \in Seq(Nat)
  <2>1. PICK room \in Nat, from \in Nat, n \in Nat : room = urbs[i].room /\ from = urbs[i].from /\ n = urbs[i].actual
    BY <1>6 DEF Urb
  <2>2. results = [j \in 1 .. room |-> IF j <= n THEN from + j ELSE 0]
    BY <1>1, <1>2, <2>1
  <2>3. results \in [1 .. room -> Nat]
    BY <2>2
  <2> QED
    BY <2>3
<1>8. /\ p \in Priv /\ p.action = priv.action /\ p.retired = priv.retired + 1 /\ p.status = priv.status
      /\ p.packets = priv.packets \o results
  <2>1. PICK r \in Priv : r = Retired /\ r.action = priv.action /\ r.retired = priv.retired + 1
                          /\ r.status = priv.status /\ r.packets = priv.packets
    BY <1>6, RetiredFacts
  <2>2. PICK all \in Seq(Nat) : all = r.packets \o results
    <3>1. PICK packets \in Seq(Nat) : packets = r.packets
      BY DEF Priv
    <3>2. packets \o results \in Seq(Nat)
      BY <1>7
    <3> QED
      BY <3>1, <3>2
  <2>3. p = [r EXCEPT !.packets = all]
    BY <1>3, <2>1, <2>2
  <2>4. p \in Priv /\ p.action = r.action /\ p.retired = r.retired /\ p.status = r.status /\ p.packets = all
    BY <2>3 DEF Priv
  <2> QED
    BY <2>1, <2>2, <2>4
<1>9. CutInv /\ ActionInv /\ IsoInv /\ SplitInv /\ BadInv /\ StatusInv
  BY DEF TransferInv
<1>10. /\ priv.action \in {"NORMAL", "SUBMIT_FAILED", "CANCELLED"} /\ priv.status = "COMPLETED"
       /\ priv.action = "SUBMIT_FAILED" => "refused" \in past
       /\ priv.action = "CANCELLED" => "asked" \in past
  BY <1>5, <1>6, <1>9 DEF ActionInv
<1>11. Fresh => \/ urbs[i].status = "ok" /\ p.packets = Told(Start(kind)[i + 1])
                \/ urbs[i].status = "shutdown" /\ ~plugged /\ \A j \in Back : urbs[j].status = "shutdown"
  BY <1>1, <1>2, <1>5, <1>8, IsoHandled
<1>12. CASE IF p.action # "NORMAL" THEN p.retired = N ELSE i = N
  <2>1. PICK q : q = [p EXCEPT !.status = status]
    OBVIOUS
  <2>2. q \in Priv /\ q.action = p.action /\ q.status = status /\ q.packets = p.packets
    BY <1>4, <1>8, <2>1 DEF Priv, Reports
  <2>3. Completed(q)
    BY <1>5, <1>12, <2>1
  <2>4. past \cap Faults = {}
    BY <1>5, <1>6, <1>9 DEF CutInv, UsbUrbsAssumption
  <2>5. True(q.status)
    <3>1. CASE p.action = "NORMAL"
      BY <1>4, <2>2, <2>4, <3>1 DEF True
    <3>2. CASE p.action = "SUBMIT_FAILED"
      BY <1>4, <1>8, <1>10, <2>2, <3>2 DEF True
    <3>3. CASE p.action = "CANCELLED"
      BY <1>4, <1>8, <1>10, <2>2, <3>3 DEF True
    <3> QED
      BY <1>8, <1>10, <2>2, <3>1, <3>2, <3>3
  <2>6. ASSUME q.status = "COMPLETED"
        PROVE  q.packets = [n \in 1 .. Len(kind.packets) |-> n]
    <3>1. p.action = "NORMAL" /\ urbs[i].status \in {"ok", "killed"}
      BY <1>4, <2>2, <2>6
    <3>2. i = N /\ Fresh
      BY <1>8, <1>12, <3>1 DEF Fresh
    <3>3. p.packets = Told(Start(kind)[N + 1])
      BY <1>11, <3>1, <3>2
    <3>4. Start(kind)[N + 1] = Len(kind.packets)
      BY <1>5, <1>9, StartFacts DEF Inv, LengthOf
    <3> QED
      BY <2>2, <3>3, <3>4 DEF Told
  <2> QED
    BY <1>5, <1>6, <2>2, <2>3, <2>5, <2>6, CompletedTold
<1>13. CASE ~(IF p.action # "NORMAL" THEN p.retired = N ELSE i = N)
  <2>1. priv' = p /\ handler' = Idle /\ work' = work
    BY <1>5, <1>13 DEF Awaits
  <2>2. Fresh' = Fresh /\ BulkLike' = BulkLike /\ (Fresh' => Clean')
    BY <1>5, <1>8, <1>10, <2>1 DEF Fresh, Clean, BulkLike
  <2>3. LineInv' /\ PrefixInv' /\ GoneInv' /\ WholeInv' /\ AfterInv'
    BY <1>5, <1>6, <2>2 DEF LineInv, PrefixInv, GoneInv, WholeInv, AfterInv
  <2>4. ActionInv'
    BY <1>5, <1>8, <1>9, <2>1, <2>2 DEF ActionInv
  <2>5. /\ N' = N /\ Queued' = Queued /\ Given' = Given /\ priv'.packets = p.packets /\ Back' \subseteq Back
        /\ priv'.retired = priv.retired + 1
    <3>1. N' = N /\ Queued' = Queued
      BY <1>5, SameUrbs
    <3>2. Given' = Given
      BY <2>1, <3>1 DEF Given
    <3>3. Back' \subseteq Back
      BY <1>5, <2>1 DEF Back, Handled, Idle
    <3> QED
      BY <1>8, <2>1, <3>1, <3>2, <3>3
  <2>6. Fresh => i = priv.retired + 1
    BY <1>1, <1>5, HandledIs
  <2>7. Fresh => i + 1 = priv'.retired + 1
    BY <2>5, <2>6
  <2>8. Fresh' => (~plugged' /\ \A j \in Back' : urbs'[j].status = "shutdown")
                  \/ priv'.packets = Told(Start(kind')[priv'.retired + 1])
    BY <1>5, <1>11, <2>2, <2>5, <2>7
  <2>9. IsoInv'
    <3>1. /\ \A j \in 1 .. N : urbs[j].status \in {None, "ok", "killed", "shutdown"}
          /\ Fresh => \A j \in 1 .. N : urbs[j].status = "ok" => urbs[j].from = Start(kind)[j] /\ urbs[j].actual = urbs[j].room
          /\ Fresh /\ plugged => /\ Queued = {} => sent = Start(kind)[Given + 1]
                                 /\ \A q \in Queued : q - 1 \in Queued \/ sent = Start(kind)[q]
      BY <1>5, <1>9 DEF IsoInv
    <3> QED
      BY <1>5, <2>2, <2>5, <2>8, <3>1 DEF IsoInv, Told
  <2>10. work'.who # "submit" /\ DOMAIN buffer' = DOMAIN buffer
    BY <1>5, <2>1 DEF Locked, None
  <2> QED
    BY <1>5, <2>1, <2>2, <2>3, <2>4, <2>5, <2>9, <2>10, RetiredKeep
<1> QED
  BY <1>12, <1>13

\* What a bulk transfer notes of a URB that is not needed, or has failed, is true.
LEMMA NextTells ==
  ASSUME Inv, Flying, TransferInv, handler.at = "handle", ~Locked, BulkLike, Fresh, NEW next,
         \/ /\ urbs[handler.urb].status \in {"stall", "error", "shutdown"}
            /\ next = Noted(Retired, urbs[handler.urb].status)
         \/ /\ urbs[handler.urb].status \in {"ok", "short", "killed", "unlinked"}
            /\ urbs[handler.urb].actual < urbs[handler.urb].room
            /\ next = [Retired EXCEPT !.action = "COMPLETED_EARLY"]
  PROVE  /\ next \in Priv /\ next.action \in {"NORMAL", "ERROR", "COMPLETED_EARLY"}
         /\ next.retired = priv.retired + 1 /\ True(next.status)
         /\ next.status \in {"COMPLETED", "STALL", "ERROR", "NO_DEVICE"}
         /\ next.action = "NORMAL" => urbs[handler.urb].status \in {"stall", "shutdown"}
         /\ next.status = "COMPLETED" => next.action = "COMPLETED_EARLY" /\ "short" \in past /\ past \cap Faults = {}
<1>1. CASE /\ urbs[handler.urb].status \in {"stall", "error", "shutdown"}
           /\ next = Noted(Retired, urbs[handler.urb].status)
  <2>1. PICK s \in {"stall", "error", "shutdown", "overflow"} : s = urbs[handler.urb].status /\ s # "overflow"
    BY <1>1
  <2>2. next = Noted(Retired, s)
    BY <1>1, <2>1
  <2>3. /\ True(Noted(Retired, s).status) /\ Noted(Retired, s).status \in {"STALL", "ERROR", "NO_DEVICE", "OVERFLOW"}
        /\ s # "overflow" => Noted(Retired, s).status # "OVERFLOW"
        /\ Noted(Retired, s).action = IF s = "error" THEN "ERROR" ELSE "NORMAL"
        /\ Noted(Retired, s).retired = priv.retired + 1 /\ Noted(Retired, s) \in Priv
    BY <2>1, NotedTells
  <2>4. /\ True(next.status) /\ next.status \in {"STALL", "ERROR", "NO_DEVICE"} /\ next \in Priv
        /\ next.action = (IF s = "error" THEN "ERROR" ELSE "NORMAL") /\ next.retired = priv.retired + 1
    BY <2>1, <2>2, <2>3
  <2> QED
    BY <2>1, <2>4
<1>2. CASE /\ urbs[handler.urb].status \in {"ok", "short", "killed", "unlinked"}
           /\ urbs[handler.urb].actual < urbs[handler.urb].room
           /\ next = [Retired EXCEPT !.action = "COMPLETED_EARLY"]
  <2>1. PICK r \in Priv : r = Retired /\ r.status = priv.status /\ r.retired = priv.retired + 1
    BY RetiredFacts DEF Inv, TypeInv
  <2>2. next = [r EXCEPT !.action = "COMPLETED_EARLY"]
    BY <1>2, <2>1
  <2>3. next \in Priv /\ next.action = "COMPLETED_EARLY" /\ next.status = r.status /\ next.retired = r.retired
    BY <2>2 DEF Priv
  <2>4. /\ priv.status = "STALL" => "stall" \in past
        /\ priv.status = "ERROR" => past \cap {"error", "refused"} # {}
        /\ priv.status \in {"COMPLETED", "STALL", "ERROR", "NO_DEVICE"}
    BY DEF TransferInv, ActionInv
  <2>5. priv.status = "COMPLETED" => "short" \in past /\ past \cap Faults = {}
    BY <1>2, EarlyTells DEF Clean
  <2>6. True(priv.status)
    BY <2>4, <2>5 DEF True
  <2> QED
    BY <2>1, <2>3, <2>4, <2>5, <2>6
<1> QED
  BY <1>1, <1>2

\* Once a bulk transfer has noted a failure and is not torn down, nothing comes after it.
LEMMA AfterStays ==
  ASSUME Inv, Flying, TransferInv, handler.at = "handle", ~Locked, BulkLike, Fresh,
         urbs[handler.urb].status \in {"stall", "shutdown"}
  PROVE  Queued = {} /\ \A j \in ToSet(done) : urbs[j].actual = 0
<1>1. PICK i \in 1 .. N : i = handler.urb /\ (\A j \in ToSet(done) : i < j) /\ ToSet(done) \subseteq Back
  BY HandledIs
<1>2. StatusInv /\ ShutInv /\ EarlyInv /\ ContInv /\ Back \subseteq 1 .. N
  BY BackInRange DEF TransferInv
<1>3. CauseInv
  BY DEF Inv
<1>4. CASE urbs[i].status = "shutdown"
  <2>1. Queued = {}
    BY <1>1, <1>3, <1>4 DEF CauseInv
  <2>2. ASSUME NEW j \in ToSet(done) PROVE urbs[j].actual = 0
    <3>1. j \in 1 .. N /\ i < j
      BY <1>1, <1>2
    <3>2. urbs[j].status \in {"shutdown", None}
      BY <1>2, <1>4, <3>1 DEF ShutInv
    <3> QED
      BY <1>2, <3>1, <3>2 DEF StatusInv
  <2> QED
    BY <2>1, <2>2
<1>5. CASE urbs[i].status = "stall"
  <2>1. N = 1 \/ refuses
    BY <1>1, <1>3, <1>5 DEF CauseInv, BulkLike
  <2>2. CASE N = 1
    <3>1. N <= 1
      BY <2>2
    <3>2. Queued = {} /\ done = << >>
      BY <3>1, LastFacts
    <3> QED
      BY <3>2, ShortFacts
  <2>3. CASE refuses
    <3>1. Queued = {} /\ Continues(kind)
      BY <1>2, <1>3, <2>3 DEF CauseInv, EarlyInv
    <3>2. Bad(i)
      BY <1>5 DEF Bad, Faults
    <3> QED
      BY <1>1, <1>2, <3>1, <3>2 DEF ContInv
  <2> QED
    BY <2>1, <2>2, <2>3
<1> QED
  BY <1>1, <1>4, <1>5

\* handle_bulk_completion
LEMMA HandleBulkKeep ==
  ASSUME UsbUrbsAssumption, IsoSplits, Inv, Flying, TransferInv, ToldInv, HandleBulk
  PROVE  TransferInv' /\ (ToldInv' \/ handler' = Idle)
<1>1. PICK i : i = handler.urb
  OBVIOUS
<1>2. PICK s : s = urbs[i].status
  OBVIOUS
<1>3. PICK r : r = Retired
  OBVIOUS
<1>4. PICK next : next = IF s \in {"stall", "error", "shutdown"} THEN Noted(r, s)
                         ELSE [r EXCEPT !.action = "COMPLETED_EARLY"]
  OBVIOUS
<1>5. /\ handler.at = "handle" /\ ~Locked /\ BulkLike /\ Fresh /\ kind.type # "iso"
      /\ urbs' = urbs /\ done' = done /\ refuses' = refuses /\ sent' = sent /\ buffer' = buffer
      /\ kind' = kind /\ plugged' = plugged /\ phase' = phase /\ reported' = reported /\ past' = past
      /\ transferred' = transferred + urbs[handler.urb].actual
  BY DEF HandleBulk, kernel, BulkLike, Fresh
<1>6. \/ s = "overflow" /\ Completed(Noted(r, "overflow"))
      \/ s \in {"ok", "short", "killed", "unlinked"} /\ i = N /\ Completed(r)
      \/ s \in {"ok", "short", "killed", "unlinked"} /\ ~(urbs[i].actual < urbs[i].room) /\ Awaits(r)
      \/ /\ s # "overflow" /\ ~(s \in {"ok", "short", "killed", "unlinked"} /\ i = N)
         /\ ~(s \in {"ok", "short", "killed", "unlinked"} /\ i < N /\ ~(urbs[i].actual < urbs[i].room))
         /\ IF r.retired = N THEN Completed(next) ELSE DiscardRest(next, i)
  BY <1>1, <1>2, <1>3, <1>4 DEF HandleBulk
<1>7. N \in Nat /\ i \in 1 .. N /\ priv \in Priv /\ urbs[i] \in Urb
  BY <1>1, <1>5, HandledFacts
<1>8. r \in Priv /\ r.action = "NORMAL" /\ r.status = priv.status /\ r.retired = priv.retired + 1
  BY <1>3, <1>5, <1>7, RetiredFacts DEF Fresh
<1>9. LineInv /\ SplitInv /\ PrefixInv /\ FrontInv /\ ActionInv /\ StatusInv /\ GoneInv /\ WholeInv /\ AfterInv
  BY DEF TransferInv
<1>10. DOMAIN buffer' = DOMAIN buffer /\ transferred' \in Nat /\ \A q \in 1 .. transferred' : buffer'[q] = q
  BY <1>5, <1>9, PrefixHandled
<1>11. handler'.at # "handle"
  BY <1>6 DEF Completed, Awaits, DiscardRest, Idle
<1>12. LineInv' /\ (done = << >> => transferred' = sent)
  BY <1>5, <1>9, <1>11, LineHandled
<1>13. /\ priv.status = "STALL" => "stall" \in past
       /\ priv.status = "ERROR" => past \cap {"error", "refused"} # {}
       /\ priv.status \in {"COMPLETED", "STALL", "ERROR", "NO_DEVICE"}
  BY <1>9 DEF ActionInv
<1>14. ASSUME NEW p \in Priv, Completed(p), p.action # "CANCELLED", True(p.status), done = << >>
       PROVE  TransferInv' /\ ToldInv'
  BY <1>5, <1>10, <1>12, <1>14, CompletedTold
<1>15. handler' = Idle => Copied' = 0 /\ PrefixInv'
  <2> SUFFICES ASSUME handler' = Idle PROVE Copied' = 0 /\ PrefixInv'
    OBVIOUS
  <2>1. Copied' = 0
    BY <1>11 DEF Copied
  <2>2. \A n \in Nat : n + 0 = n
    OBVIOUS
  <2>3. transferred' + Copied' = transferred'
    BY <1>10, <2>1, <2>2, Zenon
  <2> QED
    BY <1>10, <2>1, <2>3 DEF PrefixInv
<1>16. CASE s = "overflow" /\ Completed(Noted(r, "overflow"))
  <2>1. i = N
    BY <1>2, <1>7, <1>16 DEF Inv, CauseInv
  <2>2. done = << >>
    BY <1>1, <1>5, <2>1, LastFacts DEF Fresh
  <2>3. PICK t \in {"stall", "error", "shutdown", "overflow"} : t = "overflow" /\ urbs[handler.urb].status = t
    BY <1>1, <1>2, <1>16
  <2>4. /\ True(Noted(Retired, t).status) /\ Noted(Retired, t).status \in {"STALL", "ERROR", "NO_DEVICE", "OVERFLOW"}
        /\ t # "overflow" => Noted(Retired, t).status # "OVERFLOW"
        /\ Noted(Retired, t).action = IF t = "error" THEN "ERROR" ELSE "NORMAL"
        /\ Noted(Retired, t).retired = priv.retired + 1 /\ Noted(Retired, t) \in Priv
    BY <1>5, <2>3, NotedTells
  <2>5. PICK p \in Priv : Completed(p) /\ p.action = "NORMAL" /\ True(p.status)
    BY <1>3, <1>16, <2>3, <2>4
  <2> QED
    BY <1>14, <2>2, <2>5
<1>17. CASE s \in {"ok", "short", "killed", "unlinked"} /\ i = N /\ Completed(r)
  <2>1. done = << >>
    BY <1>1, <1>5, <1>17, LastFacts DEF Fresh
  <2>2. True(r.status)
    <3>1. CASE priv.status = "COMPLETED"
      <4>1. past \cap Faults = {}
        BY <1>1, <1>2, <1>5, <1>17, <2>1, <3>1, LastTells DEF Clean
      <4> QED
        BY <1>8, <3>1, <4>1 DEF True
    <3>2. CASE priv.status # "COMPLETED"
      BY <1>8, <1>13, <3>2 DEF True
    <3> QED
      BY <3>1, <3>2
  <2> QED
    BY <1>8, <1>14, <1>17, <2>1, <2>2
<1>18. CASE s \in {"ok", "short", "killed", "unlinked"} /\ ~(urbs[i].actual < urbs[i].room) /\ Awaits(r)
  <2>1. priv' = r /\ handler' = Idle /\ work' = work
    BY <1>18 DEF Awaits
  <2>2. Fresh' = Fresh /\ Clean' = Clean /\ BulkLike' = BulkLike
    BY <1>5, <1>8, <2>1 DEF Fresh, Clean, BulkLike
  <2>3. Queued' = Queued /\ N' = N /\ \A j : Bad(j)' <=> Bad(j)
    BY <1>5, SameUrbs
  <2>4. Back' = ToSet(done) /\ Back = ToSet(done) \cup {i} /\ i = priv.retired + 1
    <3>1. Back' = ToSet(done)
      BY <1>5, <2>1 DEF Back, Handled, Idle
    <3> QED
      BY <1>1, <1>5, <3>1, HandledIs
  <2>5. GoneInv'
    <3>1. ~Bad(i)
      BY <1>2, <1>18 DEF Bad, Faults
    <3>2. Clean /\ BulkLike => \A j \in 1 .. N : Bad(j) => j \in Back
      BY <1>9 DEF GoneInv
    <3>3. Clean /\ BulkLike => \A j \in 1 .. N : Bad(j) => j \in Back'
      BY <2>4, <3>1, <3>2
    <3> QED
      BY <2>2, <2>3, <3>3 DEF GoneInv
  <2>6. WholeInv'
    <3> SUFFICES ASSUME Clean, BulkLike PROVE transferred' = Start(kind)[priv'.retired + 1]
      BY <1>5, <2>2 DEF WholeInv
    <3>1. transferred = Start(kind)[i]
      BY <1>9, <2>4 DEF WholeInv
    <3>2. urbs[i].actual = urbs[i].room
      BY <1>7, <1>9, <1>18 DEF StatusInv, Urb
    <3>3. Start(kind)[i + 1] = Start(kind)[i] + urbs[i].room
      BY <1>7, <1>9, StartFacts DEF Inv
    <3>4. priv'.retired + 1 = i + 1
      BY <1>8, <2>1, <2>4
    <3> QED
      BY <1>1, <1>5, <3>1, <3>2, <3>3, <3>4
  <2>7. AfterInv'
    <3>1. Fresh /\ ~Clean => Queued = {} /\ \A j \in Back : urbs[j].actual = 0
      BY <1>9 DEF AfterInv
    <3> QED
      BY <1>5, <2>2, <2>3, <2>4, <3>1 DEF AfterInv
  <2>8. ActionInv'
    BY <1>5, <1>8, <1>9, <2>1, <2>2 DEF ActionInv, Fresh
  <2>9. IsoInv' /\ work'.who # "submit"
    BY <1>5, <2>1 DEF IsoInv, Locked, None
  <2> QED
    BY <1>5, <1>8, <1>10, <1>12, <1>15, <2>1, <2>2, <2>5, <2>6, <2>7, <2>8, <2>9, RetiredKeep
<1>19. CASE /\ s # "overflow" /\ ~(s \in {"ok", "short", "killed", "unlinked"} /\ i = N)
            /\ ~(s \in {"ok", "short", "killed", "unlinked"} /\ i < N /\ ~(urbs[i].actual < urbs[i].room))
            /\ IF r.retired = N THEN Completed(next) ELSE DiscardRest(next, i)
  <2>1. s \in Statuses /\ s # None
    BY <1>1, <1>2, <1>5, <1>7, HandledIs DEF Urb
  <2>2. \/ s \in {"stall", "error", "shutdown"} /\ next = Noted(r, s)
        \/ /\ s \in {"ok", "short", "killed", "unlinked"} /\ urbs[i].actual < urbs[i].room
           /\ next = [r EXCEPT !.action = "COMPLETED_EARLY"]
    <3>1. CASE s \in {"stall", "error", "shutdown"}
      BY <1>4, <3>1
    <3>2. CASE s \in {"ok", "short", "killed", "unlinked"}
      <4>1. i < N
        BY <1>7, <1>19, <3>2
      <4>2. next = [r EXCEPT !.action = "COMPLETED_EARLY"]
        BY <1>4, <3>2
      <4> QED
        BY <1>19, <3>2, <4>1, <4>2
    <3> QED
      BY <1>19, <2>1, <3>1, <3>2 DEF Statuses, Faults
  <2>3. /\ next \in Priv /\ next.action \in {"NORMAL", "ERROR", "COMPLETED_EARLY"}
        /\ next.retired = priv.retired + 1 /\ True(next.status)
        /\ next.status \in {"COMPLETED", "STALL", "ERROR", "NO_DEVICE"}
        /\ next.action = "NORMAL" => urbs[handler.urb].status \in {"stall", "shutdown"}
        /\ next.status = "COMPLETED" => next.action = "COMPLETED_EARLY" /\ "short" \in past /\ past \cap Faults = {}
    BY <1>1, <1>2, <1>3, <1>5, <2>2, NextTells
  <2>4. CASE r.retired = N
    <3>1. done = << >>
      BY <1>5, <1>8, <2>4, LastFacts
    <3>2. Completed(next)
      BY <1>19, <2>4
    <3> QED
      BY <1>14, <2>3, <3>1, <3>2
  <2>5. CASE r.retired # N
    <3>1. priv' = next /\ handler' = Idle /\ work'.who = "handle"
      BY <1>19, <2>5 DEF DiscardRest
    <3>2. BulkLike' = BulkLike /\ ~Clean' /\ (Fresh' => next.action = "NORMAL")
      BY <1>5, <2>3, <3>1 DEF Fresh, Clean, BulkLike
    <3>3. GoneInv' /\ WholeInv'
      BY <3>2 DEF GoneInv, WholeInv
    <3>4. AfterInv'
      <4>1. Queued' = Queued /\ Back' = ToSet(done)
        BY <1>5, <3>1, SameUrbs DEF Back, Handled, Idle
      <4>2. Fresh' => Queued = {} /\ \A j \in ToSet(done) : urbs[j].actual = 0
        BY <1>5, <2>3, <3>2, AfterStays
      <4> QED
        BY <1>5, <4>1, <4>2 DEF AfterInv
    <3>5. ActionInv'
      <4>1. /\ next.status = "STALL" => "stall" \in past
            /\ next.status = "ERROR" => past \cap {"error", "refused"} # {}
        BY <2>3 DEF True
      <4>2. kind.type \notin {"control", "iso"}
        BY <1>5 DEF BulkLike
      <4> QED
        BY <1>5, <2>3, <3>1, <3>2, <4>1, <4>2 DEF ActionInv
    <3>6. IsoInv'
      BY <1>5 DEF IsoInv
    <3>7. work'.who # "submit" /\ priv'.retired = priv.retired + 1
      BY <2>3, <3>1
    <3> QED
      BY <1>5, <1>10, <1>12, <1>15, <3>1, <3>3, <3>4, <3>5, <3>6, <3>7, RetiredKeep
  <2> QED
    BY <2>4, <2>5
<1> QED
  BY <1>6, <1>16, <1>17, <1>18, <1>19

\* A transfer that is submitted has the whole way before it.
LEMMA SubmitKeep ==
  ASSUME UsbUrbsAssumption, IsoSplits, Inv, Inv', Submit
  PROVE  TransferInv' /\ ToldInv'
<1>1. PICK k \in Kinds, u \in Seq(Nat) :
        /\ k = kind' /\ u = UnitsOf(k)
        /\ urbs' = [i \in DOMAIN u |-> NewUrb(u[i])] /\ buffer' = [i \in 1 .. LengthOf(k) |-> 0]
        /\ work' = [who |-> "submit", at |-> 1, last |-> Len(u)]
  <2>1. kind' \in Kinds
    BY DEF Submit
  <2>2. UnitsOf(kind') \in Seq(Nat)
    BY <2>1, UnitsFacts
  <2> QED
    BY <2>1, <2>2 DEF Submit
<1>2. /\ phase = "idle" /\ ~Locked /\ phase' = "submitting" /\ handler' = handler
      /\ done' = << >> /\ refuses' = FALSE /\ sent' = 0 /\ past' = {} /\ transferred' = 0 /\ reported' = None
      /\ priv' = [NoPriv EXCEPT !.urbs = TRUE]
  BY DEF Submit
<1>3. handler.at # "handle" /\ handler.at # "complete"
  BY <1>2 DEF Inv, EndedInv
<1>4. ToldInv'
  BY <1>2, <1>3 DEF ToldInv
<1>5. /\ priv'.action = "NORMAL" /\ priv'.status = "COMPLETED" /\ priv'.retired = 0 /\ priv'.packets = << >>
  BY <1>2 DEF NoPriv
<1>6. /\ N' = Len(u) /\ N' \in Nat
      /\ \A i \in 1 .. N' : urbs'[i] = [at |-> None, status |-> None, room |-> u[i], from |-> 0, actual |-> 0]
  BY <1>1 DEF NewUrb, N
<1>7. \A i \in 1 .. N' : urbs'[i].at = None /\ urbs'[i].status = None /\ urbs'[i].room = u[i]
                         /\ urbs'[i].from = 0 /\ urbs'[i].actual = 0 /\ u[i] \in Nat
  <2>1. \A i \in 1 .. N' : u[i] \in Nat
    BY <1>6
  <2> SUFFICES ASSUME NEW i \in 1 .. N'
               PROVE  urbs'[i].at = None /\ urbs'[i].status = None /\ urbs'[i].room = u[i]
                      /\ urbs'[i].from = 0 /\ urbs'[i].actual = 0 /\ u[i] \in Nat
    OBVIOUS
  <2>2. PICK n \in Nat : n = u[i]
    BY <2>1
  <2>3. PICK v : v = urbs'[i]
    OBVIOUS
  <2>4. v = [at |-> None, status |-> None, room |-> n, from |-> 0, actual |-> 0]
    BY <1>6, <2>2, <2>3
  <2>5. v.at = None /\ v.status = None /\ v.room = n /\ v.from = 0 /\ v.actual = 0
    BY <2>4
  <2> QED
    BY <2>2, <2>3, <2>5
<1>8. Queued' = {} /\ Back' = {} /\ Fresh' /\ Clean' /\ Given' = 0 /\ Line' = << >> /\ Copied' = 0
  <2>1. Queued' = {}
    BY <1>7 DEF Queued, None
  <2>2. Handled' = {} /\ Line' = << >> /\ Copied' = 0
    BY <1>2, <1>3 DEF Handled, Line, Copied
  <2>3. Back' = {}
    BY <1>2, <2>2, ShortFacts DEF Back
  <2>4. Given' = 0
    BY <1>1 DEF Given
  <2> QED
    BY <1>5, <2>1, <2>2, <2>3, <2>4 DEF Fresh, Clean
<1>9. \A i \in 1 .. N' : ~Bad(i)' /\ Stops(i)' = 0
  BY <1>7 DEF Bad, Stops, Faults, None
<1>10. SplitInv'
  <2>1. DOMAIN buffer' = 1 .. LengthOf(kind')
    BY <1>1
  <2>2. N' = Len(UnitsOf(kind')) /\ UnitsOf(kind') = u
    BY <1>1, <1>6
  <2>3. \A i \in 1 .. N' : urbs'[i].room = UnitsOf(kind')[i]
    BY <1>7, <2>2
  <2> QED
    BY <2>1, <2>2, <2>3 DEF SplitInv
<1>11. Start(kind')[1] = 0 /\ LengthOf(kind') \in Nat
  <2>1. Splits(Start(kind'), kind') /\ LengthOf(kind') \in Nat
    BY <1>1, SplitFacts
  <2> QED
    BY <2>1 DEF Splits
<1>12. StatusInv'
  <2>1. work'.at = 1
    BY <1>1
  <2>2. \A i \in 1 .. N' : /\ urbs'[i].actual <= urbs'[i].room /\ urbs'[i].actual = 0
                           /\ urbs'[i].status = None /\ urbs'[i].status # "killed"
    BY <1>7 DEF None
  <2> QED
    BY <1>8, <2>1, <2>2 DEF StatusInv
<1>13. BadInv' /\ GoneInv' /\ ContInv'
  <2>1. BadInv'
    BY <1>7, <1>9 DEF BadInv, None
  <2>2. GoneInv'
    BY <1>9 DEF GoneInv
  <2>3. ContInv'
    BY <1>9 DEF ContInv
  <2> QED
    BY <2>1, <2>2, <2>3
<1>14. CutInv'
  BY <1>2, <1>7, <1>9 DEF CutInv, Faults, None
<1>15. EarlyInv' /\ ActionInv'
  BY <1>2, <1>5 DEF EarlyInv, ActionInv
<1>16. PlaceInv' /\ AfterInv'
  <2>1. 0 + 1 .. 0 = {}
    OBVIOUS
  <2> QED
    BY <1>5, <1>8, <2>1 DEF PlaceInv, AfterInv
<1>17. LineInv'
  <2>1. Len(<< >>) = 0 /\ 1 .. 0 - 1 = {}
    OBVIOUS
  <2> QED
    BY <1>2, <1>8, <2>1 DEF LineInv
<1>18. FrontInv'
  <2>1. work'.at = 1
    BY <1>1
  <2>2. \A i \in 1 .. N' : Stops(i)' <= 0 /\ ~(urbs'[i].actual > 0)
    BY <1>7, <1>9
  <2> QED
    BY <1>2, <1>8, <1>11, <2>1, <2>2 DEF FrontInv
<1>19. WholeInv' /\ PrefixInv'
  <2>1. WholeInv'
    BY <1>2, <1>5, <1>11 DEF WholeInv
  <2>2. 1 .. 0 + 0 = {}
    OBVIOUS
  <2>3. PrefixInv'
    BY <1>2, <1>8, <2>2 DEF PrefixInv
  <2> QED
    BY <2>1, <2>3
<1>20. ShutInv'
  BY <1>7 DEF ShutInv, None
<1>21. IsoInv'
  <2>1. Told(0) = << >>
    BY DEF Told
  <2>2. priv'.packets = Told(Start(kind')[priv'.retired + 1])
    BY <1>5, <1>11, <2>1
  <2>3. sent' = Start(kind')[Given' + 1]
    BY <1>2, <1>8, <1>11
  <2>4. \A i \in 1 .. N' : urbs'[i].status \in {None, "ok", "killed", "shutdown"} /\ urbs'[i].status # "ok"
    BY <1>7 DEF None
  <2> QED
    BY <1>8, <2>2, <2>3, <2>4 DEF IsoInv, Told
<1> QED
  BY <1>4, <1>10, <1>12, <1>13, <1>14, <1>15, <1>16, <1>17, <1>18, <1>19, <1>20, <1>21 DEF TransferInv

\* What has been told stays true.
LEMMA ToldStays ==
  ASSUME ToldInv, kind' = kind, transferred' = transferred, sent' = sent, buffer' = buffer, priv'.packets = priv.packets,
         past' = past \/ past' = past \cup {"asked"}, handler' = handler, reported' = reported,
         handler.at = "complete" => Outcome' = Outcome \/ (Outcome' = "CANCELLED" /\ "asked" \in past'),
         reported # None => phase' = phase /\ Queued' = {} /\ ~Locked'
  PROVE  ToldInv'
<1>1. ASSUME NEW s, True(s) PROVE True(s)'
  BY <1>1 DEF True, Faults
<1>2. ASSUME NEW s, Whole(s) PROVE Whole(s)'
  BY <1>2 DEF Whole, BulkLike
<1>3. reported # None => Reported(reported)' /\ Whole(reported)'
  <2>1. PICK s : s = reported
    OBVIOUS
  <2>2. reported # None => (True(s)' \/ (s = "ERROR" /\ Lacking)) /\ (s = "COMPLETED" => ~Lacking) /\ Whole(s)'
    BY <1>1, <1>2, <2>1 DEF ToldInv, Reported
  <2>3. Lacking' = Lacking
    BY DEF Lacking
  <2> QED
    BY <2>1, <2>2, <2>3 DEF True, Whole, Reported
<1>4. handler.at = "complete" => True(Outcome)' /\ Whole(Outcome)' /\ Whole("CANCELLED")'
  <2>1. SUFFICES ASSUME handler.at = "complete" PROVE True(Outcome)' /\ Whole(Outcome)' /\ Whole("CANCELLED")'
    OBVIOUS
  <2>2. True(Outcome) /\ Whole(Outcome) /\ Whole("CANCELLED")'
    BY <1>2, <2>1 DEF ToldInv
  <2>3. PICK s : s = Outcome'
    OBVIOUS
  <2>4. CASE s = Outcome
    <3>1. True(s)' /\ Whole(s)'
      BY <1>1, <1>2, <2>2, <2>4
    <3> QED
      BY <2>2, <2>3, <3>1 DEF True, Whole
  <2>5. CASE s = "CANCELLED" /\ "asked" \in past'
    <3>1. True(s)' /\ Whole(s)'
      BY <2>2, <2>5 DEF True
    <3> QED
      BY <2>2, <2>3, <3>1 DEF True, Whole
  <2> QED
    BY <2>1, <2>3, <2>4, <2>5
<1> QED
  BY <1>3, <1>4 DEF ToldInv

\* Once a transfer has ended, only the plug and a late request to cancel it are left.
LEMMA EndedIsQuiet ==
  ASSUME Inv, ToldInv, handler.at = "complete" \/ reported # None
  PROVE  Queued = {} /\ ~Locked /\ handler.at # "handle" /\ (handler.at # "off" => done = << >>)
<1>1. CASE handler.at = "complete"
  BY <1>1 DEF Inv, EndedInv
<1>2. CASE reported # None
  BY <1>2 DEF ToldInv, Inv, EndedInv
<1> QED
  BY <1>1, <1>2

\* The device is unplugged after the end.
LEMMA UnplugStays ==
  ASSUME Inv, ToldInv, Unplug
  PROVE  ToldInv'
<1>1. Queued' = {}
  BY UnplugFacts DEF Leaves, Inv
<1>2. reported # None => ~Locked' /\ phase' = phase
  BY DEF Unplug, ToldInv, Locked
<1>3. Outcome' = Outcome
  BY DEF Unplug, data, Outcome
<1> QED
  BY <1>1, <1>2, <1>3, ToldStays DEF Unplug, data

\* A transfer that has just ended is cancelled too late.
LEMMA CancelStays ==
  ASSUME Inv, ToldInv, Cancel
  PROVE  ToldInv'
<1>1. reported = None
  BY DEF Cancel, ToldInv
<1>2. PICK a : priv' = [priv EXCEPT !.action = a]
  BY DEF Cancel
<1>3. priv'.packets = priv.packets
  BY <1>2 DEF Inv, TypeInv, Priv
<1>4. Outcome' = Outcome \/ Outcome' = "CANCELLED"
  <2>1. priv'.action = Cancelled(priv.action)
    BY DEF Cancel, Inv, TypeInv, Priv
  <2>2. priv'.action = priv.action \/ priv'.action = "CANCELLED"
    BY <2>1 DEF Cancelled
  <2> QED
    BY <2>2 DEF Cancel, Outcome
<1>5. "asked" \in past'
  BY DEF Cancel
<1> QED
  BY <1>1, <1>3, <1>4, <1>5, ToldStays DEF Cancel, kernel, data

\* The application is told of the transfer.
LEMMA CompleteTells ==
  ASSUME Inv, ToldInv, Complete
  PROVE  TransferInv' /\ ToldInv'
<1>1. /\ handler.at = "complete" /\ phase' = "idle" /\ handler' = Idle
      /\ reported' = IF Outcome = "COMPLETED" /\ Lacking THEN "ERROR" ELSE Outcome
      /\ urbs' = urbs /\ work' = work /\ kind' = kind /\ transferred' = transferred /\ sent' = sent
      /\ buffer' = buffer /\ priv' = priv /\ past' = past
  BY DEF Complete, kernel, data
<1>2. Queued = {} /\ ~Locked
  BY <1>1, EndedIsQuiet
<1>3. PICK s : s = Outcome /\ True(s) /\ Whole(s)
  BY <1>1 DEF ToldInv
<1>4. PICK r : r = IF s = "COMPLETED" /\ Lacking THEN "ERROR" ELSE s
  OBVIOUS
<1>5. Reported(reported)' /\ Whole(reported)'
  <2>1. Lacking' = Lacking /\ reported' = r
    BY <1>1, <1>3, <1>4 DEF Lacking
  <2>2. (True(r)' \/ (r = "ERROR" /\ Lacking)) /\ (r = "COMPLETED" => ~Lacking)
    BY <1>1, <1>3, <1>4 DEF True
  <2>3. Whole(r)'
    BY <1>1, <1>3, <1>4 DEF Whole, BulkLike
  <2> QED
    BY <2>1, <2>2, <2>3 DEF True, Whole, Reported
<1>6. Queued' = {} /\ ~Locked'
  BY <1>1, <1>2, SameUrbs DEF Locked
<1>7. ToldInv'
  BY <1>1, <1>5, <1>6 DEF ToldInv, Idle
<1>8. ~Flying'
  BY <1>1 DEF Flying
<1> QED
  BY <1>7, <1>8 DEF TransferInv

\* The handle has seen its device leave.
LEMMA DisconnectTells ==
  ASSUME Inv, ToldInv, Disconnect
  PROVE  TransferInv' /\ ToldInv'
<1>1. /\ handler.at = "poll" /\ ~plugged /\ ~Locked /\ handler'.at = "off"
      /\ \/ reported' = "NO_DEVICE" /\ phase' = "idle"
         \/ phase \notin {"flying", "cancelling"} /\ priv' = priv /\ reported' = reported /\ phase' = phase
      /\ urbs' = urbs /\ work' = work /\ kind' = kind /\ transferred' = transferred /\ sent' = sent
      /\ buffer' = buffer /\ past' = past
  BY DEF Disconnect, kernel, data, Idle
<1>2. Queued' = {} /\ ~Locked'
  <2>1. Queued = {}
    BY <1>1 DEF Inv, CauseInv
  <2> QED
    BY <1>1, <2>1, SameUrbs DEF Locked
<1>3. ToldInv'
  <2>1. CASE reported' = "NO_DEVICE" /\ phase' = "idle"
    <3>2. Reported(reported)' /\ Whole(reported)'
      BY <2>1 DEF True, Whole, Reported
    <3> QED
      BY <1>1, <1>2, <2>1, <3>2 DEF ToldInv
  <2>2. CASE priv' = priv /\ reported' = reported /\ phase' = phase
    <3>1. PICK s : s = reported
      OBVIOUS
    <3>2. reported # None => Reported(s) /\ Whole(s) /\ phase = "idle"
      BY <3>1 DEF ToldInv
    <3>3. reported # None => Reported(s)' /\ Whole(s)'
      BY <1>1, <2>2, <3>2 DEF True, Whole, BulkLike, Reported, Lacking
    <3>4. reported' # None => Reported(reported)' /\ Whole(reported)' /\ phase' = "idle"
      BY <2>2, <3>1, <3>2, <3>3 DEF True, Whole, Reported
    <3> QED
      BY <1>1, <1>2, <3>4 DEF ToldInv
  <2> QED
    BY <1>1, <2>1, <2>2
<1>4. ~Flying'
  BY <1>1 DEF Flying
<1> QED
  BY <1>3, <1>4 DEF TransferInv

\* A URB is handled.
LEMMA HandledTells ==
  ASSUME UsbUrbsAssumption, IsoSplits, Inv, TransferInv, ToldInv,
         HandleControl \/ HandleSurplus \/ HandleBulk \/ HandleIso
  PROVE  TransferInv' /\ ToldInv'
<1>1. handler.at = "handle" /\ reported' = reported
  BY DEF HandleControl, HandleSurplus, HandleBulk, HandleIso
<1>2. Flying
  BY <1>1 DEF Inv, EndedInv, Flying
<1>3. reported = None
  BY <1>2 DEF ToldInv, Flying
<1>4. TransferInv' /\ (ToldInv' \/ handler' = Idle)
  BY <1>2, HandleControlKeep, HandleSurplusKeep, HandleBulkKeep, HandleIsoKeep
<1>5. handler' = Idle => ToldInv'
  BY <1>1, <1>3 DEF Idle, ToldInv
<1> QED
  BY <1>4, <1>5

\* The transfer goes on, or has ended and nothing of it does.
LEMMA OthersKeep ==
  ASSUME UsbUrbsAssumption, IsoSplits, ~FaultsEarly, Inv, TransferInv, ToldInv,
         \/ Serve \/ Fail \/ Unplug \/ DiscardNext
         \/ SubmitUrb \/ FirstRefused \/ RefusedAsEarly \/ LaterRefused \/ Cancel \/ Submitted \/ Unlock
         \/ Reap
  PROVE  TransferInv' /\ ToldInv'
<1>1. /\ reported' = reported /\ (phase = "idle" => phase' = "idle")
      /\ handler' = handler \/ (handler.at = "poll" /\ handler'.at = "handle")
  <2>1. CASE Serve \/ Fail \/ Unplug \/ DiscardNext
    BY <2>1 DEF Serve, Fail, Unplug, DiscardNext
  <2>2. CASE SubmitUrb \/ FirstRefused \/ RefusedAsEarly \/ LaterRefused \/ Cancel
    BY <2>2 DEF SubmitUrb, FirstRefused, RefusedAsEarly, LaterRefused, Cancel
  <2>3. CASE Submitted \/ Unlock
    <3>1. Locked /\ (phase = "idle" => handler.at = "off")
      BY <2>3 DEF Submitted, Unlock, Locked, None, Inv, EndedInv
    <3> QED
      BY <2>3, <3>1 DEF Submitted, Unlock
  <2>4. CASE Reap
    BY <2>4 DEF Reap, Idle
  <2> QED
    BY <2>1, <2>2, <2>3, <2>4
<1>2. TransferInv'
  <2>1. CASE ~Flying'
    BY <2>1 DEF TransferInv
  <2>2. CASE Flying'
    <3>1. Flying
      BY <1>1, <2>2 DEF Flying
    <3>2. ~FirstRefused
      BY <2>2 DEF FirstRefused, Flying
    <3>3. CASE Serve \/ Fail \/ Unplug \/ DiscardNext
      BY <3>1, <3>3, DeviceKeep
    <3>4. CASE RefusedAsEarly \/ LaterRefused \/ Cancel
      BY <3>1, <3>4, TurnsKeep
    <3>5. CASE Submitted \/ Unlock
      BY <2>2, <3>1, <3>5, ReleaseKeep
    <3>6. CASE SubmitUrb
      BY <3>1, <3>6, SubmitUrbKeep
    <3>7. CASE Reap
      BY <3>1, <3>7, ReapKeep
    <3> QED
      BY <3>2, <3>3, <3>4, <3>5, <3>6, <3>7
  <2> QED
    BY <2>1, <2>2
<1>3. ToldInv'
  <2>1. CASE handler.at # "complete" /\ reported = None
    BY <1>1, <2>1 DEF ToldInv
  <2>2. CASE handler.at = "complete" \/ reported # None
    <3>1. Queued = {} /\ ~Locked /\ (handler.at # "off" => done = << >>)
      BY <2>2, EndedIsQuiet
    <3>2. ~(Serve \/ Fail)
      BY <3>1 DEF Serve, Fail
    <3>3. ~(DiscardNext \/ SubmitUrb \/ FirstRefused \/ RefusedAsEarly \/ LaterRefused \/ Submitted \/ Unlock)
      BY <3>1 DEF DiscardNext, SubmitUrb, FirstRefused, RefusedAsEarly, LaterRefused, Submitted, Unlock, Locked, None
    <3>4. ~Reap
      BY <3>1 DEF Reap
    <3> QED
      BY <3>2, <3>3, <3>4, UnplugStays, CancelStays
  <2> QED
    BY <2>1, <2>2
<1> QED
  BY <1>2, <1>3

\* Every step keeps what is known, and what is told, of the transfer.
LEMMA ReportNext ==
  ASSUME UsbUrbsAssumption, StallsContinue, IsoSplits, ~FaultsEarly, Inv, TransferInv, ToldInv, [Next]_vars
  PROVE  Inv' /\ TransferInv' /\ ToldInv'
<1>1. Inv'
  BY NextInv
<1>2. CASE Submit
  BY <1>1, <1>2, SubmitKeep
<1>3. CASE \/ Serve \/ Fail \/ Unplug \/ DiscardNext
           \/ SubmitUrb \/ FirstRefused \/ RefusedAsEarly \/ LaterRefused \/ Cancel \/ Submitted \/ Unlock
           \/ Reap
  BY <1>1, <1>3, OthersKeep
<1>4. CASE HandleControl \/ HandleSurplus \/ HandleBulk \/ HandleIso
  BY <1>1, <1>4, HandledTells
<1>5. CASE Complete
  BY <1>1, <1>5, CompleteTells
<1>6. CASE Disconnect
  BY <1>1, <1>6, DisconnectTells
<1>7. CASE UNCHANGED vars
  <2>1. /\ kind' = kind /\ plugged' = plugged /\ urbs' = urbs /\ done' = done /\ refuses' = refuses /\ sent' = sent
        /\ priv' = priv /\ buffer' = buffer /\ transferred' = transferred /\ phase' = phase /\ work' = work
        /\ handler' = handler /\ reported' = reported /\ past' = past
    BY <1>7 DEF vars
  <2>2. N' = N /\ Queued' = Queued
    BY <2>1, SameUrbs
  <2>3. Given' = Given /\ Flying' = Flying
    BY <2>1, <2>2 DEF Given, Flying
  <2>4. TransferInv'
    <3>1. CASE Flying
      BY <2>1, <2>3, <3>1, SameKeep
    <3>2. CASE ~Flying
      BY <2>3, <3>2 DEF TransferInv
    <3> QED
      BY <3>1, <3>2
  <2>5. reported # None => Queued' = {} /\ ~Locked'
    BY <2>1, <2>2 DEF ToldInv, Locked
  <2>6. Outcome' = Outcome
    BY <2>1 DEF Outcome
  <2>7. ToldInv'
    BY <2>1, <2>5, <2>6, ToldStays
  <2> QED
    BY <1>1, <2>4, <2>7
<1> QED
  BY <1>2, <1>3, <1>4, <1>5, <1>6, <1>7 DEF Next, Proceed

\* The report is true when what has been told is.
LEMMA ToldIsTrue ==
  ASSUME ToldInv
  PROVE  ReportIsTrue
<1>1. CASE reported = None
  BY <1>1 DEF ReportIsTrue, StatusIsTrue, WholeAndInOrder, None
<1>2. CASE reported # None
  <2>1. Reported(reported) /\ Whole(reported)
    BY <1>2 DEF ToldInv
  <2> QED
    BY <2>1 DEF ReportIsTrue, StatusIsTrue, WholeAndInOrder, True, Whole, BulkLike, Reported
<1> QED
  BY <1>1, <1>2

\* Whatever a transfer has been split into, whoever cancels it, whatever the device
\* does and however the three threads interleave, what the application is told is true,
\* and the data is whole and in order: of transfers whose device does not fail while
\* their URBs are still being submitted.
THEOREM ReportIsTrueHolds ==
  ASSUME UsbUrbsAssumption, StallsContinue, IsoSplits, ~FaultsEarly
  PROVE  Spec => []ReportIsTrue
<1>1. Init => Inv /\ TransferInv /\ ToldInv
  <2> SUFFICES ASSUME Init PROVE Inv /\ TransferInv /\ ToldInv
    OBVIOUS
  <2>1. Inv
    BY InitInv
  <2>2. ~Flying
    BY DEF Init, Flying
  <2>3. ToldInv
    BY DEF Init, ToldInv, Idle
  <2> QED
    BY <2>1, <2>2, <2>3 DEF TransferInv
<1>2. Inv /\ TransferInv /\ ToldInv /\ [Next]_vars => (Inv /\ TransferInv /\ ToldInv)'
  BY ReportNext
<1>3. Inv /\ TransferInv /\ ToldInv => ReportIsTrue
  BY ToldIsTrue
<1> QED
  BY <1>1, <1>2, <1>3, PTL DEF Spec
=============================================================================
