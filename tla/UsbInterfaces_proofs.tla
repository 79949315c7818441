------------------------ MODULE UsbInterfaces_proofs ------------------------
(***************************************************************************)
(* Theorems about UsbInterfaces, for every set of threads, handles and     *)
(* interfaces.  The premises are the two disciplines of programs: a call   *)
(* that looks who drives an interface and detaches it in a second call of  *)
(* the kernel overlaps no other, and resets and settings overlap no other  *)
(* call for their handle.                                                  *)
(***************************************************************************)
EXTENDS UsbInterfaces, TLAPS

H(t) == HandleOf[t]
Claiming == {"detach_to_claim", "claim_at_last"}

\* Where a thread is says whether it resets its handle, and what it is about.
PlaceInv ==
  \A t \in Threads :
    /\ pc[t] = "idle" => at[t] = 0
    /\ pc[t] \in {"let_go", "reset", "claim_again"} => Resetting(t)
    /\ pc[t] \in {"idle", "set", "detach", "attach_again"} => ~Resetting(t)
    /\ pc[t] = "reset" => at[t] = 0
    /\ pc[t] \in {"set", "detach", "attach_again"} \cup Claiming => at[t] \in Interfaces
    /\ pc[t] \in Claiming => old /\ (~Resetting(t) => auto[H(t)])
    /\ ~Resetting(t) \/ pc[t] \in {"let_go", "reset"} => ret[t] = "ok"

\* Who has a lock is at a place of a call that takes it.
LockInv == \A t \in Threads : pc[t] \in Holding <=> lock[H(t)] = t

\* What the disciplines keep apart.
AloneInv ==
  \A t \in Threads : \A u \in Threads \ {t} :
    Looked(t) \/ (H(u) = H(t) /\ (Resetting(t) \/ pc[t] = "set")) => pc[u] = "idle"

\* What has been seen of an interface is still so when it is detached.
SeenInv == \A t \in Threads : pc[t] \in {"detach", "detach_to_claim"} => driver[at[t]] \notin Handles

\* The mask is as the calls in progress have found it.
MaskInv ==
  \A t \in Threads :
    /\ pc[t] = "set" => Has(H(t), at[t])
    /\ Resetting(t) => /\ claimed[H(t)] \subseteq before[t]
                       /\ ret[t] = "ok" => claimed[H(t)] = before[t]
                       /\ pc[t] \in Claiming => Has(H(t), at[t])

\* What the kernel has claimed for a handle is in its mask; the other way round
\* between its resets.
HeldInv ==
  plugged => \A h \in Handles :
    /\ HeldBy(h) \subseteq claimed[h]
    /\ BetweenResets(h) => claimed[h] \ adrift[h] \subseteq HeldBy(h)

\* How far a reset has come: what it has let go, what it has claimed again.
ResetInv ==
  plugged => \A t \in Threads : Resetting(t) => \A i \in Interfaces :
    /\ pc[t] = "let_go" /\ i < at[t] => driver[i] # H(t)
    /\ pc[t] = "reset" => driver[i] # H(t)
    /\ pc[t] \in Claiming \cup {"claim_again"} =>
         IF i < at[t] THEN Has(H(t), i) => driver[i] = H(t) ELSE driver[i] # H(t)

\* A handle that does not attach drivers again is known to have taken the driver away.
AwayInv == plugged => \A h \in Handles, i \in Interfaces : driver[i] = h /\ ~auto[h] => i \in away

\* The driver of an interface that has none is missed on purpose, by a reset that has
\* failed, or until a call in progress gets to it.
ToComeBack(t, i) ==
  \/ pc[t] \in {"attach_again", "claim_at_last"} /\ at[t] = i
  \/ Resetting(t) /\ Has(H(t), i) /\ (pc[t] \in {"let_go", "reset"} \/ i >= at[t])
CoverInv ==
  plugged => \A i \in Native : driver[i] = None =>
    \/ i \in away
    \/ \E h \in Handles : Has(h, i) /\ i \in adrift[h]
    \/ \E t \in Threads : ToComeBack(t, i)

PlacesInv == TypeOK /\ PlaceInv /\ AloneInv
ClaimsInv == PlacesInv /\ SeenInv /\ MaskInv /\ HeldInv /\ ResetInv
DriversInv == ClaimsInv /\ AwayInv /\ CoverInv

-----------------------------------------------------------------------------
\* What the constants are.
LEMMA Constants ==
  /\ \A t \in Threads : H(t) \in Handles
  /\ None \notin Handles /\ Driver \notin Handles /\ None # Driver /\ None \notin Threads
  /\ \A i \in Interfaces : i \in Nat /\ i + 1 \in 0 .. MaxInterface + 1 /\ i \in 0 .. MaxInterface + 1
  /\ Native \subseteq Interfaces /\ 0 \in 0 .. MaxInterface + 1 /\ MaxInterface \in Nat
  /\ \A n \in 0 .. MaxLoads : n < MaxLoads => n + 1 \in 0 .. MaxLoads
  /\ \A n \in 0 .. MaxResets : n < MaxResets => n + 1 \in 0 .. MaxResets
BY UsbInterfacesAssumption DEF H, None, Driver, Interfaces

(* The steps of a thread that several calls share. *)

\* The last call of detach_kernel_driver_and_claim, for a claim or a reset.
Attempts(t, i, ok) ==
  /\ Claimed(t, i, ok) /\ UNCHANGED <<world, auto, notes>>
  /\ ok \in BOOLEAN /\ i \in Interfaces
  /\ ok => plugged /\ driver[i] \in {None, Driver, H(t)}
  /\ plugged /\ ~ok => driver[i] # None
  /\ \/ pc[t] = "idle" /\ MayBegin(t, "claim") /\ Free(H(t)) /\ ~Has(H(t), i) /\ auto[H(t)] /\ ~old
     \/ pc[t] = "claim_again" /\ IsNext(H(t), at[t], i)
     \/ pc[t] \in Claiming /\ at[t] = i

\* Its four outcomes: a claim that succeeds or does not, and the same in a reset.
Gains(t, i) ==
  /\ ~Resetting(t) /\ plugged /\ driver[i] \in {None, Driver, H(t)}
  /\ Drives(i, H(t)) /\ Counts(H(t), i) /\ away' = IF auto[H(t)] THEN away ELSE away \cup {i}
  /\ Goto(t, "idle") /\ About(t, 0) /\ IF pc[t] = "idle" THEN UNCHANGED lock ELSE Drop(t)
  /\ pc[t] \in {"idle"} \cup Claiming /\ auto[H(t)]
  /\ pc[t] = "idle" => MayBegin(t, "claim") /\ Free(H(t)) /\ ~old
  /\ pc[t] # "idle" => at[t] = i
  /\ UNCHANGED <<plugged, old, loads, ret, auto, adrift, before, resets>>
Misses(t, i) ==
  /\ ~Resetting(t) /\ (plugged => driver[i] # None)
  /\ Goto(t, "idle") /\ About(t, 0) /\ IF pc[t] = "idle" THEN UNCHANGED lock ELSE Drop(t)
  /\ pc[t] \in {"idle"} \cup Claiming
  /\ IF pc[t] = "idle" THEN MayBegin(t, "claim") ELSE at[t] = i
  /\ UNCHANGED <<plugged, old, loads, driver, claimed, away, ret, auto, adrift, before, resets>>
Regains(t, i) ==
  /\ Resetting(t) /\ plugged /\ driver[i] \in {None, Driver, H(t)}
  /\ Drives(i, H(t)) /\ away' = IF auto[H(t)] THEN away ELSE away \cup {i}
  /\ Goto(t, "claim_again") /\ About(t, i + 1)
  /\ pc[t] \in {"claim_again"} \cup Claiming
  /\ IF pc[t] = "claim_again" THEN IsNext(H(t), at[t], i) ELSE at[t] = i
  /\ UNCHANGED <<plugged, old, loads, lock, claimed, ret, auto, adrift, before, resets>>
Loses(t, i) ==
  /\ Resetting(t) /\ (plugged => driver[i] # None)
  /\ CountsNoMore(H(t), i) /\ Ret(t, "NOT_FOUND")
  /\ Goto(t, "claim_again") /\ About(t, i + 1)
  /\ pc[t] \in {"claim_again"} \cup Claiming
  /\ IF pc[t] = "claim_again" THEN IsNext(H(t), at[t], i) ELSE at[t] = i
  /\ UNCHANGED <<plugged, old, loads, driver, lock, away, auto, adrift, before, resets>>

\* The first call of detach_kernel_driver_and_claim where it takes two.
Looks(t, i) ==
  /\ LookToDetach(t, i) /\ UNCHANGED <<world, auto, notes>> /\ i \in Interfaces
  /\ \/ pc[t] = "idle" /\ MayBegin(t, "claim") /\ Free(H(t)) /\ ~Has(H(t), i) /\ auto[H(t)]
     \/ pc[t] = "claim_again" /\ IsNext(H(t), at[t], i)

Detaches(t) ==
  /\ At(t, "detach_to_claim") /\ plugged /\ Goto(t, "claim_at_last") /\ Drives(at[t], None)
  /\ away' = IF auto[H(t)] THEN away ELSE away \cup {at[t]}
  /\ UNCHANGED <<claimed, lock, at, ret, world, auto, notes>>

\* The loops of a reset: one interface is let go; all have been; all are back.
LetsGo(t, i) ==
  /\ At(t, "let_go") /\ i \in Interfaces /\ IsNext(H(t), at[t], i) /\ About(t, i + 1)
  /\ IF MayRelease(H(t), i) THEN Drives(i, None) ELSE UNCHANGED driver
  /\ UNCHANGED <<pc, world, claimed, auto, lock, ret, away, notes>>
AllGone(t) ==
  /\ At(t, "let_go") /\ \A i \in claimed[H(t)] : i < at[t]
  /\ Goto(t, "reset") /\ About(t, 0)
  /\ UNCHANGED <<driver, world, claimed, auto, lock, ret, away, notes>>
AllBack(t) ==
  /\ At(t, "claim_again") /\ \A i \in claimed[H(t)] : i < at[t]
  /\ Goto(t, "idle") /\ About(t, 0) /\ Drop(t) /\ before' = [before EXCEPT ![t] = {}] /\ Ret(t, "ok")
  /\ UNCHANGED <<driver, claimed, away, world, auto, adrift, resets>>

\* A step of a thread is one of these.
LEMMA StepsOfThreads ==
  ASSUME TypeOK, PlaceInv, NEW t \in Threads, Step(t)
  PROVE  \/ \E i \in Interfaces : Gains(t, i) \/ Misses(t, i) \/ Regains(t, i) \/ Loses(t, i)
         \/ \E i \in Interfaces : \/ Looks(t, i) \/ LetsGo(t, i) \/ Claim(t, i) \/ Release(t, i)
                                  \/ LookWhoDrives(t, i) \/ Attach(t, i) \/ BeginSet(t, i)
         \/ Detaches(t) \/ AllGone(t) \/ AllBack(t) \/ AttachAgain(t) \/ Detach(t) \/ Set(t)
         \/ SetConfiguration(t) \/ BeginReset(t) \/ Reset(t) \/ ResetFails(t)
<1>d. ASSUME NEW i \in Interfaces
      PROVE  /\ MayDisconnectClaim(i) => plugged /\ driver[i] \in {None, Driver, H(t)}
             /\ plugged /\ ~MayDisconnectClaim(i) => driver[i] # None
             /\ MayClaim(H(t), i) => plugged /\ driver[i] \in {None, Driver, H(t)}
             /\ plugged /\ ~MayClaim(H(t), i) => driver[i] # None
             /\ MayDisconnectClaim(i) \in BOOLEAN /\ MayClaim(H(t), i) \in BOOLEAN
  BY Constants DEF MayDisconnectClaim, MayClaim, TypeOK
<1>0. ASSUME NEW i \in Interfaces, NEW ok \in BOOLEAN, Attempts(t, i, ok)
      PROVE  Gains(t, i) \/ Misses(t, i) \/ Regains(t, i) \/ Loses(t, i)
  <2>1. /\ pc[t] \in {"idle", "claim_again"} \cup Claiming /\ (pc[t] \in Claiming => at[t] = i)
        /\ pc[t] = "idle" => MayBegin(t, "claim") /\ Free(H(t)) /\ ~old /\ auto[H(t)]
        /\ pc[t] = "claim_again" => IsNext(H(t), at[t], i)
        /\ UNCHANGED <<plugged, old, loads, auto, adrift, before, resets>>
        /\ ok => plugged /\ driver[i] \in {None, Driver, H(t)}
        /\ plugged /\ ~ok => driver[i] # None
    BY <1>0 DEF Attempts, Claiming, world, notes
  <2>2. /\ IF ok THEN Drives(i, H(t)) ELSE UNCHANGED driver
        /\ away' = IF ok /\ ~auto[H(t)] THEN away \cup {i} ELSE away
    BY <1>0 DEF Attempts, Claimed, H
  <2>3. CASE Resetting(t)
    <3>1. pc[t] \notin {"idle"}
      BY <2>3 DEF PlaceInv
    <3>2. /\ IF ok THEN UNCHANGED <<claimed, ret>> ELSE CountsNoMore(H(t), i) /\ Ret(t, "NOT_FOUND")
          /\ Goto(t, "claim_again") /\ About(t, i + 1) /\ UNCHANGED lock
      BY <1>0, <2>3 DEF Attempts, Claimed, H
    <3> QED
      BY <2>1, <2>2, <2>3, <3>1, <3>2 DEF Regains, Loses, Claiming
  <2>4. CASE ~Resetting(t)
    <3>1. pc[t] # "claim_again"
      BY <2>4 DEF PlaceInv
    <3>2. /\ IF ok THEN Counts(H(t), i) ELSE UNCHANGED claimed
          /\ Goto(t, "idle") /\ About(t, 0) /\ UNCHANGED ret
          /\ IF pc[t] = "idle" THEN UNCHANGED lock ELSE Drop(t)
      BY <1>0, <2>4 DEF Attempts, Claimed, H, At
    <3>3. auto[H(t)]
      BY <2>1, <2>4, <3>1 DEF PlaceInv
    <3> QED
      BY <2>1, <2>2, <2>4, <3>1, <3>2, <3>3 DEF Gains, Misses, Claiming
  <2> QED
    BY <2>3, <2>4
<1>1. CASE DetachToClaim(t)
  <2>1. at[t] \in Interfaces
    BY <1>1 DEF DetachToClaim, At, PlaceInv, Claiming
  <2>2. CASE ~plugged /\ Claimed(t, at[t], FALSE)
    <3>1. Attempts(t, at[t], FALSE)
      BY <1>1, <2>1, <2>2 DEF DetachToClaim, Attempts, At, Claiming
    <3> QED
      BY <1>0, <2>1, <3>1
  <2>3. CASE ~(~plugged /\ Claimed(t, at[t], FALSE))
    BY <1>1, <2>3 DEF DetachToClaim, Detaches, H, At
  <2> QED
    BY <2>2, <2>3
<1>2. CASE ClaimAtLast(t)
  <2>1. at[t] \in Interfaces
    BY <1>2 DEF ClaimAtLast, At, PlaceInv, Claiming
  <2>2. Attempts(t, at[t], MayClaim(H(t), at[t]))
    BY <1>2, <1>d, <2>1 DEF ClaimAtLast, Attempts, H, At, Claiming
  <2> QED
    BY <1>0, <1>d, <2>1, <2>2
<1>3. ASSUME NEW i \in Interfaces, ClaimDriven(t, i)
      PROVE  Attempts(t, i, MayDisconnectClaim(i)) \/ Looks(t, i)
  BY <1>3, <1>d DEF ClaimDriven, DisconnectClaim, Attempts, Looks, H, MayBegin, At
<1>4. ASSUME ClaimBack(t)
      PROVE  \/ \E i \in Interfaces : Attempts(t, i, MayDisconnectClaim(i)) \/ Looks(t, i)
             \/ AllBack(t)
  <2>1. ASSUME NEW i \in Interfaces, IsNext(HandleOf[t], at[t], i), UNCHANGED before,
               DisconnectClaim(t, i) \/ LookToDetach(t, i)
        PROVE  Attempts(t, i, MayDisconnectClaim(i)) \/ Looks(t, i)
    BY <1>4, <1>d, <2>1 DEF ClaimBack, DisconnectClaim, Attempts, Looks, H, At, notes
  <2>2. CASE ~\E i \in Interfaces : /\ IsNext(HandleOf[t], at[t], i) /\ UNCHANGED before
                                    /\ DisconnectClaim(t, i) \/ LookToDetach(t, i)
    BY <1>4, <2>2 DEF ClaimBack, AllBack, H
  <2> QED
    BY <2>1, <2>2
<1>5. CASE LetGo(t)
  BY <1>5 DEF LetGo, LetsGo, AllGone, H, At
<1> QED
  BY <1>0, <1>1, <1>2, <1>3, <1>4, <1>5, <1>d DEF Step

\* What a step of a thread leaves to the others.
Keeps(t) ==
  /\ plugged' = plugged /\ old' = old /\ auto' = auto
  /\ \A u \in Threads \ {t} :
       pc'[u] = pc[u] /\ at'[u] = at[u] /\ ret'[u] = ret[u] /\ before'[u] = before[u]
  /\ \A h \in Handles \ {H(t)} : claimed'[h] = claimed[h] /\ adrift'[h] = adrift[h] /\ lock'[h] = lock[h]

\* A step of a thread leaves to the others what is theirs.
LEMMA OthersKeep ==
  ASSUME TypeOK, PlaceInv, NEW t \in Threads, Step(t)
  PROVE  Keeps(t)
  <1>1. ASSUME NEW i \in Interfaces, Gains(t, i)
        PROVE  Keeps(t)
    BY <1>1, Constants DEF Gains, Drives, Counts, Goto, About, Drop, Keeps, TypeOK, H
  <1>2. ASSUME NEW i \in Interfaces, Misses(t, i)
        PROVE  Keeps(t)
    BY <1>2, Constants DEF Misses, Goto, About, Drop, Keeps, TypeOK, H
  <1>3. ASSUME NEW i \in Interfaces, Regains(t, i)
        PROVE  Keeps(t)
    BY <1>3, Constants DEF Regains, Drives, Goto, About, Keeps, TypeOK, H
  <1>4. ASSUME NEW i \in Interfaces, Loses(t, i)
        PROVE  Keeps(t)
    BY <1>4, Constants DEF Loses, CountsNoMore, Ret, Goto, About, Keeps, TypeOK, H
  <1>5. ASSUME NEW i \in Interfaces, Looks(t, i)
        PROVE  Keeps(t)
    BY <1>5, Constants DEF Looks, LookToDetach, Take, Goto, About, At, world, notes, Keeps,
       TypeOK, H
  <1>6. ASSUME NEW i \in Interfaces, LetsGo(t, i)
        PROVE  Keeps(t)
    BY <1>6, Constants DEF LetsGo, Goto, About, At, Drives, world, notes, Keeps, TypeOK, H
  <1>7. ASSUME NEW i \in Interfaces, Claim(t, i)
        PROVE  Keeps(t)
    BY <1>7, Constants DEF Claim, Drives, Counts, world, notes, Keeps, TypeOK, H
  <1>8. ASSUME NEW i \in Interfaces, Release(t, i)
        PROVE  Keeps(t)
    BY <1>8, Constants DEF Release, Drives, CountsNoMore, Take, Goto, About, At, MayBegin, world,
       notes, Keeps, TypeOK, H
  <1>9. ASSUME NEW i \in Interfaces, LookWhoDrives(t, i)
        PROVE  Keeps(t)
    BY <1>9, Constants DEF LookWhoDrives, Goto, About, MayBegin, At, world, notes, Keeps, TypeOK, H
  <1>10. ASSUME NEW i \in Interfaces, Attach(t, i)
        PROVE  Keeps(t)
    BY <1>10, Constants DEF Attach, Connects, Drives, world, notes, Keeps, TypeOK, H
  <1>11. ASSUME NEW i \in Interfaces, BeginSet(t, i)
        PROVE  Keeps(t)
    BY <1>11, Constants DEF BeginSet, Goto, About, MayBegin, At, world, notes, Keeps, TypeOK, H
  <1>12. CASE Detaches(t)
    BY <1>12, Constants DEF Detaches, Drives, Goto, At, world, notes, Keeps, TypeOK, H
  <1>13. CASE AllGone(t)
    BY <1>13, Constants DEF AllGone, Goto, About, At, world, notes, Keeps, TypeOK, H
  <1>14. CASE AllBack(t)
    BY <1>14, Constants DEF AllBack, Goto, About, Ret, Drop, At, world, Keeps, TypeOK, H
  <1>15. CASE AttachAgain(t)
    BY <1>15, Constants DEF AttachAgain, Connects, Drives, Goto, About, Drop, At, world, notes,
       Keeps, TypeOK, H
  <1>16. CASE Detach(t)
    BY <1>16, Constants DEF Detach, Goto, About, At, Drives, world, notes, Keeps, TypeOK, H
  <1>17. CASE Set(t)
    BY <1>17, Constants DEF Set, Goto, About, At, Drives, world, notes, Keeps, TypeOK, H
  <1>18. CASE SetConfiguration(t)
    BY <1>18, Constants DEF SetConfiguration, world, notes, Keeps, TypeOK, H
  <1>19. CASE BeginReset(t)
    BY <1>19, Constants DEF BeginReset, Goto, MayBegin, At, world, Keeps, TypeOK, H
  <1>20. CASE Reset(t)
    BY <1>20, Constants DEF Reset, Take, Goto, At, world, notes, Keeps, TypeOK, H
  <1>21. CASE ResetFails(t)
    BY <1>21, Constants DEF ResetFails, Goto, At, world, Keeps, TypeOK, H
<1> QED
  BY StepsOfThreads, <1>1, <1>2, <1>3, <1>4, <1>5, <1>6, <1>7, <1>8, <1>9, <1>10, <1>11, <1>12,
     <1>13, <1>14, <1>15, <1>16, <1>17, <1>18, <1>19, <1>20, <1>21

\* Every step keeps the types.
LEMMA TypeNext ==
  ASSUME TypeOK, PlaceInv, [Next]_vars
  PROVE  TypeOK'
<1>0. CASE UNCHANGED vars
  BY <1>0 DEF vars, TypeOK, Holding, H, PlaceInv, Claiming
<1>1. ASSUME NEW i \in Interfaces, Load(i)
      PROVE  TypeOK'
  BY <1>1, Constants DEF Load, Drives, world, notes, TypeOK, Holding, H, PlaceInv, Claiming
<1>2. CASE Unplug
  BY <1>2, Constants DEF Unplug, world, notes, TypeOK, Holding, H, PlaceInv, Claiming
<1>3. ASSUME NEW h \in Handles, SetAuto(h)
      PROVE  TypeOK'
  BY <1>3, Constants DEF SetAuto, world, notes, Of, At, TypeOK, Holding, H, PlaceInv, Claiming
<1>4. ASSUME NEW h \in Handles, Reopen(h)
      PROVE  TypeOK'
  BY <1>4, Constants DEF Reopen, world, notes, Of, At, TypeOK, Holding, H, PlaceInv, Claiming
<1>5. ASSUME NEW t \in Threads, Step(t)
      PROVE  TypeOK'
  <2>1. ASSUME NEW i \in Interfaces, Gains(t, i)
        PROVE  TypeOK'
    BY <2>1, Constants DEF Gains, Drives, Counts, Goto, About, Drop, TypeOK, Holding, H, PlaceInv,
       Claiming
  <2>2. ASSUME NEW i \in Interfaces, Misses(t, i)
        PROVE  TypeOK'
    BY <2>2, Constants DEF Misses, Goto, About, Drop, TypeOK, Holding, H, PlaceInv, Claiming
  <2>3. ASSUME NEW i \in Interfaces, Regains(t, i)
        PROVE  TypeOK'
    BY <2>3, Constants DEF Regains, Drives, Goto, About, TypeOK, Holding, H, PlaceInv, Claiming
  <2>4. ASSUME NEW i \in Interfaces, Loses(t, i)
        PROVE  TypeOK'
    BY <2>4, Constants DEF Loses, CountsNoMore, Ret, Goto, About, TypeOK, Holding, H, PlaceInv,
       Claiming
  <2>5. ASSUME NEW i \in Interfaces, Looks(t, i)
        PROVE  TypeOK'
    BY <2>5, Constants DEF Looks, LookToDetach, Take, Goto, About, At, world, notes, TypeOK,
       Holding, H, PlaceInv, Claiming
  <2>6. ASSUME NEW i \in Interfaces, LetsGo(t, i)
        PROVE  TypeOK'
    BY <2>6, Constants DEF LetsGo, Goto, About, At, Drives, world, notes, TypeOK, Holding, H,
       PlaceInv, Claiming
  <2>7. ASSUME NEW i \in Interfaces, Claim(t, i)
        PROVE  TypeOK'
    BY <2>7, Constants DEF Claim, Drives, Counts, world, notes, TypeOK, Holding, H, PlaceInv,
       Claiming
  <2>8. ASSUME NEW i \in Interfaces, Release(t, i)
        PROVE  TypeOK'
    <3>1. /\ Drives(i, None) /\ CountsNoMore(H(t), i) /\ i \in Interfaces
          /\ UNCHANGED <<plugged, old, loads, auto, ret, away, adrift, before, resets>>
      BY <2>8 DEF Release, H, world, notes
    <3>a. IF auto[H(t)] THEN Take(t) /\ Goto(t, "attach_again") /\ About(t, i) ELSE UNCHANGED <<lock, pc, at>>
      BY <2>8 DEF Release, H
    <3>2. /\ lock' \in [Handles -> Threads \cup {None}] /\ at' \in [Threads -> 0 .. MaxInterface + 1]
          /\ pc' \in [Threads -> Holding \cup {"idle", "set", "detach", "let_go", "reset"}]
      <4>1. CASE auto[H(t)]
        <5>1. lock' \in [Handles -> Threads \cup {None}]
          BY <3>a, <4>1, Constants DEF Take, TypeOK, H
        <5>2. pc' \in [Threads -> Holding \cup {"idle", "set", "detach", "let_go", "reset"}]
          BY <3>a, <4>1 DEF Goto, TypeOK, Holding
        <5>3. at' \in [Threads -> 0 .. MaxInterface + 1]
          BY <3>a, <4>1, Constants DEF About, TypeOK
        <5> QED
          BY <5>1, <5>2, <5>3
      <4>2. CASE ~auto[H(t)]
        BY <3>a, <4>2 DEF TypeOK
      <4> QED
        BY <4>1, <4>2
    <3>3. driver' \in [Interfaces -> {None, Driver} \cup Handles] /\ claimed' \in [Handles -> SUBSET Interfaces]
      BY <3>1, Constants DEF Drives, CountsNoMore, TypeOK
    <3> QED
      BY <3>1, <3>2, <3>3 DEF TypeOK
  <2>9. ASSUME NEW i \in Interfaces, LookWhoDrives(t, i)
        PROVE  TypeOK'
    BY <2>9, Constants DEF LookWhoDrives, Goto, About, MayBegin, At, world, notes, TypeOK,
       Holding, H, PlaceInv, Claiming
  <2>10. ASSUME NEW i \in Interfaces, Attach(t, i)
        PROVE  TypeOK'
    BY <2>10, Constants DEF Attach, Connects, Drives, world, notes, TypeOK, Holding, H, PlaceInv,
       Claiming
  <2>11. ASSUME NEW i \in Interfaces, BeginSet(t, i)
        PROVE  TypeOK'
    BY <2>11, Constants DEF BeginSet, Goto, About, MayBegin, At, world, notes, TypeOK, Holding, H,
       PlaceInv, Claiming
  <2>12. CASE Detaches(t)
    BY <2>12, Constants DEF Detaches, Drives, Goto, At, world, notes, TypeOK, Holding, H,
       PlaceInv, Claiming
  <2>13. CASE AllGone(t)
    BY <2>13, Constants DEF AllGone, Goto, About, At, world, notes, TypeOK, Holding, H, PlaceInv,
       Claiming
  <2>14. CASE AllBack(t)
    BY <2>14, Constants DEF AllBack, Goto, About, Ret, Drop, At, world, TypeOK, Holding, H,
       PlaceInv, Claiming
  <2>15. CASE AttachAgain(t)
    BY <2>15, Constants DEF AttachAgain, Connects, Drives, Goto, About, Drop, At, world, notes,
       TypeOK, Holding, H, PlaceInv, Claiming
  <2>16. CASE Detach(t)
    BY <2>16, Constants DEF Detach, Goto, About, At, Drives, world, notes, TypeOK, Holding, H,
       PlaceInv, Claiming
  <2>17. CASE Set(t)
    BY <2>17, Constants DEF Set, Goto, About, At, Drives, world, notes, TypeOK, Holding, H,
       PlaceInv, Claiming
  <2>18. CASE SetConfiguration(t)
    BY <2>18, Constants DEF SetConfiguration, world, notes, TypeOK, Holding, H, PlaceInv, Claiming
  <2>19. CASE BeginReset(t)
    BY <2>19, Constants DEF BeginReset, Goto, MayBegin, At, world, TypeOK, Holding, H, PlaceInv,
       Claiming
  <2>20. CASE Reset(t)
    BY <2>20, Constants DEF Reset, Take, Goto, At, world, notes, TypeOK, Holding, H, PlaceInv,
       Claiming
  <2>21. CASE ResetFails(t)
    BY <2>21, Constants DEF ResetFails, Goto, At, world, TypeOK, Holding, H, PlaceInv, Claiming
  <2> QED
    BY <1>5, StepsOfThreads, <2>1, <2>2, <2>3, <2>4, <2>5, <2>6, <2>7, <2>8, <2>9, <2>10, <2>11,
       <2>12, <2>13, <2>14, <2>15, <2>16, <2>17, <2>18, <2>19, <2>20, <2>21
<1> QED
  BY <1>0, <1>1, <1>2, <1>3, <1>4, <1>5 DEF Next

\* A step takes a free lock, or gives back its own, with its place.
LocksRightly(t) ==
  /\ pc'[t] \in Holding <=> lock'[H(t)] = t
  /\ \/ lock'[H(t)] = lock[H(t)]
     \/ lock[H(t)] = None /\ lock'[H(t)] = t
     \/ lock[H(t)] = t /\ lock'[H(t)] = None

\* A step of a thread takes and gives back the lock as it must.
LEMMA StepsLockRightly ==
  ASSUME TypeOK, PlaceInv, LockInv, NEW t \in Threads, Step(t)
  PROVE  LocksRightly(t)
<1>t. H(t) \in Handles /\ t # None /\ (pc[t] \in Holding <=> lock[H(t)] = t)
  BY Constants DEF LockInv
<1>d. pc \in [Threads -> Holding \cup {"idle", "set", "detach", "let_go", "reset"}]
      /\ lock \in [Handles -> Threads \cup {None}]
  BY DEF TypeOK
<1>1. ASSUME NEW i \in Interfaces, Gains(t, i)
      PROVE  LocksRightly(t)
  <2>1. CASE pc[t] = "idle"
    BY <1>1, <2>1, <1>t, <1>d DEF Gains, Goto, LocksRightly, Holding
  <2>2. CASE pc[t] # "idle"
    <3>1. lock' = [lock EXCEPT ![H(t)] = None] /\ pc' = [pc EXCEPT ![t] = "idle"] /\ pc[t] \in Claiming
      BY <1>1, <2>2 DEF Gains, Goto, Drop, H
    <3> QED
      BY <3>1, <1>t, <1>d DEF LocksRightly, Holding, Claiming
  <2> QED
    BY <2>1, <2>2
<1>2. ASSUME NEW i \in Interfaces, Misses(t, i)
      PROVE  LocksRightly(t)
  BY <1>2, <1>t, <1>d DEF Misses, Goto, About, Drop, LocksRightly, Holding, H, Free, Claiming
<1>3. ASSUME NEW i \in Interfaces, Regains(t, i)
      PROVE  LocksRightly(t)
  BY <1>3, <1>t, <1>d DEF Regains, Drives, Goto, About, LocksRightly, Holding, H, Free, Claiming
<1>4. ASSUME NEW i \in Interfaces, Loses(t, i)
      PROVE  LocksRightly(t)
  BY <1>4, <1>t, <1>d DEF Loses, CountsNoMore, Ret, Goto, About, LocksRightly, Holding, H, Free,
     Claiming
<1>5. ASSUME NEW i \in Interfaces, Looks(t, i)
      PROVE  LocksRightly(t)
  BY <1>5, <1>t, <1>d DEF Looks, LookToDetach, Take, Goto, About, At, world, notes, LocksRightly,
     Holding, H, Free, Claiming, MayBegin
<1>6. ASSUME NEW i \in Interfaces, LetsGo(t, i)
      PROVE  LocksRightly(t)
  BY <1>6, <1>t, <1>d DEF LetsGo, Goto, About, At, Drives, world, notes, LocksRightly, Holding, H,
     Free, Claiming
<1>7. ASSUME NEW i \in Interfaces, Claim(t, i)
      PROVE  LocksRightly(t)
  BY <1>7, <1>t, <1>d DEF Claim, Drives, Counts, world, notes, LocksRightly, Holding, H, Free,
     Claiming
<1>8. ASSUME NEW i \in Interfaces, Release(t, i)
      PROVE  LocksRightly(t)
  BY <1>8, <1>t, <1>d DEF Release, Drives, CountsNoMore, Take, Goto, About, At, MayBegin, world,
     notes, LocksRightly, Holding, H, Free, Claiming
<1>9. ASSUME NEW i \in Interfaces, LookWhoDrives(t, i)
      PROVE  LocksRightly(t)
  BY <1>9, <1>t, <1>d DEF LookWhoDrives, Goto, About, MayBegin, At, world, notes, LocksRightly,
     Holding, H, Free, Claiming
<1>10. ASSUME NEW i \in Interfaces, Attach(t, i)
      PROVE  LocksRightly(t)
  BY <1>10, <1>t, <1>d DEF Attach, Connects, Drives, world, notes, LocksRightly, Holding, H, Free,
     Claiming
<1>11. ASSUME NEW i \in Interfaces, BeginSet(t, i)
      PROVE  LocksRightly(t)
  BY <1>11, <1>t, <1>d DEF BeginSet, Goto, About, MayBegin, At, world, notes, LocksRightly,
     Holding, H, Free, Claiming
<1>12. CASE Detaches(t)
  BY <1>12, <1>t, <1>d DEF Detaches, Drives, Goto, At, world, notes, LocksRightly, Holding, H,
     Free, Claiming
<1>13. CASE AllGone(t)
  BY <1>13, <1>t, <1>d DEF AllGone, Goto, About, At, world, notes, LocksRightly, Holding, H, Free,
     Claiming
<1>14. CASE AllBack(t)
  BY <1>14, <1>t, <1>d DEF AllBack, Goto, About, Ret, Drop, At, world, LocksRightly, Holding, H,
     Free, Claiming
<1>15. CASE AttachAgain(t)
  BY <1>15, <1>t, <1>d DEF AttachAgain, Connects, Drives, Goto, About, Drop, At, world, notes,
     LocksRightly, Holding, H, Free, Claiming
<1>16. CASE Detach(t)
  BY <1>16, <1>t, <1>d DEF Detach, Goto, About, At, Drives, world, notes, LocksRightly, Holding,
     H, Free, Claiming
<1>17. CASE Set(t)
  BY <1>17, <1>t, <1>d DEF Set, Goto, About, At, Drives, world, notes, LocksRightly, Holding, H,
     Free, Claiming
<1>18. CASE SetConfiguration(t)
  BY <1>18, <1>t, <1>d DEF SetConfiguration, world, notes, LocksRightly, Holding, H, Free, Claiming
<1>19. CASE BeginReset(t)
  BY <1>19, <1>t, <1>d DEF BeginReset, Goto, MayBegin, At, world, LocksRightly, Holding, H, Free,
     Claiming
<1>20. CASE Reset(t)
  BY <1>20, <1>t, <1>d DEF Reset, Take, Goto, At, world, notes, LocksRightly, Holding, H, Free,
     Claiming
<1>21. CASE ResetFails(t)
  BY <1>21, <1>t, <1>d DEF ResetFails, Goto, At, world, LocksRightly, Holding, H, Free, Claiming
<1> QED
  BY StepsOfThreads, <1>1, <1>2, <1>3, <1>4, <1>5, <1>6, <1>7, <1>8, <1>9, <1>10, <1>11, <1>12,
     <1>13, <1>14, <1>15, <1>16, <1>17, <1>18, <1>19, <1>20, <1>21

\* Every step keeps what the place of a thread says.
LEMMA PlaceNext ==
  ASSUME TypeOK, PlaceInv, [Next]_vars
  PROVE  PlaceInv'
<1>0. CASE UNCHANGED vars
  BY <1>0 DEF vars, TypeOK, PlaceInv, Claiming, Holding, Resetting, Keeps, H
<1>1. ASSUME NEW i \in Interfaces, Load(i)
      PROVE  PlaceInv'
  BY <1>1, Constants DEF Load, Drives, world, notes, TypeOK, PlaceInv, Claiming, Holding,
     Resetting, Keeps, H
<1>2. CASE Unplug
  BY <1>2, Constants DEF Unplug, world, notes, TypeOK, PlaceInv, Claiming, Holding, Resetting,
     Keeps, H
<1>3. ASSUME NEW h \in Handles, SetAuto(h)
      PROVE  PlaceInv'
  BY <1>3, Constants DEF SetAuto, world, notes, Of, At, TypeOK, PlaceInv, Claiming, Holding,
     Resetting, Keeps, H
<1>4. ASSUME NEW h \in Handles, Reopen(h)
      PROVE  PlaceInv'
  BY <1>4, Constants DEF Reopen, world, notes, Of, At, TypeOK, PlaceInv, Claiming, Holding,
     Resetting, Keeps, H
<1>5. ASSUME NEW t \in Threads, Step(t)
      PROVE  PlaceInv'
  <2>1. ASSUME NEW i \in Interfaces, Gains(t, i)
        PROVE  PlaceInv'
    BY <2>1, Constants DEF Gains, Drives, Counts, Goto, About, Drop, TypeOK, PlaceInv, Claiming,
       Holding, Resetting, Keeps, H
  <2>2. ASSUME NEW i \in Interfaces, Misses(t, i)
        PROVE  PlaceInv'
    BY <2>2, Constants DEF Misses, Goto, About, Drop, TypeOK, PlaceInv, Claiming, Holding,
       Resetting, Keeps, H
  <2>3. ASSUME NEW i \in Interfaces, Regains(t, i)
        PROVE  PlaceInv'
    BY <2>3, Constants DEF Regains, Drives, Goto, About, TypeOK, PlaceInv, Claiming, Holding,
       Resetting, Keeps, H
  <2>4. ASSUME NEW i \in Interfaces, Loses(t, i)
        PROVE  PlaceInv'
    BY <2>4, Constants DEF Loses, CountsNoMore, Ret, Goto, About, TypeOK, PlaceInv, Claiming,
       Holding, Resetting, Keeps, H
  <2>5. ASSUME NEW i \in Interfaces, Looks(t, i)
        PROVE  PlaceInv'
    BY <2>5, Constants DEF Looks, LookToDetach, Take, Goto, About, At, world, notes, TypeOK,
       PlaceInv, Claiming, Holding, Resetting, Keeps, H
  <2>6. ASSUME NEW i \in Interfaces, LetsGo(t, i)
        PROVE  PlaceInv'
    BY <2>6, Constants DEF LetsGo, Goto, About, At, Drives, world, notes, TypeOK, PlaceInv,
       Claiming, Holding, Resetting, Keeps, H
  <2>7. ASSUME NEW i \in Interfaces, Claim(t, i)
        PROVE  PlaceInv'
    BY <2>7, Constants DEF Claim, Drives, Counts, world, notes, TypeOK, PlaceInv, Claiming,
       Holding, Resetting, Keeps, H
  <2>8. ASSUME NEW i \in Interfaces, Release(t, i)
        PROVE  PlaceInv'
    <3>1. /\ pc[t] = "idle" /\ UNCHANGED <<plugged, old, loads, auto, ret, before>>
          /\ IF auto[H(t)] THEN Goto(t, "attach_again") /\ About(t, i) ELSE UNCHANGED <<pc, at>>
      BY <2>8 DEF Release, H, world, notes, MayBegin, At
    <3> QED
      BY <3>1 DEF PlaceInv, Goto, About, TypeOK, Claiming, Resetting, H
  <2>9. ASSUME NEW i \in Interfaces, LookWhoDrives(t, i)
        PROVE  PlaceInv'
    BY <2>9, Constants DEF LookWhoDrives, Goto, About, MayBegin, At, world, notes, TypeOK,
       PlaceInv, Claiming, Holding, Resetting, Keeps, H
  <2>10. ASSUME NEW i \in Interfaces, Attach(t, i)
        PROVE  PlaceInv'
    BY <2>10, Constants DEF Attach, Connects, Drives, world, notes, TypeOK, PlaceInv, Claiming,
       Holding, Resetting, Keeps, H
  <2>11. ASSUME NEW i \in Interfaces, BeginSet(t, i)
        PROVE  PlaceInv'
    BY <2>11, Constants DEF BeginSet, Goto, About, MayBegin, At, world, notes, TypeOK, PlaceInv,
       Claiming, Holding, Resetting, Keeps, H
  <2>12. CASE Detaches(t)
    BY <2>12, Constants DEF Detaches, Drives, Goto, At, world, notes, TypeOK, PlaceInv, Claiming,
       Holding, Resetting, Keeps, H
  <2>13. CASE AllGone(t)
    BY <2>13, Constants DEF AllGone, Goto, About, At, world, notes, TypeOK, PlaceInv, Claiming,
       Holding, Resetting, Keeps, H
  <2>14. CASE AllBack(t)
    BY <2>14, Constants DEF AllBack, Goto, About, Ret, Drop, At, world, TypeOK, PlaceInv,
       Claiming, Holding, Resetting, Keeps, H
  <2>15. CASE AttachAgain(t)
    BY <2>15, Constants DEF AttachAgain, Connects, Drives, Goto, About, Drop, At, world, notes,
       TypeOK, PlaceInv, Claiming, Holding, Resetting, Keeps, H
  <2>16. CASE Detach(t)
    BY <2>16, Constants DEF Detach, Goto, About, At, Drives, world, notes, TypeOK, PlaceInv,
       Claiming, Holding, Resetting, Keeps, H
  <2>17. CASE Set(t)
    BY <2>17, Constants DEF Set, Goto, About, At, Drives, world, notes, TypeOK, PlaceInv,
       Claiming, Holding, Resetting, Keeps, H
  <2>18. CASE SetConfiguration(t)
    BY <2>18, Constants DEF SetConfiguration, world, notes, TypeOK, PlaceInv, Claiming, Holding,
       Resetting, Keeps, H
  <2>19. CASE BeginReset(t)
    BY <2>19, Constants DEF BeginReset, Goto, MayBegin, At, world, TypeOK, PlaceInv, Claiming,
       Holding, Resetting, Keeps, H
  <2>20. CASE Reset(t)
    BY <2>20, Constants DEF Reset, Take, Goto, At, world, notes, TypeOK, PlaceInv, Claiming,
       Holding, Resetting, Keeps, H
  <2>21. CASE ResetFails(t)
    BY <2>21, Constants DEF ResetFails, Goto, At, world, TypeOK, PlaceInv, Claiming, Holding,
       Resetting, Keeps, H
  <2> QED
    BY <1>5, StepsOfThreads, <2>1, <2>2, <2>3, <2>4, <2>5, <2>6, <2>7, <2>8, <2>9, <2>10, <2>11,
       <2>12, <2>13, <2>14, <2>15, <2>16, <2>17, <2>18, <2>19, <2>20, <2>21
<1> QED
  BY <1>0, <1>1, <1>2, <1>3, <1>4, <1>5 DEF Next
\* A lock is free, or had by the thread of its handle that is at such a place.
LEMMA LockNext ==
  ASSUME TypeOK, PlaceInv, LockInv, [Next]_vars
  PROVE  LockInv'
<1>0. CASE UNCHANGED vars
  BY <1>0 DEF vars, LockInv, Holding, H
<1>1. ASSUME NEW i \in Interfaces, Load(i)
      PROVE  LockInv'
  BY <1>1, Constants DEF Load, Drives, world, notes, LockInv, Holding, H
<1>2. CASE Unplug
  BY <1>2, Constants DEF Unplug, world, notes, LockInv, Holding, H
<1>3. ASSUME NEW h \in Handles, SetAuto(h)
      PROVE  LockInv'
  BY <1>3, Constants DEF SetAuto, world, notes, Of, At, LockInv, Holding, H
<1>4. ASSUME NEW h \in Handles, Reopen(h)
      PROVE  LockInv'
  BY <1>4, Constants DEF Reopen, world, notes, Of, At, LockInv, Holding, H
<1>5. ASSUME NEW t \in Threads, Step(t)
      PROVE  LockInv'
  <2>1. Keeps(t) /\ LocksRightly(t) /\ H(t) \in Handles
    BY <1>5, OthersKeep, StepsLockRightly, Constants
  <2> QED
    BY <2>1, Constants DEF Keeps, LocksRightly, LockInv
<1> QED
  BY <1>0, <1>1, <1>2, <1>3, <1>4, <1>5 DEF Next

\* Who sets an interface or resets the handle wants its other threads idle.
WantsHandle(t) == Resetting(t) \/ pc[t] = "set"

\* What a call finds that may begin.
LEMMA Begins ==
  ASSUME PlaceInv, ~DetachOverlaps, ~CallsOverlap, NEW t \in Threads, NEW call, MayBegin(t, call)
  PROVE  /\ pc[t] = "idle"
         /\ \A u \in Threads \ {t} :
              /\ ~Looked(u) /\ (LooksFirst(t, call) => pc[u] = "idle")
              /\ H(u) = H(t) => ~WantsHandle(u) /\ (call \in {"reset", "set"} => pc[u] = "idle")
BY DEF MayBegin, WantsHandle, PlaceInv, At, Of, H

\* What a step changes of this: what the thread wants it has wanted before or finds, and
\* others do not want it not to take the step.
Apart(t) ==
  /\ Looked(t)' => Looked(t) \/ \A u \in Threads \ {t} : pc[u] = "idle"
  /\ WantsHandle(t)' => WantsHandle(t) \/ \A u \in Threads \ {t} : H(u) = H(t) => pc[u] = "idle"
  /\ \A u \in Threads \ {t} : ~Looked(u) /\ (H(u) = H(t) => ~WantsHandle(u))

\* A step of a thread finds the others apart from it.
LEMMA StepsApart ==
  ASSUME TypeOK, PlaceInv, AloneInv, ~DetachOverlaps, ~CallsOverlap, NEW t \in Threads, Step(t)
  PROVE  Apart(t)
<1>p. /\ pc[t] = "idle" => ~Resetting(t)
      /\ pc[t] \in {"let_go", "reset", "claim_again"} => Resetting(t)
      /\ pc \in [Threads -> Holding \cup {"idle", "set", "detach", "let_go", "reset"}]
  BY DEF PlaceInv, TypeOK
<1>a. pc[t] # "idle" => \A u \in Threads \ {t} : ~Looked(u) /\ (H(u) = H(t) => ~WantsHandle(u))
  BY DEF AloneInv, WantsHandle
<1>o. old' = old
  BY OthersKeep DEF Keeps
<1>1. ASSUME NEW i \in Interfaces, Gains(t, i)
      PROVE  Apart(t)
  BY <1>1, Begins, <1>p, <1>a, <1>o DEF Gains, Drives, Counts, Goto, About, Drop, Apart, Looked,
     WantsHandle, Resetting, LooksFirst, At, H, Claiming
<1>2. ASSUME NEW i \in Interfaces, Misses(t, i)
      PROVE  Apart(t)
  BY <1>2, Begins, <1>p, <1>a, <1>o DEF Misses, Goto, About, Drop, Apart, Looked, WantsHandle,
     Resetting, LooksFirst, At, H, Claiming
<1>3. ASSUME NEW i \in Interfaces, Regains(t, i)
      PROVE  Apart(t)
  <2>1. /\ pc[t] \in {"let_go", "reset", "claim_again"} \cup Claiming
        /\ pc'[t] \in {"let_go", "reset", "claim_again"} \cup Claiming
        /\ before' = before /\ old' = old
    BY <1>3, <1>p DEF Regains, Goto, Claiming
  <2> QED
    BY <2>1, <1>a DEF Apart, Looked, WantsHandle, Resetting, At, Claiming
<1>4. ASSUME NEW i \in Interfaces, Loses(t, i)
      PROVE  Apart(t)
  <2>1. /\ pc[t] \in {"let_go", "reset", "claim_again"} \cup Claiming
        /\ pc'[t] \in {"let_go", "reset", "claim_again"} \cup Claiming
        /\ before' = before /\ old' = old
    BY <1>4, <1>p DEF Loses, Goto, Claiming
  <2> QED
    BY <2>1, <1>a DEF Apart, Looked, WantsHandle, Resetting, At, Claiming
<1>5. ASSUME NEW i \in Interfaces, Looks(t, i)
      PROVE  Apart(t)
  BY <1>5, Begins, <1>p, <1>a, <1>o DEF Looks, LookToDetach, Take, Goto, About, At, world, notes,
     Apart, Looked, WantsHandle, Resetting, LooksFirst, H, Claiming
<1>6. ASSUME NEW i \in Interfaces, LetsGo(t, i)
      PROVE  Apart(t)
  <2>1. /\ pc[t] \in {"let_go", "reset", "claim_again"} \cup Claiming
        /\ pc'[t] \in {"let_go", "reset", "claim_again"} \cup Claiming
        /\ before' = before /\ old' = old
    BY <1>6, <1>p DEF LetsGo, At, notes, world, Claiming
  <2> QED
    BY <2>1, <1>a DEF Apart, Looked, WantsHandle, Resetting, At, Claiming
<1>7. ASSUME NEW i \in Interfaces, Claim(t, i)
      PROVE  Apart(t)
  BY <1>7, Begins, <1>p, <1>a, <1>o DEF Claim, Drives, Counts, world, notes, Apart, Looked,
     WantsHandle, Resetting, LooksFirst, At, H, Claiming
<1>8. ASSUME NEW i \in Interfaces, Release(t, i)
      PROVE  Apart(t)
  BY <1>8, Begins, <1>p, <1>a, <1>o DEF Release, Drives, CountsNoMore, Take, Goto, About, At,
     world, notes, Apart, Looked, WantsHandle, Resetting, LooksFirst, H, Claiming
<1>9. ASSUME NEW i \in Interfaces, LookWhoDrives(t, i)
      PROVE  Apart(t)
  BY <1>9, Begins, <1>p, <1>a, <1>o DEF LookWhoDrives, Goto, About, At, world, notes, Apart,
     Looked, WantsHandle, Resetting, LooksFirst, H, Claiming
<1>10. ASSUME NEW i \in Interfaces, Attach(t, i)
      PROVE  Apart(t)
  BY <1>10, Begins, <1>p, <1>a, <1>o DEF Attach, Connects, Drives, world, notes, Apart, Looked,
     WantsHandle, Resetting, LooksFirst, At, H, Claiming
<1>11. ASSUME NEW i \in Interfaces, BeginSet(t, i)
      PROVE  Apart(t)
  BY <1>11, Begins, <1>p, <1>a, <1>o DEF BeginSet, Goto, About, At, world, notes, Apart, Looked,
     WantsHandle, Resetting, LooksFirst, H, Claiming
<1>12. CASE Detaches(t)
  <2>1. /\ pc[t] \in {"let_go", "reset", "claim_again"} \cup Claiming
        /\ pc'[t] \in {"let_go", "reset", "claim_again"} \cup Claiming
        /\ before' = before /\ old' = old
    BY <1>12, <1>p DEF Detaches, Goto, At, notes, world, Claiming
  <2> QED
    BY <2>1, <1>a DEF Apart, Looked, WantsHandle, Resetting, At, Claiming
<1>13. CASE AllGone(t)
  <2>1. /\ pc[t] \in {"let_go", "reset", "claim_again"} \cup Claiming
        /\ pc'[t] \in {"let_go", "reset", "claim_again"} \cup Claiming
        /\ before' = before /\ old' = old
    BY <1>13, <1>p DEF AllGone, Goto, At, notes, world, Claiming
  <2> QED
    BY <2>1, <1>a DEF Apart, Looked, WantsHandle, Resetting, At, Claiming
<1>14. CASE AllBack(t)
  BY <1>14, Begins, <1>p, <1>a, <1>o DEF AllBack, Goto, About, Ret, Drop, At, world, Apart,
     Looked, WantsHandle, Resetting, LooksFirst, H, Claiming
<1>15. CASE AttachAgain(t)
  BY <1>15, Begins, <1>p, <1>a, <1>o DEF AttachAgain, Connects, Drives, Goto, About, Drop, At,
     world, notes, Apart, Looked, WantsHandle, Resetting, LooksFirst, H, Claiming
<1>16. CASE Detach(t)
  BY <1>16, Begins, <1>p, <1>a, <1>o DEF Detach, Goto, About, At, Drives, world, notes, Apart,
     Looked, WantsHandle, Resetting, LooksFirst, H, Claiming
<1>17. CASE Set(t)
  BY <1>17, Begins, <1>p, <1>a, <1>o DEF Set, Goto, About, At, Drives, world, notes, Apart,
     Looked, WantsHandle, Resetting, LooksFirst, H, Claiming
<1>18. CASE SetConfiguration(t)
  BY <1>18, Begins, <1>p, <1>a, <1>o DEF SetConfiguration, world, notes, Apart, Looked,
     WantsHandle, Resetting, LooksFirst, At, H, Claiming
<1>19. CASE BeginReset(t)
  <2>1. /\ MayBegin(t, "reset") /\ pc' = [pc EXCEPT ![t] = "let_go"] /\ old' = old
    BY <1>19, <1>o DEF BeginReset, Goto
  <2>2. \A u \in Threads \ {t} :
          /\ ~Looked(u) /\ (LooksFirst(t, "reset") => pc[u] = "idle")
          /\ H(u) = H(t) => ~WantsHandle(u) /\ pc[u] = "idle"
    BY <2>1, Begins
  <2>3. old => LooksFirst(t, "reset")
    BY DEF LooksFirst
  <2>4. Looked(t)' => old
    BY <2>1, <1>p DEF Looked, At
  <2> QED
    BY <2>1, <2>2, <2>3, <2>4 DEF Apart
<1>20. CASE Reset(t)
  <2>1. /\ pc[t] \in {"let_go", "reset", "claim_again"} \cup Claiming
        /\ pc'[t] \in {"let_go", "reset", "claim_again"} \cup Claiming
        /\ before' = before /\ old' = old
    BY <1>20, <1>p DEF Reset, Goto, At, notes, world, Claiming
  <2> QED
    BY <2>1, <1>a DEF Apart, Looked, WantsHandle, Resetting, At, Claiming
<1>21. CASE ResetFails(t)
  BY <1>21, Begins, <1>p, <1>a, <1>o DEF ResetFails, Goto, At, world, Apart, Looked, WantsHandle,
     Resetting, LooksFirst, H, Claiming
<1> QED
  BY StepsOfThreads, <1>1, <1>2, <1>3, <1>4, <1>5, <1>6, <1>7, <1>8, <1>9, <1>10, <1>11, <1>12,
     <1>13, <1>14, <1>15, <1>16, <1>17, <1>18, <1>19, <1>20, <1>21


\* Under the two disciplines the calls that must not overlap do not.
LEMMA AloneNext ==
  ASSUME TypeOK, PlaceInv, AloneInv, ~DetachOverlaps, ~CallsOverlap, [Next]_vars
  PROVE  AloneInv'
<1>0. CASE UNCHANGED vars
  BY <1>0 DEF vars, AloneInv, Looked, At, Resetting, H
<1>1. ASSUME NEW i \in Interfaces, Load(i)
      PROVE  AloneInv'
  BY <1>1 DEF Load, Drives, world, notes, AloneInv, Looked, At, Resetting, H
<1>2. CASE Unplug
  BY <1>2 DEF Unplug, world, notes, AloneInv, Looked, At, Resetting, H
<1>3. ASSUME NEW h \in Handles, SetAuto(h)
      PROVE  AloneInv'
  BY <1>3 DEF SetAuto, world, notes, Of, At, AloneInv, Looked, Resetting, H
<1>4. ASSUME NEW h \in Handles, Reopen(h)
      PROVE  AloneInv'
  BY <1>4 DEF Reopen, world, notes, Of, At, AloneInv, Looked, Resetting, H
<1>5. ASSUME NEW t \in Threads, Step(t)
      PROVE  AloneInv'
  <2>1. Keeps(t)
    BY <1>5, OthersKeep
  <2>2. Apart(t)
    BY <1>5, StepsApart
  <2>3. \A u \in Threads : pc[u] = "idle" => ~Looked(u) /\ ~WantsHandle(u)
    BY DEF PlaceInv, Looked, WantsHandle, At
  <2>4. \A u \in Threads \ {t} : /\ Looked(u)' = Looked(u) /\ WantsHandle(u)' = WantsHandle(u)
    BY <2>1 DEF Keeps, Looked, WantsHandle, At, Resetting
  <2> QED
    BY <2>1, <2>2, <2>3, <2>4 DEF Keeps, Apart, AloneInv, WantsHandle
<1> QED
  BY <1>0, <1>1, <1>2, <1>3, <1>4, <1>5 DEF Next
\* The steps that are not of a thread: they leave the calls in progress alone.
WorldStep ==
  \/ UNCHANGED vars \/ Unplug
  \/ \E i \in Interfaces : Load(i)
  \/ \E h \in Handles : SetAuto(h) \/ Reopen(h)

\* A step that is not of a thread leaves the handles to the threads.
LEMMA WorldKeeps ==
  ASSUME TypeOK, WorldStep
  PROVE  /\ old' = old /\ pc' = pc /\ at' = at /\ ret' = ret /\ before' = before
         /\ \A j \in Interfaces : driver'[j] = driver[j] \/ driver'[j] \notin Handles
         /\ \A u \in Threads : claimed'[H(u)] = claimed[H(u)] \/ pc[u] = "idle"
<1>1. CASE UNCHANGED vars
  BY <1>1 DEF vars
<1>2. CASE Unplug
  BY <1>2, Constants DEF Unplug, notes
<1>3. ASSUME NEW i \in Interfaces, Load(i)
      PROVE  /\ pc' = pc /\ at' = at /\ ret' = ret /\ before' = before /\ claimed' = claimed /\ old' = old
             /\ \A j \in Interfaces : driver'[j] = driver[j] \/ driver'[j] \notin Handles
  BY <1>3, Constants DEF Load, Drives, notes, TypeOK
<1>4. ASSUME NEW h \in Handles, SetAuto(h)
      PROVE  /\ pc' = pc /\ at' = at /\ ret' = ret /\ before' = before /\ claimed' = claimed
             /\ driver' = driver /\ old' = old
  BY <1>4 DEF SetAuto, world, notes
<1>5. ASSUME NEW h \in Handles, Reopen(h)
      PROVE  /\ pc' = pc /\ at' = at /\ ret' = ret /\ before' = before /\ old' = old
             /\ \A j \in Interfaces : driver'[j] = driver[j] \/ driver'[j] \notin Handles
             /\ \A u \in Threads : claimed'[H(u)] = claimed[H(u)] \/ pc[u] = "idle"
  BY <1>5, Constants DEF Reopen, world, Of, At, H, TypeOK
<1> QED
  BY <1>1, <1>2, <1>3, <1>4, <1>5 DEF WorldStep

\* Who has looked who drives an interface is alone with it.
LEMMA SeenLooked ==
  ASSUME PlaceInv, NEW u \in Threads, pc[u] \in {"detach", "detach_to_claim"}
  PROVE  Looked(u)
BY DEF PlaceInv, Looked, At, Claiming

\* A step takes no interface from a handle that is not its own, and gives it none.
Touches(t) == \A h \in Handles \ {H(t)}, j \in Interfaces : driver'[j] = h <=> driver[j] = h

\* A step of a thread touches the interfaces of its own handle only.
LEMMA StepsTouch ==
  ASSUME TypeOK, PlaceInv, SeenInv, NEW t \in Threads, Step(t)
  PROVE  Touches(t)
<1>c. /\ H(t) \in Handles /\ None \notin Handles /\ Driver \notin Handles /\ Native \subseteq Interfaces
      /\ pc[t] \in {"detach", "detach_to_claim"} => driver[at[t]] \notin Handles
  BY Constants DEF SeenInv
<1>d. driver \in [Interfaces -> {None, Driver} \cup Handles]
  BY DEF TypeOK
<1>1. ASSUME NEW i \in Interfaces, Gains(t, i)
      PROVE  Touches(t)
  BY <1>1, <1>c, <1>d DEF Gains, Drives, Counts, Goto, About, Drop, Touches, H, MayClaim,
     MayConnect, MayRelease
<1>2. ASSUME NEW i \in Interfaces, Misses(t, i)
      PROVE  Touches(t)
  BY <1>2, <1>c, <1>d DEF Misses, Goto, About, Drop, Touches, H, MayClaim, MayConnect, MayRelease
<1>3. ASSUME NEW i \in Interfaces, Regains(t, i)
      PROVE  Touches(t)
  BY <1>3, <1>c, <1>d DEF Regains, Drives, Goto, About, Touches, H, MayClaim, MayConnect, MayRelease
<1>4. ASSUME NEW i \in Interfaces, Loses(t, i)
      PROVE  Touches(t)
  BY <1>4, <1>c, <1>d DEF Loses, CountsNoMore, Ret, Goto, About, Touches, H, MayClaim, MayConnect,
     MayRelease
<1>5. ASSUME NEW i \in Interfaces, Looks(t, i)
      PROVE  Touches(t)
  BY <1>5, <1>c, <1>d DEF Looks, LookToDetach, Take, Goto, About, At, world, notes, Touches, H,
     MayClaim, MayConnect, MayRelease
<1>6. ASSUME NEW i \in Interfaces, LetsGo(t, i)
      PROVE  Touches(t)
  BY <1>6, <1>c, <1>d DEF LetsGo, Goto, About, At, Drives, world, notes, Touches, H, MayClaim,
     MayConnect, MayRelease
<1>7. ASSUME NEW i \in Interfaces, Claim(t, i)
      PROVE  Touches(t)
  BY <1>7, <1>c, <1>d DEF Claim, Drives, Counts, world, notes, Touches, H, MayClaim, MayConnect,
     MayRelease
<1>8. ASSUME NEW i \in Interfaces, Release(t, i)
      PROVE  Touches(t)
  BY <1>8, <1>c, <1>d DEF Release, Drives, CountsNoMore, Take, Goto, About, At, MayBegin, world,
     notes, Touches, H, MayClaim, MayConnect, MayRelease
<1>9. ASSUME NEW i \in Interfaces, LookWhoDrives(t, i)
      PROVE  Touches(t)
  BY <1>9, <1>c, <1>d DEF LookWhoDrives, Goto, About, MayBegin, At, world, notes, Touches, H,
     MayClaim, MayConnect, MayRelease
<1>10. ASSUME NEW i \in Interfaces, Attach(t, i)
      PROVE  Touches(t)
  BY <1>10, <1>c, <1>d DEF Attach, Connects, Drives, world, notes, Touches, H, MayClaim,
     MayConnect, MayRelease
<1>11. ASSUME NEW i \in Interfaces, BeginSet(t, i)
      PROVE  Touches(t)
  BY <1>11, <1>c, <1>d DEF BeginSet, Goto, About, MayBegin, At, world, notes, Touches, H,
     MayClaim, MayConnect, MayRelease
<1>12. CASE Detaches(t)
  BY <1>12, <1>c, <1>d DEF Detaches, Drives, Goto, At, world, notes, Touches, H, MayClaim,
     MayConnect, MayRelease
<1>13. CASE AllGone(t)
  BY <1>13, <1>c, <1>d DEF AllGone, Goto, About, At, world, notes, Touches, H, MayClaim,
     MayConnect, MayRelease
<1>14. CASE AllBack(t)
  BY <1>14, <1>c, <1>d DEF AllBack, Goto, About, Ret, Drop, At, world, Touches, H, MayClaim,
     MayConnect, MayRelease
<1>15. CASE AttachAgain(t)
  BY <1>15, <1>c, <1>d DEF AttachAgain, Connects, Drives, Goto, About, Drop, At, world, notes,
     Touches, H, MayClaim, MayConnect, MayRelease
<1>16. CASE Detach(t)
  BY <1>16, <1>c, <1>d DEF Detach, Goto, About, At, Drives, world, notes, Touches, H, MayClaim,
     MayConnect, MayRelease
<1>17. CASE Set(t)
  BY <1>17, <1>c, <1>d DEF Set, Goto, About, At, Drives, world, notes, Touches, H, MayClaim,
     MayConnect, MayRelease
<1>18. CASE SetConfiguration(t)
  BY <1>18, <1>c, <1>d DEF SetConfiguration, world, notes, Touches, H, MayClaim, MayConnect,
     MayRelease
<1>19. CASE BeginReset(t)
  BY <1>19, <1>c, <1>d DEF BeginReset, Goto, MayBegin, At, world, Touches, H, MayClaim,
     MayConnect, MayRelease
<1>20. CASE Reset(t)
  BY <1>20, <1>c, <1>d DEF Reset, Take, Goto, At, world, notes, Touches, H, MayClaim, MayConnect,
     MayRelease
<1>21. CASE ResetFails(t)
  BY <1>21, <1>c, <1>d DEF ResetFails, Goto, At, world, Touches, H, MayClaim, MayConnect, MayRelease
<1> QED
  BY StepsOfThreads, <1>1, <1>2, <1>3, <1>4, <1>5, <1>6, <1>7, <1>8, <1>9, <1>10, <1>11, <1>12,
     <1>13, <1>14, <1>15, <1>16, <1>17, <1>18, <1>19, <1>20, <1>21

Sees(t) == pc'[t] \in {"detach", "detach_to_claim"} => driver'[at'[t]] \notin Handles

\* Who is about to detach has just seen that no handle has the interface.
LEMMA StepsSee ==
  ASSUME TypeOK, PlaceInv, NEW t \in Threads, Step(t)
  PROVE  Sees(t)
<1>d. pc \in [Threads -> Holding \cup {"idle", "set", "detach", "let_go", "reset"}]
      /\ at \in [Threads -> 0 .. MaxInterface + 1]
  BY DEF TypeOK
<1>1. ASSUME NEW i \in Interfaces, Gains(t, i)
      PROVE  Sees(t)
  BY <1>1, <1>d DEF Gains, Drives, Counts, Goto, About, Drop, Sees
<1>2. ASSUME NEW i \in Interfaces, Misses(t, i)
      PROVE  Sees(t)
  BY <1>2, <1>d DEF Misses, Goto, About, Drop, Sees
<1>3. ASSUME NEW i \in Interfaces, Regains(t, i)
      PROVE  Sees(t)
  BY <1>3, <1>d DEF Regains, Drives, Goto, About, Sees
<1>4. ASSUME NEW i \in Interfaces, Loses(t, i)
      PROVE  Sees(t)
  BY <1>4, <1>d DEF Loses, CountsNoMore, Ret, Goto, About, Sees
<1>5. ASSUME NEW i \in Interfaces, Looks(t, i)
      PROVE  Sees(t)
  BY <1>5, <1>d DEF Looks, LookToDetach, Take, Goto, About, At, world, notes, Sees
<1>6. ASSUME NEW i \in Interfaces, LetsGo(t, i)
      PROVE  Sees(t)
  BY <1>6, <1>d DEF LetsGo, Goto, About, At, Drives, world, notes, Sees
<1>7. ASSUME NEW i \in Interfaces, Claim(t, i)
      PROVE  Sees(t)
  BY <1>7, <1>d DEF Claim, Drives, Counts, world, notes, Sees, MayBegin, At
<1>8. ASSUME NEW i \in Interfaces, Release(t, i)
      PROVE  Sees(t)
  BY <1>8, <1>d DEF Release, Drives, CountsNoMore, Take, Goto, About, At, MayBegin, world, notes,
     Sees
<1>9. ASSUME NEW i \in Interfaces, LookWhoDrives(t, i)
      PROVE  Sees(t)
  BY <1>9, <1>d DEF LookWhoDrives, Goto, About, MayBegin, At, world, notes, Sees
<1>10. ASSUME NEW i \in Interfaces, Attach(t, i)
      PROVE  Sees(t)
  BY <1>10, <1>d DEF Attach, Connects, Drives, world, notes, Sees, MayBegin, At
<1>11. ASSUME NEW i \in Interfaces, BeginSet(t, i)
      PROVE  Sees(t)
  BY <1>11, <1>d DEF BeginSet, Goto, About, MayBegin, At, world, notes, Sees
<1>12. CASE Detaches(t)
  BY <1>12, <1>d DEF Detaches, Drives, Goto, At, world, notes, Sees
<1>13. CASE AllGone(t)
  BY <1>13, <1>d DEF AllGone, Goto, About, At, world, notes, Sees
<1>14. CASE AllBack(t)
  BY <1>14, <1>d DEF AllBack, Goto, About, Ret, Drop, At, world, Sees
<1>15. CASE AttachAgain(t)
  BY <1>15, <1>d DEF AttachAgain, Connects, Drives, Goto, About, Drop, At, world, notes, Sees
<1>16. CASE Detach(t)
  BY <1>16, <1>d DEF Detach, Goto, About, At, Drives, world, notes, Sees
<1>17. CASE Set(t)
  BY <1>17, <1>d DEF Set, Goto, About, At, Drives, world, notes, Sees
<1>18. CASE SetConfiguration(t)
  BY <1>18, <1>d DEF SetConfiguration, world, notes, Sees, MayBegin, At
<1>19. CASE BeginReset(t)
  BY <1>19, <1>d DEF BeginReset, Goto, MayBegin, At, world, Sees
<1>20. CASE Reset(t)
  BY <1>20, <1>d DEF Reset, Take, Goto, At, world, notes, Sees
<1>21. CASE ResetFails(t)
  BY <1>21, <1>d DEF ResetFails, Goto, At, world, Sees
<1> QED
  BY StepsOfThreads, <1>1, <1>2, <1>3, <1>4, <1>5, <1>6, <1>7, <1>8, <1>9, <1>10, <1>11, <1>12,
     <1>13, <1>14, <1>15, <1>16, <1>17, <1>18, <1>19, <1>20, <1>21

\* What has been seen of an interface stays so: the step of another finds nobody that has looked.
LEMMA SeenNext ==
  ASSUME TypeOK, PlaceInv, AloneInv, SeenInv, ~DetachOverlaps, ~CallsOverlap, [Next]_vars
  PROVE  SeenInv'
<1>1. CASE WorldStep
  BY <1>1, WorldKeeps DEF SeenInv, PlaceInv, Claiming
<1>2. ASSUME NEW t \in Threads, Step(t)
      PROVE  SeenInv'
  <2>1. \A u \in Threads \ {t} : pc'[u] \notin {"detach", "detach_to_claim"}
    BY <1>2, OthersKeep, StepsApart, SeenLooked DEF Keeps, Apart
  <2>2. pc'[t] \in {"detach", "detach_to_claim"} => driver'[at'[t]] \notin Handles
    BY <1>2, StepsSee DEF Sees
  <2> QED
    BY <2>1, <2>2 DEF SeenInv
<1> QED
  BY <1>1, <1>2 DEF Next, WorldStep

\* The masks of the calls in progress: no other call changes them.
Masks(u) ==
  /\ pc[u] = "set" => Has(H(u), at[u])
  /\ Resetting(u) => /\ claimed[H(u)] \subseteq before[u]
                     /\ ret[u] = "ok" => claimed[H(u)] = before[u]
                     /\ pc[u] \in Claiming => Has(H(u), at[u])

\* A step of a thread leaves its mask as its call needs it.
LEMMA StepsMask ==
  ASSUME TypeOK, PlaceInv, MaskInv, NEW t \in Threads, Step(t)
  PROVE  Masks(t)'
<1>c. H(t) \in Handles /\ (pc[t] = "idle" => ~Resetting(t)) /\ (pc[t] \in {"let_go", "reset"} => ret[t] = "ok")
  BY Constants DEF PlaceInv
<1>p. pc[t] = "idle" => before[t] = {}
  BY DEF PlaceInv, Resetting
<1>d. /\ pc \in [Threads -> Holding \cup {"idle", "set", "detach", "let_go", "reset"}]
      /\ at \in [Threads -> 0 .. MaxInterface + 1] /\ ret \in [Threads -> {"ok", "NOT_FOUND"}]
      /\ claimed \in [Handles -> SUBSET Interfaces] /\ before \in [Threads -> SUBSET Interfaces]
  BY DEF TypeOK
<1>m. Masks(t)
  BY DEF MaskInv, Masks
<1>1. ASSUME NEW i \in Interfaces, Gains(t, i)
      PROVE  Masks(t)'
  BY <1>1, <1>c, <1>d, <1>m DEF Gains, Drives, Counts, Goto, About, Drop, Masks, Resetting,
     Claiming, H, Has
<1>2. ASSUME NEW i \in Interfaces, Misses(t, i)
      PROVE  Masks(t)'
  BY <1>2, <1>c, <1>d, <1>m DEF Misses, Goto, About, Drop, Masks, Resetting, Claiming, H, Has
<1>3. ASSUME NEW i \in Interfaces, Regains(t, i)
      PROVE  Masks(t)'
  BY <1>3, <1>c, <1>d, <1>m DEF Regains, Drives, Goto, About, Masks, Resetting, Claiming, H, Has
<1>4. ASSUME NEW i \in Interfaces, Loses(t, i)
      PROVE  Masks(t)'
  BY <1>4, <1>c, <1>d, <1>m DEF Loses, CountsNoMore, Ret, Goto, About, Masks, Resetting, Claiming,
     H, Has
<1>5. ASSUME NEW i \in Interfaces, Looks(t, i)
      PROVE  Masks(t)'
  BY <1>5, <1>c, <1>d, <1>m, <1>p DEF Looks, LookToDetach, Take, Goto, About, At, world, notes,
     Masks, Resetting, Claiming, H, Has, MayBegin, IsNext, Of
<1>6. ASSUME NEW i \in Interfaces, LetsGo(t, i)
      PROVE  Masks(t)'
  BY <1>6, <1>c, <1>d, <1>m DEF LetsGo, Goto, About, At, Drives, world, notes, Masks, Resetting,
     Claiming, H, Has
<1>7. ASSUME NEW i \in Interfaces, Claim(t, i)
      PROVE  Masks(t)'
  BY <1>7, <1>c, <1>d, <1>m, <1>p DEF Claim, Drives, Counts, world, notes, Masks, Resetting,
     Claiming, H, Has, MayBegin, At
<1>8. ASSUME NEW i \in Interfaces, Release(t, i)
      PROVE  Masks(t)'
  BY <1>8, <1>c, <1>d, <1>m, <1>p DEF Release, Drives, CountsNoMore, Take, Goto, About, At,
     MayBegin, world, notes, Masks, Resetting, Claiming, H, Has
<1>9. ASSUME NEW i \in Interfaces, LookWhoDrives(t, i)
      PROVE  Masks(t)'
  BY <1>9, <1>c, <1>d, <1>m DEF LookWhoDrives, Goto, About, MayBegin, At, world, notes, Masks,
     Resetting, Claiming, H, Has
<1>10. ASSUME NEW i \in Interfaces, Attach(t, i)
      PROVE  Masks(t)'
  BY <1>10, <1>c, <1>d, <1>m, <1>p DEF Attach, Connects, Drives, world, notes, Masks, Resetting,
     Claiming, H, Has, MayBegin, At
<1>11. ASSUME NEW i \in Interfaces, BeginSet(t, i)
      PROVE  Masks(t)'
  BY <1>11, <1>c, <1>d, <1>m DEF BeginSet, Goto, About, MayBegin, At, world, notes, Masks,
     Resetting, Claiming, H, Has
<1>12. CASE Detaches(t)
  BY <1>12, <1>c, <1>d, <1>m DEF Detaches, Drives, Goto, At, world, notes, Masks, Resetting,
     Claiming, H, Has
<1>13. CASE AllGone(t)
  BY <1>13, <1>c, <1>d, <1>m DEF AllGone, Goto, About, At, world, notes, Masks, Resetting,
     Claiming, H, Has
<1>14. CASE AllBack(t)
  BY <1>14, <1>c, <1>d, <1>m DEF AllBack, Goto, About, Ret, Drop, At, world, Masks, Resetting,
     Claiming, H, Has
<1>15. CASE AttachAgain(t)
  BY <1>15, <1>c, <1>d, <1>m DEF AttachAgain, Connects, Drives, Goto, About, Drop, At, world,
     notes, Masks, Resetting, Claiming, H, Has
<1>16. CASE Detach(t)
  BY <1>16, <1>c, <1>d, <1>m DEF Detach, Goto, About, At, Drives, world, notes, Masks, Resetting,
     Claiming, H, Has
<1>17. CASE Set(t)
  BY <1>17, <1>c, <1>d, <1>m DEF Set, Goto, About, At, Drives, world, notes, Masks, Resetting,
     Claiming, H, Has
<1>18. CASE SetConfiguration(t)
  BY <1>18, <1>c, <1>d, <1>m, <1>p DEF SetConfiguration, world, notes, Masks, Resetting, Claiming,
     H, Has, MayBegin, At
<1>19. CASE BeginReset(t)
  BY <1>19, <1>c, <1>d, <1>m DEF BeginReset, Goto, MayBegin, At, world, Masks, Resetting,
     Claiming, H, Has
<1>20. CASE Reset(t)
  BY <1>20, <1>c, <1>d, <1>m DEF Reset, Take, Goto, At, world, notes, Masks, Resetting, Claiming,
     H, Has
<1>21. CASE ResetFails(t)
  BY <1>21, <1>c, <1>d, <1>m DEF ResetFails, Goto, At, world, Masks, Resetting, Claiming, H, Has
<1> QED
  BY StepsOfThreads, <1>1, <1>2, <1>3, <1>4, <1>5, <1>6, <1>7, <1>8, <1>9, <1>10, <1>11, <1>12,
     <1>13, <1>14, <1>15, <1>16, <1>17, <1>18, <1>19, <1>20, <1>21

\* Every step leaves the masks of the calls in progress alone.
LEMMA MaskNext ==
  ASSUME TypeOK, PlaceInv, AloneInv, MaskInv, ~DetachOverlaps, ~CallsOverlap, [Next]_vars
  PROVE  MaskInv'
<1>1. CASE WorldStep
  BY <1>1, WorldKeeps DEF MaskInv, PlaceInv, Resetting, Has, Claiming
<1>2. ASSUME NEW t \in Threads, Step(t)
      PROVE  MaskInv'
  <2>1. \A u \in Threads \ {t} : Masks(u)'
    <3> SUFFICES ASSUME NEW u \in Threads \ {t} PROVE Masks(u)'
      OBVIOUS
    <3>1. /\ Masks(u) /\ (H(u) = H(t) => ~WantsHandle(u)) /\ H(u) \in Handles
          /\ pc'[u] = pc[u] /\ at'[u] = at[u] /\ ret'[u] = ret[u] /\ before'[u] = before[u]
          /\ H(u) # H(t) => claimed'[H(u)] = claimed[H(u)]
      BY <1>2, OthersKeep, StepsApart, Constants DEF Keeps, Apart, MaskInv, Masks
    <3> QED
      BY <3>1 DEF Masks, Has, Resetting, WantsHandle
  <2>2. Masks(t)'
    BY <1>2, StepsMask
  <2> QED
    BY <2>1, <2>2 DEF MaskInv, Masks
<1> QED
  BY <1>1, <1>2 DEF Next, WorldStep
(* What the kernel has claimed, and the drivers that are to come back.  Of a step    *)
(* these facts are used: what the handle of its thread has, and where its reset is.  *)
Own(t) ==
  /\ t \in Threads /\ H(t) \in Handles /\ None # Driver
  /\ None \notin Handles /\ Driver \notin Handles /\ Native \subseteq Interfaces
  /\ \A i \in Interfaces : i \in Nat /\ i + 1 \in Nat
  /\ driver \in [Interfaces -> {None, Driver} \cup Handles] /\ claimed \in [Handles -> SUBSET Interfaces]
  /\ adrift \in [Handles -> SUBSET Interfaces] /\ before \in [Threads -> SUBSET Interfaces]
  /\ pc \in [Threads -> Holding \cup {"idle", "set", "detach", "let_go", "reset"}]
  /\ at \in [Threads -> 0 .. MaxInterface + 1] /\ at[t] \in Nat
Placed(t) ==
  /\ pc[t] = "idle" => at[t] = 0
  /\ pc[t] \in {"let_go", "reset", "claim_again"} => Resetting(t)
  /\ pc[t] \in {"idle", "set", "detach", "attach_again"} => ~Resetting(t)
  /\ pc[t] = "reset" => at[t] = 0
  /\ pc[t] \in {"set", "detach", "attach_again"} \cup Claiming => at[t] \in Interfaces
HeldRightly(t) ==
  /\ \A j \in Interfaces : driver[j] = H(t) => Has(H(t), j)
  /\ ~Resetting(t) /\ BetweenResets(H(t)) =>
       \A j \in Interfaces : Has(H(t), j) /\ j \notin adrift[H(t)] => driver[j] = H(t)
  /\ pc[t] = "set" => Has(H(t), at[t])
  /\ Resetting(t) /\ pc[t] \in Claiming => Has(H(t), at[t])
Reached(t) ==
  Resetting(t) => \A j \in Interfaces :
    /\ pc[t] = "let_go" /\ j < at[t] => driver[j] # H(t)
    /\ pc[t] = "reset" => driver[j] # H(t)
    /\ pc[t] \in Claiming \cup {"claim_again"} /\ at[t] <= j => driver[j] # H(t)
    /\ pc[t] \in Claiming \cup {"claim_again"} /\ j < at[t] /\ Has(H(t), j) => driver[j] = H(t)
\* The part of ResetInv about one thread.
Reaches(t) ==
  Resetting(t) => \A i \in Interfaces :
    /\ pc[t] = "let_go" /\ i < at[t] => driver[i] # H(t)
    /\ pc[t] = "reset" => driver[i] # H(t)
    /\ pc[t] \in Claiming \cup {"claim_again"} =>
         IF i < at[t] THEN Has(H(t), i) => driver[i] = H(t) ELSE driver[i] # H(t)

\* The invariants, about the handle of one thread.
LEMMA OwnFacts ==
  ASSUME ClaimsInv, plugged, NEW t \in Threads
  PROVE  Own(t) /\ Placed(t) /\ HeldRightly(t) /\ Reached(t)
<1>1. Own(t)
  <2>1. at[t] \in Nat
    <3>1. at[t] \in 0 .. MaxInterface + 1 /\ MaxInterface \in Nat
      BY UsbInterfacesAssumption DEF ClaimsInv, PlacesInv, TypeOK
    <3> QED
      BY <3>1
  <2>2. \A i \in Interfaces : i \in Nat /\ i + 1 \in Nat
    BY Constants
  <2> QED
    BY <2>1, <2>2, Constants DEF ClaimsInv, PlacesInv, TypeOK, Own
<1>2. Placed(t)
  BY DEF ClaimsInv, PlacesInv, PlaceInv, Placed
<1>3. HeldRightly(t)
  <2>1. /\ HeldBy(H(t)) \subseteq claimed[H(t)]
        /\ BetweenResets(H(t)) => claimed[H(t)] \ adrift[H(t)] \subseteq HeldBy(H(t))
    BY Constants DEF ClaimsInv, HeldInv
  <2>2. /\ pc[t] = "set" => Has(H(t), at[t])
        /\ Resetting(t) /\ pc[t] \in Claiming => Has(H(t), at[t])
    BY DEF ClaimsInv, MaskInv
  <2> QED
    BY <2>1, <2>2 DEF HeldRightly, HeldBy, Has
<1>4. Reached(t)
  <2>1. at[t] \in Nat /\ \A j \in Interfaces : j \in Nat
    BY <1>1 DEF Own
  <2> QED
    BY <2>1 DEF ClaimsInv, ResetInv, Reached
<1> QED
  BY <1>1, <1>2, <1>3, <1>4

\* What a reset gets to next is claimed; what it passes over is not.
LEMMA NextOne ==
  ASSUME NEW t \in Threads, Own(t), NEW i \in Interfaces, IsNext(H(t), at[t], i)
  PROVE  /\ Has(H(t), i) /\ at[t] <= i
         /\ \A j \in Interfaces : at[t] <= j /\ j < i => ~Has(H(t), j)
<1>1. at[t] \in Nat /\ i \in Nat /\ \A j \in Interfaces : j \in Nat
  BY DEF Own
<1> QED
  BY <1>1 DEF IsNext, Has

\* How far the reset of a thread has come, after a step of its own.
LEMMA StepsReach ==
  ASSUME ClaimsInv, plugged, NEW t \in Threads, Step(t)
  PROVE  Reached(t)'
<1>a. TypeOK /\ PlaceInv
  BY DEF ClaimsInv, PlacesInv
<1>o. Own(t) /\ Placed(t) /\ HeldRightly(t) /\ Reached(t)
  BY OwnFacts
<1>1. ASSUME NEW i \in Interfaces, Gains(t, i)
      PROVE  Reached(t)'
  BY <1>1, <1>o DEF Gains, Drives, Counts, Goto, About, Drop, Reached, Own, H, Has, Resetting,
     Claiming, IsNext
<1>2. ASSUME NEW i \in Interfaces, Misses(t, i)
      PROVE  Reached(t)'
  BY <1>2, <1>o DEF Misses, Goto, About, Drop, Reached, Own, H, Has, Resetting, Claiming, IsNext
<1>3. ASSUME NEW i \in Interfaces, Regains(t, i)
      PROVE  Reached(t)'
  <2>o. Own(t) /\ Placed(t) /\ HeldRightly(t) /\ Reached(t)
    BY <1>o
  <2>1. pc'[t] = "claim_again" /\ at'[t] = i + 1 /\ claimed' = claimed /\ before' = before
    BY <1>3, NextOne, <2>o DEF Regains, Goto, About, Drives, Claiming, Own
  <2>2. \A j \in Interfaces : driver'[j] = IF j = i THEN H(t) ELSE driver[j]
    BY <1>3, NextOne, <2>o DEF Regains, Goto, About, Drives, Claiming, Own
  <2>3. i \in Interfaces /\ at[t] <= i /\ Resetting(t) /\ pc[t] \in {"claim_again"} \cup Claiming
    BY <1>3, NextOne, <2>o DEF Regains, Goto, About, Drives, Claiming, Own
  <2>4. \A j \in Interfaces : at[t] <= j /\ j < i => ~Has(H(t), j)
    BY <1>3, NextOne, <2>o DEF Regains, Goto, About, Drives, Claiming, Own
  <2>n. None # H(t) /\ at[t] \in Nat /\ \A j \in Interfaces : j \in Nat
    BY <2>o DEF Own
  <2>h. HeldRightly(t) /\ Placed(t) /\ Reached(t)
    BY <2>o
  <2> QED
    BY <2>n, <2>h, <2>1, <2>2, <2>3, <2>4 DEF Reached, HeldRightly, Placed, Has, Resetting,
       Claiming, H
<1>4. ASSUME NEW i \in Interfaces, Loses(t, i)
      PROVE  Reached(t)'
  <2>o. Own(t) /\ Placed(t) /\ HeldRightly(t) /\ Reached(t)
    BY <1>o
  <2>1. pc'[t] = "claim_again" /\ at'[t] = i + 1 /\ before' = before /\ driver' = driver
    BY <1>4, NextOne, <2>o DEF Loses, Goto, About, CountsNoMore, Claiming, Own
  <2>2. claimed'[H(t)] = claimed[H(t)] \ {i}
    BY <1>4, NextOne, <2>o DEF Loses, Goto, About, CountsNoMore, Claiming, Own
  <2>3. i \in Interfaces /\ at[t] <= i /\ Resetting(t) /\ pc[t] \in {"claim_again"} \cup Claiming
    BY <1>4, NextOne, <2>o DEF Loses, Goto, About, CountsNoMore, Claiming, Own
  <2>4. \A j \in Interfaces : at[t] <= j /\ j < i => ~Has(H(t), j)
    BY <1>4, NextOne, <2>o DEF Loses, Goto, About, CountsNoMore, Claiming, Own
  <2>n. None # H(t) /\ at[t] \in Nat /\ \A j \in Interfaces : j \in Nat
    BY <2>o DEF Own
  <2>h. HeldRightly(t) /\ Placed(t) /\ Reached(t)
    BY <2>o
  <2> QED
    BY <2>n, <2>h, <2>1, <2>2, <2>3, <2>4 DEF Reached, HeldRightly, Placed, Has, Resetting,
       Claiming, H
<1>5. ASSUME NEW i \in Interfaces, Looks(t, i)
      PROVE  Reached(t)'
  <2>o. Own(t) /\ Placed(t) /\ HeldRightly(t) /\ Reached(t)
    BY <1>o
  <2>1. pc'[t] \in Claiming /\ at'[t] = i /\ before' = before /\ driver' = driver /\ claimed' = claimed
    BY <1>5, NextOne, <2>o DEF Looks, LookToDetach, Goto, About, Claiming, notes, Placed, Own
  <2>2. i \in Interfaces /\ (pc[t] = "claim_again" \/ ~Resetting(t))
    BY <1>5, NextOne, <2>o DEF Looks, LookToDetach, Goto, About, Claiming, notes, Placed, Own
  <2>3. pc[t] = "claim_again" => at[t] <= i /\ \A j \in Interfaces : at[t] <= j /\ j < i => ~Has(H(t), j)
    BY <1>5, NextOne, <2>o DEF Looks, LookToDetach, Goto, About, Claiming, notes, Placed, Own
  <2>n. None # H(t) /\ at[t] \in Nat /\ \A j \in Interfaces : j \in Nat
    BY <2>o DEF Own
  <2>h. HeldRightly(t) /\ Placed(t) /\ Reached(t)
    BY <2>o
  <2> QED
    BY <2>n, <2>h, <2>1, <2>2, <2>3 DEF Reached, HeldRightly, Placed, Has, Resetting, Claiming, H
<1>6. ASSUME NEW i \in Interfaces, LetsGo(t, i)
      PROVE  Reached(t)'
  <2>o. Own(t) /\ Placed(t) /\ HeldRightly(t) /\ Reached(t)
    BY <1>o
  <2>1. pc[t] = "let_go" /\ pc'[t] = "let_go" /\ at'[t] = i + 1 /\ before' = before /\ claimed' = claimed
    BY <1>6, NextOne, <2>o DEF LetsGo, MayRelease, Drives, At, About, notes, Own
  <2>2. \A j \in Interfaces : driver'[j] = driver[j] \/ driver'[j] = None
    BY <1>6, NextOne, <2>o DEF LetsGo, MayRelease, Drives, At, About, notes, Own
  <2>3. driver'[i] # H(t)
    BY <1>6, NextOne, <2>o DEF LetsGo, MayRelease, Drives, At, About, notes, Own
  <2>4. i \in Interfaces /\ at[t] <= i
    BY <1>6, NextOne, <2>o DEF LetsGo, MayRelease, Drives, At, About, notes, Own
  <2>5. \A j \in Interfaces : at[t] <= j /\ j < i => ~Has(H(t), j)
    BY <1>6, NextOne, <2>o DEF LetsGo, MayRelease, Drives, At, About, notes, Own
  <2>n. None # H(t) /\ at[t] \in Nat /\ \A j \in Interfaces : j \in Nat
    BY <2>o DEF Own
  <2>h. HeldRightly(t) /\ Placed(t) /\ Reached(t)
    BY <2>o
  <2> QED
    BY <2>n, <2>h, <2>1, <2>2, <2>3, <2>4, <2>5 DEF Reached, HeldRightly, Placed, Has, Resetting,
       Claiming, H
<1>7. ASSUME NEW i \in Interfaces, Claim(t, i)
      PROVE  Reached(t)'
  BY <1>7, <1>o DEF Claim, Drives, Counts, world, notes, Reached, Own, H, Has, Resetting,
     Claiming, IsNext, Placed, MayBegin, At
<1>8. ASSUME NEW i \in Interfaces, Release(t, i)
      PROVE  Reached(t)'
  BY <1>8, <1>o DEF Release, Drives, CountsNoMore, Take, Goto, About, At, MayBegin, world, notes,
     Reached, Own, H, Has, Resetting, Claiming, IsNext, Placed
<1>9. ASSUME NEW i \in Interfaces, LookWhoDrives(t, i)
      PROVE  Reached(t)'
  BY <1>9, <1>o DEF LookWhoDrives, Goto, About, MayBegin, At, world, notes, Reached, Own, H, Has,
     Resetting, Claiming, IsNext
<1>10. ASSUME NEW i \in Interfaces, Attach(t, i)
      PROVE  Reached(t)'
  BY <1>10, <1>o DEF Attach, Connects, Drives, world, notes, Reached, Own, H, Has, Resetting,
     Claiming, IsNext, Placed, MayBegin, At
<1>11. ASSUME NEW i \in Interfaces, BeginSet(t, i)
      PROVE  Reached(t)'
  BY <1>11, <1>o DEF BeginSet, Goto, About, MayBegin, At, world, notes, Reached, Own, H, Has,
     Resetting, Claiming, IsNext
<1>12. CASE Detaches(t)
  <2>o. Own(t) /\ Placed(t) /\ HeldRightly(t) /\ Reached(t)
    BY <1>o
  <2>1. pc[t] = "detach_to_claim" /\ pc'[t] = "claim_at_last" /\ at' = at /\ before' = before /\ claimed' = claimed
    BY <1>12, NextOne, <2>o DEF Detaches, Drives, At, Goto, notes, Own
  <2>2. \A j \in Interfaces : driver'[j] = IF j = at[t] THEN None ELSE driver[j]
    BY <1>12, NextOne, <2>o DEF Detaches, Drives, At, Goto, notes, Own
  <2>n. None # H(t) /\ at[t] \in Nat /\ \A j \in Interfaces : j \in Nat
    BY <2>o DEF Own
  <2>h. HeldRightly(t) /\ Placed(t) /\ Reached(t)
    BY <2>o
  <2> QED
    BY <2>n, <2>h, <2>1, <2>2 DEF Reached, HeldRightly, Placed, Has, Resetting, Claiming, H
<1>13. CASE AllGone(t)
  <2>o. Own(t) /\ Placed(t) /\ HeldRightly(t) /\ Reached(t)
    BY <1>o
  <2>1. pc[t] = "let_go" /\ pc'[t] = "reset" /\ driver' = driver
    BY <1>13, NextOne, <2>o DEF AllGone, At, Goto, Has, Own
  <2>2. \A j \in Interfaces : Has(H(t), j) => j < at[t]
    BY <1>13, NextOne, <2>o DEF AllGone, At, Goto, Has, Own
  <2>n. None # H(t) /\ at[t] \in Nat /\ \A j \in Interfaces : j \in Nat
    BY <2>o DEF Own
  <2>h. HeldRightly(t) /\ Placed(t) /\ Reached(t)
    BY <2>o
  <2> QED
    BY <2>n, <2>h, <2>1, <2>2 DEF Reached, HeldRightly, Placed, Has, Resetting, Claiming, H
<1>14. CASE AllBack(t)
  BY <1>14, <1>o DEF AllBack, Goto, About, Ret, Drop, At, world, Reached, Own, H, Has, Resetting,
     Claiming, IsNext
<1>15. CASE AttachAgain(t)
  BY <1>15, <1>o DEF AttachAgain, Connects, Drives, Goto, About, Drop, At, world, notes, Reached,
     Own, H, Has, Resetting, Claiming, IsNext
<1>16. CASE Detach(t)
  BY <1>16, <1>o DEF Detach, Goto, About, At, Drives, world, notes, Reached, Own, H, Has,
     Resetting, Claiming, IsNext
<1>17. CASE Set(t)
  BY <1>17, <1>o DEF Set, Goto, About, At, Drives, world, notes, Reached, Own, H, Has, Resetting,
     Claiming, IsNext
<1>18. CASE SetConfiguration(t)
  BY <1>18, <1>o DEF SetConfiguration, world, notes, Reached, Own, H, Has, Resetting, Claiming,
     IsNext, Placed, MayBegin, At
<1>19. CASE BeginReset(t)
  <2>o. Own(t) /\ Placed(t) /\ HeldRightly(t) /\ Reached(t)
    BY <1>o
  <2>1. pc'[t] = "let_go" /\ at'[t] = 0
    BY <1>19, NextOne, <2>o DEF BeginReset, MayBegin, At, Goto, Placed, Own
  <2>n. None # H(t) /\ at[t] \in Nat /\ \A j \in Interfaces : j \in Nat
    BY <2>o DEF Own
  <2>h. HeldRightly(t) /\ Placed(t) /\ Reached(t)
    BY <2>o
  <2> QED
    BY <2>n, <2>h, <2>1 DEF Reached, HeldRightly, Placed, Has, Resetting, Claiming, H
<1>20. CASE Reset(t)
  <2>o. Own(t) /\ Placed(t) /\ HeldRightly(t) /\ Reached(t)
    BY <1>o
  <2>1. pc[t] = "reset" /\ pc'[t] = "claim_again" /\ at'[t] = 0 /\ driver' = driver /\ before' = before
    BY <1>20, NextOne, <2>o DEF Reset, At, Goto, notes, Placed, Own
  <2>n. None # H(t) /\ at[t] \in Nat /\ \A j \in Interfaces : j \in Nat
    BY <2>o DEF Own
  <2>h. HeldRightly(t) /\ Placed(t) /\ Reached(t)
    BY <2>o
  <2> QED
    BY <2>n, <2>h, <2>1 DEF Reached, HeldRightly, Placed, Has, Resetting, Claiming, H
<1>21. CASE ResetFails(t)
  BY <1>21, <1>o DEF ResetFails, Goto, At, world, Reached, Own, H, Has, Resetting, Claiming, IsNext
<1> QED
  BY <1>a, StepsOfThreads, <1>1, <1>2, <1>3, <1>4, <1>5, <1>6, <1>7, <1>8, <1>9, <1>10, <1>11,
     <1>12, <1>13, <1>14, <1>15, <1>16, <1>17, <1>18, <1>19, <1>20, <1>21
\* The next of these invariants, from what a step does with the handle of its thread and
\* leaves to the others.
LEMMA ResetNext ==
  ASSUME ClaimsInv, ~DetachOverlaps, ~CallsOverlap, [Next]_vars
  PROVE  ResetInv'
<1> SUFFICES ASSUME plugged' PROVE \A u \in Threads : Reached(u)'
  <2>1. \A u \in Threads : Reached(u)' => Reaches(u)'
    <3>1. \A u \in Threads : (at[u] \in Nat)'
      BY TypeNext, UsbInterfacesAssumption DEF ClaimsInv, PlacesInv, TypeOK
    <3>2. \A j \in Interfaces : j \in Nat
      BY Constants
    <3> QED
      BY <3>1, <3>2 DEF Reached, Reaches, H, Has, Resetting, Claiming
  <2> QED
    BY <2>1 DEF ResetInv, Reaches
<1>a. TypeOK /\ PlaceInv /\ AloneInv /\ SeenInv
  BY DEF ClaimsInv, PlacesInv
<1>1. CASE WorldStep
  <2>1. plugged
    BY <1>1 DEF WorldStep, Unplug, Load, SetAuto, Reopen, world, vars
  <2>2. \A u \in Threads : Reached(u) /\ Placed(u) /\ Own(u)
    BY <2>1, OwnFacts
  <2>3. /\ pc' = pc /\ at' = at /\ before' = before
        /\ \A u \in Threads : claimed'[H(u)] = claimed[H(u)] \/ pc[u] = "idle"
    BY <1>a, <1>1, WorldKeeps
  <2>4. \A u \in Threads : pc[u] # "idle" => \A j \in Interfaces : driver'[j] = H(u) <=> driver[j] = H(u)
    <3>1. ASSUME NEW h \in Handles, Reopen(h)
          PROVE  \A u \in Threads : pc[u] # "idle" => \A j \in Interfaces : driver'[j] = H(u) <=> driver[j] = H(u)
      <4>1. \A u \in Threads : pc[u] # "idle" => H(u) # h /\ H(u) # None
        BY <3>1, Constants DEF Reopen, Of, At, H
      <4>2. \A j \in Interfaces : driver'[j] = IF driver[j] = h THEN None ELSE driver[j]
        BY <3>1 DEF Reopen
      <4> QED
        BY <4>1, <4>2
    <3>2. ASSUME NEW i \in Interfaces, Load(i)
          PROVE  \A u \in Threads, j \in Interfaces : driver'[j] = H(u) <=> driver[j] = H(u)
      BY <3>2, <1>a, Constants DEF Load, Drives, TypeOK
    <3>3. UNCHANGED vars => driver' = driver
      BY DEF vars
    <3>4. \A h \in Handles : SetAuto(h) => driver' = driver
      BY DEF SetAuto
    <3>5. ~Unplug
      BY DEF Unplug
    <3> QED
      BY <1>1, <3>1, <3>2, <3>3, <3>4, <3>5 DEF WorldStep
  <2>5. \A u \in Threads : Resetting(u) => pc[u] # "idle"
    BY <2>2 DEF Placed
  <2> QED
    BY <2>2, <2>3, <2>4, <2>5 DEF Reached, Has, Resetting, H
<1>2. ASSUME NEW t \in Threads, Step(t)
      PROVE  \A u \in Threads : Reached(u)'
  <2>1. plugged /\ Keeps(t) /\ Apart(t) /\ Touches(t)
    BY <1>2, <1>a, OthersKeep, StepsApart, StepsTouch DEF Keeps
  <2>2. Reached(t)'
    BY <1>2, <2>1, StepsReach
  <2>3. ASSUME NEW u \in Threads \ {t}
        PROVE  Reached(u)'
    <3>1. Reached(u) /\ H(u) \in Handles
      BY <2>1, OwnFacts, Constants
    <3>2. CASE Resetting(u)
      <4>1. H(u) # H(t)
        BY <2>1, <3>2 DEF Apart, WantsHandle
      <4> QED
        BY <2>1, <3>1, <4>1 DEF Keeps, Touches, Reached, Has, Resetting, H
    <3>3. CASE ~Resetting(u)
      BY <2>1, <3>3 DEF Keeps, Reached, Resetting
    <3> QED
      BY <3>2, <3>3
  <2> QED
    BY <2>2, <2>3
<1> QED
  BY <1>1, <1>2 DEF Next, WorldStep

\* What the handle of a thread holds.
HoldsOwn(t) ==
  /\ \A j \in Interfaces : driver[j] = H(t) => Has(H(t), j)
  /\ ~Resetting(t) => \A j \in Interfaces : Has(H(t), j) /\ j \notin adrift[H(t)] => driver[j] = H(t)

\* After a step of a thread its handle holds what it counts, and counts what it holds.
LEMMA StepsHold ==
  ASSUME ClaimsInv, ~DetachOverlaps, ~CallsOverlap, plugged, NEW t \in Threads, Step(t)
  PROVE  HoldsOwn(t)'
<1>a. TypeOK /\ PlaceInv /\ AloneInv
  BY DEF ClaimsInv, PlacesInv
<1>o. Own(t) /\ Placed(t) /\ HeldRightly(t) /\ Reached(t)
  BY OwnFacts
<1>s. pc[t] \in {"detach", "detach_to_claim"} => driver[at[t]] \notin Handles
  BY DEF ClaimsInv, SeenInv
<1>h. HoldsOwn(t)
  <2>1. ~Resetting(t) => BetweenResets(H(t))
    BY <1>a, StepsApart DEF Apart, WantsHandle, BetweenResets, Of, H, PlaceInv
  <2> QED
    BY <2>1, <1>o DEF HoldsOwn, HeldRightly
<1>1. ASSUME NEW i \in Interfaces, Gains(t, i)
      PROVE  HoldsOwn(t)'
  BY <1>1, <1>o, <1>h DEF Gains, Drives, Counts, Goto, About, Drop, HoldsOwn, HeldRightly, Placed,
     Reached, Own, H, Has, Resetting, Claiming, IsNext
<1>2. ASSUME NEW i \in Interfaces, Misses(t, i)
      PROVE  HoldsOwn(t)'
  BY <1>2, <1>o, <1>h DEF Misses, Goto, About, Drop, HoldsOwn, HeldRightly, Placed, Reached, Own,
     H, Has, Resetting, Claiming, IsNext
<1>3. ASSUME NEW i \in Interfaces, Regains(t, i)
      PROVE  HoldsOwn(t)'
  BY <1>3, <1>o, <1>h DEF Regains, Drives, Goto, About, HoldsOwn, HeldRightly, Placed, Reached,
     Own, H, Has, Resetting, Claiming, IsNext
<1>4. ASSUME NEW i \in Interfaces, Loses(t, i)
      PROVE  HoldsOwn(t)'
  BY <1>4, <1>o, <1>h DEF Loses, CountsNoMore, Ret, Goto, About, HoldsOwn, HeldRightly, Placed,
     Reached, Own, H, Has, Resetting, Claiming, IsNext
<1>5. ASSUME NEW i \in Interfaces, Looks(t, i)
      PROVE  HoldsOwn(t)'
  BY <1>5, <1>o, <1>h DEF Looks, LookToDetach, Take, Goto, About, At, world, notes, HoldsOwn,
     HeldRightly, Placed, Reached, Own, H, Has, Resetting, Claiming, IsNext
<1>6. ASSUME NEW i \in Interfaces, LetsGo(t, i)
      PROVE  HoldsOwn(t)'
  BY <1>6, <1>o, <1>h DEF LetsGo, Goto, About, At, Drives, world, notes, HoldsOwn, HeldRightly,
     Placed, Reached, Own, H, Has, Resetting, Claiming, IsNext, MayBegin, MayRelease, MayConnect,
     MayClaim
<1>7. ASSUME NEW i \in Interfaces, Claim(t, i)
      PROVE  HoldsOwn(t)'
  BY <1>7, <1>o, <1>h DEF Claim, Drives, Counts, world, notes, HoldsOwn, HeldRightly, Placed,
     Reached, Own, H, Has, Resetting, Claiming, IsNext, MayBegin, At, MayRelease, MayConnect,
     MayClaim
<1>8. ASSUME NEW i \in Interfaces, Release(t, i)
      PROVE  HoldsOwn(t)'
  BY <1>8, <1>o, <1>h DEF Release, Drives, CountsNoMore, Take, Goto, About, At, MayBegin, world,
     notes, HoldsOwn, HeldRightly, Placed, Reached, Own, H, Has, Resetting, Claiming, IsNext,
     MayRelease, MayConnect, MayClaim
<1>9. ASSUME NEW i \in Interfaces, LookWhoDrives(t, i)
      PROVE  HoldsOwn(t)'
  BY <1>9, <1>o, <1>h DEF LookWhoDrives, Goto, About, MayBegin, At, world, notes, HoldsOwn,
     HeldRightly, Placed, Reached, Own, H, Has, Resetting, Claiming, IsNext
<1>10. ASSUME NEW i \in Interfaces, Attach(t, i)
      PROVE  HoldsOwn(t)'
  BY <1>10, <1>o, <1>h DEF Attach, Connects, Drives, world, notes, HoldsOwn, HeldRightly, Placed,
     Reached, Own, H, Has, Resetting, Claiming, IsNext, MayBegin, At, MayRelease, MayConnect,
     MayClaim
<1>11. ASSUME NEW i \in Interfaces, BeginSet(t, i)
      PROVE  HoldsOwn(t)'
  BY <1>11, <1>o, <1>h DEF BeginSet, Goto, About, MayBegin, At, world, notes, HoldsOwn,
     HeldRightly, Placed, Reached, Own, H, Has, Resetting, Claiming, IsNext
<1>12. CASE Detaches(t)
  BY <1>12, <1>o, <1>h, <1>s DEF Detaches, Drives, Goto, At, world, notes, HoldsOwn, HeldRightly,
     Placed, Reached, Own, H, Has, Resetting, Claiming, IsNext
<1>13. CASE AllGone(t)
  BY <1>13, <1>o, <1>h DEF AllGone, Goto, About, At, world, notes, HoldsOwn, HeldRightly, Placed,
     Reached, Own, H, Has, Resetting, Claiming, IsNext
<1>14. CASE AllBack(t)
  BY <1>14, <1>o, <1>h DEF AllBack, Goto, About, Ret, Drop, At, world, HoldsOwn, HeldRightly,
     Placed, Reached, Own, H, Has, Resetting, Claiming, IsNext
<1>15. CASE AttachAgain(t)
  BY <1>15, <1>o, <1>h DEF AttachAgain, Connects, Drives, Goto, About, Drop, At, world, notes,
     HoldsOwn, HeldRightly, Placed, Reached, Own, H, Has, Resetting, Claiming, IsNext, MayBegin,
     MayRelease, MayConnect, MayClaim
<1>16. CASE Detach(t)
  BY <1>16, <1>o, <1>h, <1>s DEF Detach, Goto, About, At, Drives, world, notes, HoldsOwn,
     HeldRightly, Placed, Reached, Own, H, Has, Resetting, Claiming, IsNext
<1>17. CASE Set(t)
  BY <1>17, <1>o, <1>h DEF Set, Goto, About, At, Drives, world, notes, HoldsOwn, HeldRightly,
     Placed, Reached, Own, H, Has, Resetting, Claiming, IsNext, MayBegin, MayRelease, MayConnect,
     MayClaim
<1>18. CASE SetConfiguration(t)
  BY <1>18, <1>o, <1>h DEF SetConfiguration, world, notes, HoldsOwn, HeldRightly, Placed, Reached,
     Own, H, Has, Resetting, Claiming, IsNext, MayBegin, At, MayRelease, MayConnect, MayClaim
<1>19. CASE BeginReset(t)
  BY <1>19, <1>o, <1>h DEF BeginReset, Goto, MayBegin, At, world, HoldsOwn, HeldRightly, Placed,
     Reached, Own, H, Has, Resetting, Claiming, IsNext
<1>20. CASE Reset(t)
  BY <1>20, <1>o, <1>h DEF Reset, Take, Goto, At, world, notes, HoldsOwn, HeldRightly, Placed,
     Reached, Own, H, Has, Resetting, Claiming, IsNext
<1>21. CASE ResetFails(t)
  BY <1>21, <1>o, <1>h DEF ResetFails, Goto, At, world, HoldsOwn, HeldRightly, Placed, Reached,
     Own, H, Has, Resetting, Claiming, IsNext
<1> QED
  BY <1>a, StepsOfThreads, <1>1, <1>2, <1>3, <1>4, <1>5, <1>6, <1>7, <1>8, <1>9, <1>10, <1>11,
     <1>12, <1>13, <1>14, <1>15, <1>16, <1>17, <1>18, <1>19, <1>20, <1>21

\* What the kernel has claimed for a handle stays in its mask, and the other way round.
LEMMA HeldNext ==
  ASSUME ClaimsInv, ~DetachOverlaps, ~CallsOverlap, [Next]_vars
  PROVE  HeldInv'
<1>a. TypeOK /\ PlaceInv /\ AloneInv /\ SeenInv
  BY DEF ClaimsInv, PlacesInv
<1> SUFFICES ASSUME plugged', plugged, NEW h \in Handles
             PROVE  /\ (HeldBy(h) \subseteq claimed[h])'
                    /\ BetweenResets(h)' => (claimed[h] \ adrift[h] \subseteq HeldBy(h))'
  <2>1. plugged' => plugged
    <3>1. \A t \in Threads : Step(t) => plugged' = plugged
      BY <1>a, OthersKeep DEF Keeps
    <3> QED
      BY <3>1 DEF Next, Unplug, Load, SetAuto, Reopen, world, vars
  <2> QED
    BY <2>1 DEF HeldInv
<1>h. /\ HeldBy(h) \subseteq claimed[h]
      /\ BetweenResets(h) => claimed[h] \ adrift[h] \subseteq HeldBy(h)
  BY DEF ClaimsInv, HeldInv
<1>1. ASSUME driver' = driver, claimed' = claimed, adrift' = adrift, pc' = pc, before' = before
      PROVE  /\ (HeldBy(h) \subseteq claimed[h])'
             /\ BetweenResets(h)' => (claimed[h] \ adrift[h] \subseteq HeldBy(h))'
  BY <1>1, <1>h DEF HeldBy, BetweenResets, Resetting
<1>2. ASSUME NEW i \in Interfaces, Load(i)
      PROVE  /\ (HeldBy(h) \subseteq claimed[h])'
             /\ BetweenResets(h)' => (claimed[h] \ adrift[h] \subseteq HeldBy(h))'
  <2>1. claimed' = claimed /\ adrift' = adrift /\ pc' = pc /\ before' = before
    BY <1>2 DEF Load, notes
  <2>2. HeldBy(h)' = HeldBy(h)
    BY <1>2, <1>a, Constants DEF Load, Drives, TypeOK, HeldBy
  <2> QED
    BY <2>1, <2>2, <1>h DEF BetweenResets, Resetting
<1>3. ASSUME NEW g \in Handles, Reopen(g)
      PROVE  /\ (HeldBy(h) \subseteq claimed[h])'
             /\ BetweenResets(h)' => (claimed[h] \ adrift[h] \subseteq HeldBy(h))'
  <2>1. pc' = pc /\ before' = before
    BY <1>3 DEF Reopen
  <2>2. CASE h = g
    BY <1>3, <1>a, <2>2, Constants DEF Reopen, TypeOK, HeldBy
  <2>3. CASE h # g
    <3>1. claimed'[h] = claimed[h] /\ adrift'[h] = adrift[h] /\ HeldBy(h)' = HeldBy(h)
      BY <1>3, <1>a, <2>3, Constants DEF Reopen, TypeOK, HeldBy
    <3> QED
      BY <2>1, <3>1, <1>h DEF BetweenResets, Resetting
  <2> QED
    BY <2>2, <2>3
<1>4. ASSUME NEW t \in Threads, Step(t)
      PROVE  /\ (HeldBy(h) \subseteq claimed[h])'
             /\ BetweenResets(h)' => (claimed[h] \ adrift[h] \subseteq HeldBy(h))'
  <2>1. Keeps(t) /\ Touches(t) /\ HoldsOwn(t)'
    BY <1>4, <1>a, OthersKeep, StepsTouch, StepsHold
  <2>2. CASE h = H(t)
    <3>1. BetweenResets(h)' => ~Resetting(t)'
      BY <2>2 DEF BetweenResets, Of, H
    <3> QED
      <4>1. (\A j \in Interfaces : driver[j] = h => j \in claimed[h])'
        BY <2>1, <2>2 DEF HoldsOwn, Has, H
      <4>2. BetweenResets(h)' => (\A j \in Interfaces : j \in claimed[h] /\ j \notin adrift[h] => driver[j] = h)'
        BY <2>1, <2>2, <3>1 DEF HoldsOwn, Has, H
      <4>3. (claimed[h] \subseteq Interfaces)'
        BY <1>4, <1>a, TypeNext DEF TypeOK
      <4> QED
        BY <4>1, <4>2, <4>3 DEF HeldBy
  <2>3. CASE h # H(t)
    <3>1. claimed'[h] = claimed[h] /\ adrift'[h] = adrift[h] /\ HeldBy(h)' = HeldBy(h)
      BY <2>1, <2>3 DEF Keeps, Touches, HeldBy
    <3>2. BetweenResets(h)' => BetweenResets(h)
      BY <2>1, <2>3 DEF Keeps, BetweenResets, Of, H, Resetting
    <3> QED
      BY <3>1, <3>2, <1>h
  <2> QED
    BY <2>2, <2>3
<1>5. \A g \in Handles : SetAuto(g) => driver' = driver /\ claimed' = claimed /\ adrift' = adrift /\ pc' = pc /\ before' = before
  BY DEF SetAuto, notes
<1>6. ~Unplug /\ (UNCHANGED vars => driver' = driver /\ claimed' = claimed /\ adrift' = adrift /\ pc' = pc /\ before' = before)
  BY DEF Unplug, vars
<1> QED
  BY <1>1, <1>2, <1>3, <1>4, <1>5, <1>6 DEF Next

\* The invariant of the claims is inductive.
LEMMA ClaimsNext ==
  ASSUME ClaimsInv, ~DetachOverlaps, ~CallsOverlap, [Next]_vars
  PROVE  ClaimsInv'
<1>1. TypeOK /\ PlaceInv /\ AloneInv /\ SeenInv /\ MaskInv
  BY DEF ClaimsInv, PlacesInv
<1>2. TypeOK' /\ PlaceInv' /\ AloneInv' /\ SeenInv' /\ MaskInv'
  BY <1>1, TypeNext, PlaceNext, AloneNext, SeenNext, MaskNext
<1> QED
  BY <1>2, HeldNext, ResetNext DEF ClaimsInv, PlacesInv

\* Nothing is claimed at the start.
LEMMA ClaimsInit == Init => ClaimsInv
<1> SUFFICES ASSUME Init PROVE ClaimsInv
  OBVIOUS
<1>1. \A t \in Threads : pc[t] = "idle" /\ at[t] = 0 /\ ret[t] = "ok" /\ ~Resetting(t)
  BY DEF Init, Resetting
<1>2. TypeOK
  BY Constants, UsbInterfacesAssumption DEF Init, TypeOK
<1>3. PlaceInv /\ AloneInv /\ SeenInv /\ MaskInv /\ ResetInv
  BY <1>1 DEF PlaceInv, AloneInv, SeenInv, MaskInv, ResetInv, Looked, At, Claiming
<1>4. HeldInv
  BY Constants DEF Init, HeldInv, HeldBy
<1> QED
  BY <1>2, <1>3, <1>4 DEF ClaimsInv, PlacesInv
-----------------------------------------------------------------------------
(* The drivers. *)

\* What a step of a thread does to the drivers that its handle has taken away.
TakesAway(t) ==
  /\ \A j \in Interfaces : driver'[j] = H(t) /\ ~auto[H(t)] => j \in away'
  /\ \A j \in away \ away' : driver'[j] \in {None, Driver} /\ (driver'[j] = None => j \notin Native)

\* A step of a thread that takes a driver for good is known to.
LEMMA StepsTakeAway ==
  ASSUME DriversInv, plugged, NEW t \in Threads, Step(t)
  PROVE  TakesAway(t)
<1>a. TypeOK /\ PlaceInv
  BY DEF DriversInv, ClaimsInv, PlacesInv
<1>o. Own(t) /\ Placed(t) /\ HeldRightly(t) /\ Reached(t)
  BY OwnFacts DEF DriversInv
<1>w. (\A j \in Interfaces : driver[j] = H(t) /\ ~auto[H(t)] => j \in away) /\ away \subseteq Interfaces
  BY <1>a, <1>o DEF DriversInv, AwayInv, TypeOK, Own
<1>1. ASSUME NEW i \in Interfaces, Gains(t, i)
      PROVE  TakesAway(t)
  BY <1>1, <1>o, <1>w DEF Gains, Drives, Counts, Goto, About, Drop, TakesAway, HeldRightly,
     Placed, Own, H, Has, Resetting, Claiming
<1>2. ASSUME NEW i \in Interfaces, Misses(t, i)
      PROVE  TakesAway(t)
  BY <1>2, <1>o, <1>w DEF Misses, Goto, About, Drop, TakesAway, HeldRightly, Placed, Own, H, Has,
     Resetting, Claiming
<1>3. ASSUME NEW i \in Interfaces, Regains(t, i)
      PROVE  TakesAway(t)
  BY <1>3, <1>o, <1>w DEF Regains, Drives, Goto, About, TakesAway, HeldRightly, Placed, Own, H,
     Has, Resetting, Claiming
<1>4. ASSUME NEW i \in Interfaces, Loses(t, i)
      PROVE  TakesAway(t)
  BY <1>4, <1>o, <1>w DEF Loses, CountsNoMore, Ret, Goto, About, TakesAway, HeldRightly, Placed,
     Own, H, Has, Resetting, Claiming
<1>5. ASSUME NEW i \in Interfaces, Looks(t, i)
      PROVE  TakesAway(t)
  BY <1>5, <1>o, <1>w DEF Looks, LookToDetach, Take, Goto, About, At, world, notes, TakesAway,
     HeldRightly, Placed, Own, H, Has, Resetting, Claiming
<1>6. ASSUME NEW i \in Interfaces, LetsGo(t, i)
      PROVE  TakesAway(t)
  BY <1>6, <1>o, <1>w DEF LetsGo, Goto, About, At, Drives, world, notes, TakesAway, HeldRightly,
     Placed, Own, H, Has, Resetting, Claiming, MayBegin, MayRelease, MayConnect, MayClaim
<1>7. ASSUME NEW i \in Interfaces, Claim(t, i)
      PROVE  TakesAway(t)
  BY <1>7, <1>o, <1>w DEF Claim, Drives, Counts, world, notes, TakesAway, HeldRightly, Placed,
     Own, H, Has, Resetting, Claiming, MayBegin, At, MayRelease, MayConnect, MayClaim
<1>8. ASSUME NEW i \in Interfaces, Release(t, i)
      PROVE  TakesAway(t)
  BY <1>8, <1>o, <1>w DEF Release, Drives, CountsNoMore, Take, Goto, About, At, MayBegin, world,
     notes, TakesAway, HeldRightly, Placed, Own, H, Has, Resetting, Claiming, MayRelease,
     MayConnect, MayClaim
<1>9. ASSUME NEW i \in Interfaces, LookWhoDrives(t, i)
      PROVE  TakesAway(t)
  BY <1>9, <1>o, <1>w DEF LookWhoDrives, Goto, About, MayBegin, At, world, notes, TakesAway,
     HeldRightly, Placed, Own, H, Has, Resetting, Claiming
<1>10. ASSUME NEW i \in Interfaces, Attach(t, i)
      PROVE  TakesAway(t)
  BY <1>10, <1>o, <1>w DEF Attach, Connects, Drives, world, notes, TakesAway, HeldRightly, Placed,
     Own, H, Has, Resetting, Claiming, MayBegin, At, MayRelease, MayConnect, MayClaim
<1>11. ASSUME NEW i \in Interfaces, BeginSet(t, i)
      PROVE  TakesAway(t)
  BY <1>11, <1>o, <1>w DEF BeginSet, Goto, About, MayBegin, At, world, notes, TakesAway,
     HeldRightly, Placed, Own, H, Has, Resetting, Claiming
<1>12. CASE Detaches(t)
  BY <1>12, <1>o, <1>w DEF Detaches, Drives, Goto, At, world, notes, TakesAway, HeldRightly,
     Placed, Own, H, Has, Resetting, Claiming
<1>13. CASE AllGone(t)
  BY <1>13, <1>o, <1>w DEF AllGone, Goto, About, At, world, notes, TakesAway, HeldRightly, Placed,
     Own, H, Has, Resetting, Claiming
<1>14. CASE AllBack(t)
  BY <1>14, <1>o, <1>w DEF AllBack, Goto, About, Ret, Drop, At, world, TakesAway, HeldRightly,
     Placed, Own, H, Has, Resetting, Claiming
<1>15. CASE AttachAgain(t)
  BY <1>15, <1>o, <1>w DEF AttachAgain, Connects, Drives, Goto, About, Drop, At, world, notes,
     TakesAway, HeldRightly, Placed, Own, H, Has, Resetting, Claiming, MayBegin, MayRelease,
     MayConnect, MayClaim
<1>16. CASE Detach(t)
  BY <1>16, <1>o, <1>w DEF Detach, Goto, About, At, Drives, world, notes, TakesAway, HeldRightly,
     Placed, Own, H, Has, Resetting, Claiming
<1>17. CASE Set(t)
  BY <1>17, <1>o, <1>w DEF Set, Goto, About, At, Drives, world, notes, TakesAway, HeldRightly,
     Placed, Own, H, Has, Resetting, Claiming, MayBegin, MayRelease, MayConnect, MayClaim
<1>18. CASE SetConfiguration(t)
  BY <1>18, <1>o, <1>w DEF SetConfiguration, world, notes, TakesAway, HeldRightly, Placed, Own, H,
     Has, Resetting, Claiming, MayBegin, At, MayRelease, MayConnect, MayClaim
<1>19. CASE BeginReset(t)
  BY <1>19, <1>o, <1>w DEF BeginReset, Goto, MayBegin, At, world, TakesAway, HeldRightly, Placed,
     Own, H, Has, Resetting, Claiming
<1>20. CASE Reset(t)
  BY <1>20, <1>o, <1>w DEF Reset, Take, Goto, At, world, notes, TakesAway, HeldRightly, Placed,
     Own, H, Has, Resetting, Claiming
<1>21. CASE ResetFails(t)
  BY <1>21, <1>o, <1>w DEF ResetFails, Goto, At, world, TakesAway, HeldRightly, Placed, Own, H,
     Has, Resetting, Claiming
<1> QED
  BY <1>a, StepsOfThreads, <1>1, <1>2, <1>3, <1>4, <1>5, <1>6, <1>7, <1>8, <1>9, <1>10, <1>11,
     <1>12, <1>13, <1>14, <1>15, <1>16, <1>17, <1>18, <1>19, <1>20, <1>21

\* An interface that its driver is missing from is known to be, after a step of the thread
\* as before it.
Covers(t) ==
  \A j \in Native : driver'[j] = None =>
    \/ j \in away' \/ (Has(H(t), j) /\ j \in adrift[H(t)])' \/ ToComeBack(t, j)'
    \/ driver[j] = None /\ j \notin away /\ ~(Has(H(t), j) /\ j \in adrift[H(t)]) /\ ~ToComeBack(t, j)

\* A step of a thread leaves no driver missing that is not known to be.
LEMMA StepsCover ==
  ASSUME DriversInv, plugged, NEW t \in Threads, Step(t)
  PROVE  Covers(t)
<1>a. TypeOK /\ PlaceInv
  BY DEF DriversInv, ClaimsInv, PlacesInv
<1>o. Own(t) /\ Placed(t) /\ HeldRightly(t) /\ Reached(t)
  BY OwnFacts DEF DriversInv
<1>w. (\A j \in Interfaces : driver[j] = H(t) /\ ~auto[H(t)] => j \in away) /\ away \subseteq Interfaces
  BY <1>a, <1>o DEF DriversInv, AwayInv, TypeOK, Own
<1>1. ASSUME NEW i \in Interfaces, Gains(t, i)
      PROVE  Covers(t)
  BY <1>1, <1>o, <1>w DEF Gains, Drives, Counts, Goto, About, Drop, Covers, ToComeBack,
     HeldRightly, Placed, Reached, Own, H, Has, Resetting, Claiming
<1>2. ASSUME NEW i \in Interfaces, Misses(t, i)
      PROVE  Covers(t)
  BY <1>2, <1>o, <1>w DEF Misses, Goto, About, Drop, Covers, ToComeBack, HeldRightly, Placed,
     Reached, Own, H, Has, Resetting, Claiming
<1>3. ASSUME NEW i \in Interfaces, Regains(t, i)
      PROVE  Covers(t)
  <2>1. /\ pc'[t] = "claim_again" /\ at'[t] = i + 1 /\ claimed' = claimed /\ \A j \in Interfaces : driver'[j] = IF j = i THEN H(t) ELSE driver[j]
        /\ before' = before /\ adrift' = adrift /\ away \subseteq away' /\ i \in Interfaces
    BY <1>3, <1>o DEF Regains, Goto, About, Drives, Own, notes
  <2>2. /\ pc[t] \in {"idle", "claim_again"} \cup Claiming /\ (pc[t] = "idle" => ~Resetting(t))
        /\ pc[t] # "idle" => at[t] <= i /\ \A j \in Interfaces : at[t] <= j /\ j < i => ~Has(H(t), j)
        /\ pc[t] \in Claiming => at[t] = i
    <3>1. pc[t] = "claim_again" => IsNext(H(t), at[t], i)
      BY <1>3 DEF Regains, Claiming
    <3>2. pc[t] \in Claiming => at[t] = i
      BY <1>3 DEF Regains, Claiming
    <3>3. at[t] \in Nat /\ i \in Nat /\ \A j \in Interfaces : j \in Nat
      BY <1>o DEF Own
    <3>4. pc[t] \in {"idle", "claim_again"} \cup Claiming /\ (pc[t] = "idle" => ~Resetting(t))
      BY <1>3, <1>o DEF Regains, Placed
    <3> QED
      BY <1>o, <3>1, <3>2, <3>3, <3>4, NextOne
  <2>3. None # H(t) /\ at[t] \in Nat /\ \A j \in Interfaces : j \in Nat
    BY <1>o DEF Own
  <2>4. Native \subseteq Interfaces
    BY <1>o DEF Own
  <2> QED
    BY <2>1, <2>2, <2>3, <2>4 DEF Covers, ToComeBack, Has, Resetting, Claiming, H
<1>4. ASSUME NEW i \in Interfaces, Loses(t, i)
      PROVE  Covers(t)
  <2>1. /\ pc'[t] = "claim_again" /\ at'[t] = i + 1 /\ claimed'[H(t)] = claimed[H(t)] \ {i} /\ driver' = driver /\ driver[i] # None
        /\ before' = before /\ adrift' = adrift /\ away \subseteq away' /\ i \in Interfaces
    BY <1>4, <1>o DEF Loses, Goto, About, CountsNoMore, Own, notes
  <2>2. /\ pc[t] \in {"idle", "claim_again"} \cup Claiming /\ (pc[t] = "idle" => ~Resetting(t))
        /\ pc[t] # "idle" => at[t] <= i /\ \A j \in Interfaces : at[t] <= j /\ j < i => ~Has(H(t), j)
        /\ pc[t] \in Claiming => at[t] = i
    <3>1. pc[t] = "claim_again" => IsNext(H(t), at[t], i)
      BY <1>4 DEF Loses, Claiming
    <3>2. pc[t] \in Claiming => at[t] = i
      BY <1>4 DEF Loses, Claiming
    <3>3. at[t] \in Nat /\ i \in Nat /\ \A j \in Interfaces : j \in Nat
      BY <1>o DEF Own
    <3>4. pc[t] \in {"idle", "claim_again"} \cup Claiming /\ (pc[t] = "idle" => ~Resetting(t))
      BY <1>4, <1>o DEF Loses, Placed
    <3> QED
      BY <1>o, <3>1, <3>2, <3>3, <3>4, NextOne
  <2>3. None # H(t) /\ at[t] \in Nat /\ \A j \in Interfaces : j \in Nat
    BY <1>o DEF Own
  <2>4. Native \subseteq Interfaces
    BY <1>o DEF Own
  <2> QED
    BY <2>1, <2>2, <2>3, <2>4 DEF Covers, ToComeBack, Has, Resetting, Claiming, H
<1>5. ASSUME NEW i \in Interfaces, Looks(t, i)
      PROVE  Covers(t)
  <2>1. /\ pc[t] \in {"idle", "claim_again"} /\ pc'[t] \in Claiming /\ at'[t] = i /\ claimed' = claimed /\ driver' = driver
        /\ before' = before /\ adrift' = adrift /\ away \subseteq away' /\ i \in Interfaces
    BY <1>5, <1>o DEF Looks, LookToDetach, Goto, About, Claiming, Own, notes
  <2>2. /\ pc[t] \in {"idle", "claim_again"} \cup Claiming /\ (pc[t] = "idle" => ~Resetting(t))
        /\ pc[t] # "idle" => at[t] <= i /\ \A j \in Interfaces : at[t] <= j /\ j < i => ~Has(H(t), j)
        /\ pc[t] \in Claiming => at[t] = i
    <3>1. pc[t] = "claim_again" => IsNext(H(t), at[t], i)
      BY <1>5 DEF Looks, LookToDetach, Claiming
    <3>2. pc[t] \in Claiming => at[t] = i
      BY <1>5 DEF Looks, LookToDetach, Claiming
    <3>3. at[t] \in Nat /\ i \in Nat /\ \A j \in Interfaces : j \in Nat
      BY <1>o DEF Own
    <3>4. pc[t] \in {"idle", "claim_again"} \cup Claiming /\ (pc[t] = "idle" => ~Resetting(t))
      BY <1>5, <1>o DEF Looks, LookToDetach, Placed
    <3> QED
      BY <1>o, <3>1, <3>2, <3>3, <3>4, NextOne
  <2>3. None # H(t) /\ at[t] \in Nat /\ \A j \in Interfaces : j \in Nat
    BY <1>o DEF Own
  <2>4. Native \subseteq Interfaces
    BY <1>o DEF Own
  <2> QED
    BY <2>1, <2>2, <2>3, <2>4 DEF Covers, ToComeBack, Has, Resetting, Claiming, H
<1>6. ASSUME NEW i \in Interfaces, LetsGo(t, i)
      PROVE  Covers(t)
  BY <1>6, <1>o, <1>w DEF LetsGo, Goto, About, At, Drives, world, notes, Covers, ToComeBack,
     HeldRightly, Placed, Reached, Own, H, Has, Resetting, Claiming, MayBegin, MayRelease,
     MayConnect, MayClaim
<1>7. ASSUME NEW i \in Interfaces, Claim(t, i)
      PROVE  Covers(t)
  BY <1>7, <1>o, <1>w DEF Claim, Drives, Counts, world, notes, Covers, ToComeBack, HeldRightly,
     Placed, Reached, Own, H, Has, Resetting, Claiming, MayBegin, At, MayRelease, MayConnect,
     MayClaim
<1>8. ASSUME NEW i \in Interfaces, Release(t, i)
      PROVE  Covers(t)
  BY <1>8, <1>o, <1>w DEF Release, Drives, CountsNoMore, Take, Goto, About, At, MayBegin, world,
     notes, Covers, ToComeBack, HeldRightly, Placed, Reached, Own, H, Has, Resetting, Claiming,
     MayRelease, MayConnect, MayClaim
<1>9. ASSUME NEW i \in Interfaces, LookWhoDrives(t, i)
      PROVE  Covers(t)
  BY <1>9, <1>o, <1>w DEF LookWhoDrives, Goto, About, MayBegin, At, world, notes, Covers,
     ToComeBack, HeldRightly, Placed, Reached, Own, H, Has, Resetting, Claiming
<1>10. ASSUME NEW i \in Interfaces, Attach(t, i)
      PROVE  Covers(t)
  BY <1>10, <1>o, <1>w DEF Attach, Connects, Drives, world, notes, Covers, ToComeBack,
     HeldRightly, Placed, Reached, Own, H, Has, Resetting, Claiming, MayBegin, At, MayRelease,
     MayConnect, MayClaim
<1>11. ASSUME NEW i \in Interfaces, BeginSet(t, i)
      PROVE  Covers(t)
  BY <1>11, <1>o, <1>w DEF BeginSet, Goto, About, MayBegin, At, world, notes, Covers, ToComeBack,
     HeldRightly, Placed, Reached, Own, H, Has, Resetting, Claiming
<1>12. CASE Detaches(t)
  BY <1>12, <1>o, <1>w DEF Detaches, Drives, Goto, At, world, notes, Covers, ToComeBack,
     HeldRightly, Placed, Reached, Own, H, Has, Resetting, Claiming
<1>13. CASE AllGone(t)
  BY <1>13, <1>o, <1>w DEF AllGone, Goto, About, At, world, notes, Covers, ToComeBack,
     HeldRightly, Placed, Reached, Own, H, Has, Resetting, Claiming
<1>14. CASE AllBack(t)
  BY <1>14, <1>o, <1>w DEF AllBack, Goto, About, Ret, Drop, At, world, Covers, ToComeBack,
     HeldRightly, Placed, Reached, Own, H, Has, Resetting, Claiming
<1>15. CASE AttachAgain(t)
  BY <1>15, <1>o, <1>w DEF AttachAgain, Connects, Drives, Goto, About, Drop, At, world, notes,
     Covers, ToComeBack, HeldRightly, Placed, Reached, Own, H, Has, Resetting, Claiming, MayBegin,
     MayRelease, MayConnect, MayClaim
<1>16. CASE Detach(t)
  BY <1>16, <1>o, <1>w DEF Detach, Goto, About, At, Drives, world, notes, Covers, ToComeBack,
     HeldRightly, Placed, Reached, Own, H, Has, Resetting, Claiming
<1>17. CASE Set(t)
  BY <1>17, <1>o, <1>w DEF Set, Goto, About, At, Drives, world, notes, Covers, ToComeBack,
     HeldRightly, Placed, Reached, Own, H, Has, Resetting, Claiming, MayBegin, MayRelease,
     MayConnect, MayClaim
<1>18. CASE SetConfiguration(t)
  BY <1>18, <1>o, <1>w DEF SetConfiguration, world, notes, Covers, ToComeBack, HeldRightly,
     Placed, Reached, Own, H, Has, Resetting, Claiming, MayBegin, At, MayRelease, MayConnect,
     MayClaim
<1>19. CASE BeginReset(t)
  BY <1>19, <1>o, <1>w DEF BeginReset, Goto, MayBegin, At, world, Covers, ToComeBack, HeldRightly,
     Placed, Reached, Own, H, Has, Resetting, Claiming
<1>20. CASE Reset(t)
  BY <1>20, <1>o, <1>w DEF Reset, Take, Goto, At, world, notes, Covers, ToComeBack, HeldRightly,
     Placed, Reached, Own, H, Has, Resetting, Claiming
<1>21. CASE ResetFails(t)
  BY <1>21, <1>o, <1>w DEF ResetFails, Goto, At, world, Covers, ToComeBack, HeldRightly, Placed,
     Reached, Own, H, Has, Resetting, Claiming
<1> QED
  BY <1>a, StepsOfThreads, <1>1, <1>2, <1>3, <1>4, <1>5, <1>6, <1>7, <1>8, <1>9, <1>10, <1>11,
     <1>12, <1>13, <1>14, <1>15, <1>16, <1>17, <1>18, <1>19, <1>20, <1>21

\* Every step keeps what is known of the drivers that were taken for good.
LEMMA AwayNext ==
  ASSUME DriversInv, ~DetachOverlaps, ~CallsOverlap, [Next]_vars
  PROVE  AwayInv'
<1>a. TypeOK /\ PlaceInv /\ AloneInv /\ SeenInv
  BY DEF DriversInv, ClaimsInv, PlacesInv
<1> SUFFICES ASSUME plugged', plugged
             PROVE  (\A h \in Handles, i \in Interfaces : driver[i] = h /\ ~auto[h] => i \in away)'
  <2>1. plugged' => plugged
    <3>1. \A t \in Threads : Step(t) => plugged' = plugged
      BY <1>a, OthersKeep DEF Keeps
    <3> QED
      BY <3>1 DEF Next, Unplug, Load, SetAuto, Reopen, world, vars
  <2> QED
    BY <2>1 DEF AwayInv
<1>w. \A h \in Handles, i \in Interfaces : driver[i] = h /\ ~auto[h] => i \in away
  BY DEF DriversInv, AwayInv
<1>1. ASSUME NEW i \in Interfaces, Load(i)
      PROVE  (\A h \in Handles, j \in Interfaces : driver[j] = h /\ ~auto[h] => j \in away)'
  BY <1>1, <1>a, <1>w, Constants DEF Load, Drives, TypeOK
<1>2. ASSUME NEW g \in Handles, SetAuto(g)
      PROVE  (\A h \in Handles, j \in Interfaces : driver[j] = h /\ ~auto[h] => j \in away)'
  <2>1. \A j \in Interfaces : driver[j] # g
    BY <1>2 DEF SetAuto, DriversInv, ClaimsInv, HeldInv, HeldBy
  <2> QED
    BY <1>2, <1>a, <1>w, <2>1 DEF SetAuto, TypeOK
<1>3. ASSUME NEW g \in Handles, Reopen(g)
      PROVE  (\A h \in Handles, j \in Interfaces : driver[j] = h /\ ~auto[h] => j \in away)'
  BY <1>3, <1>a, <1>w, Constants DEF Reopen, TypeOK
<1>4. ASSUME NEW t \in Threads, Step(t)
      PROVE  (\A h \in Handles, j \in Interfaces : driver[j] = h /\ ~auto[h] => j \in away)'
  BY <1>4, <1>a, <1>w, OthersKeep, StepsTouch, StepsTakeAway, Constants DEF Keeps, Touches,
     TakesAway
<1>5. ~Unplug /\ (UNCHANGED vars => driver' = driver /\ auto' = auto /\ away' = away)
  BY DEF Unplug, vars
<1> QED
  BY <1>1, <1>2, <1>3, <1>4, <1>5, <1>w DEF Next

\* What is to come back to another thread still is, after a step.
LEMMA CoverNext ==
  ASSUME DriversInv, ~DetachOverlaps, ~CallsOverlap, [Next]_vars
  PROVE  CoverInv'
<1>a. TypeOK /\ PlaceInv /\ AloneInv /\ SeenInv
  BY DEF DriversInv, ClaimsInv, PlacesInv
<1> SUFFICES ASSUME plugged', plugged, NEW j \in Native, driver'[j] = None
             PROVE  \/ j \in away'
                    \/ \E h \in Handles : (Has(h, j) /\ j \in adrift[h])'
                    \/ \E t \in Threads : ToComeBack(t, j)'
  <2>1. plugged' => plugged
    <3>1. \A t \in Threads : Step(t) => plugged' = plugged
      BY <1>a, OthersKeep DEF Keeps
    <3> QED
      BY <3>1 DEF Next, Unplug, Load, SetAuto, Reopen, world, vars
  <2> QED
    BY <2>1 DEF CoverInv
<1>c. driver[j] = None => \/ j \in away
                          \/ \E h \in Handles : Has(h, j) /\ j \in adrift[h]
                          \/ \E t \in Threads : ToComeBack(t, j)
  BY DEF DriversInv, CoverInv
<1>j. j \in Interfaces
  BY Constants
<1>1. ASSUME driver' = driver, claimed' = claimed, adrift' = adrift, pc' = pc, before' = before, at' = at, away' = away
      PROVE  \/ j \in away'
             \/ \E h \in Handles : (Has(h, j) /\ j \in adrift[h])'
             \/ \E t \in Threads : ToComeBack(t, j)'
  BY <1>1, <1>c DEF ToComeBack, Has, Resetting
<1>2. ASSUME NEW i \in Interfaces, Load(i)
      PROVE  \/ j \in away'
             \/ \E h \in Handles : (Has(h, j) /\ j \in adrift[h])'
             \/ \E t \in Threads : ToComeBack(t, j)'
  <2>1. /\ claimed' = claimed /\ adrift' = adrift /\ pc' = pc /\ before' = before /\ at' = at
        /\ j # i /\ driver[j] = None /\ (j \in away => j \in away')
    BY <1>2, <1>a, <1>j, Constants DEF Load, Drives, notes, TypeOK
  <2> QED
    BY <2>1, <1>c DEF ToComeBack, Has, Resetting
<1>3. ASSUME NEW g \in Handles, Reopen(g)
      PROVE  \/ j \in away'
             \/ \E h \in Handles : (Has(h, j) /\ j \in adrift[h])'
             \/ \E t \in Threads : ToComeBack(t, j)'
  <2>1. /\ pc' = pc /\ before' = before /\ at' = at /\ away \subseteq away'
        /\ adrift[g] \subseteq away' /\ (driver[j] = None \/ j \in away')
        /\ \A h \in Handles \ {g} : claimed'[h] = claimed[h] /\ adrift'[h] = adrift[h]
    BY <1>3, <1>a, <1>j DEF Reopen, TypeOK
  <2>2. \A t \in Threads : ToComeBack(t, j) => H(t) # g
    BY <1>3, <1>a DEF Reopen, Of, At, H, PlaceInv, ToComeBack
  <2>3. \A t \in Threads : ToComeBack(t, j) => ToComeBack(t, j)'
    BY <2>1, <2>2, Constants DEF ToComeBack, Has, Resetting, H
  <2> QED
    BY <2>1, <2>3, <1>c DEF Has
<1>4. ASSUME NEW t \in Threads, Step(t)
      PROVE  \/ j \in away'
             \/ \E h \in Handles : (Has(h, j) /\ j \in adrift[h])'
             \/ \E u \in Threads : ToComeBack(u, j)'
  <2>1. Keeps(t) /\ Apart(t) /\ Covers(t) /\ TakesAway(t) /\ H(t) \in Handles
    BY <1>4, <1>a, OthersKeep, StepsApart, StepsCover, StepsTakeAway, Constants
  <2>2. \A u \in Threads \ {t} : ToComeBack(u, j) => ToComeBack(u, j)'
    <3>1. ASSUME NEW u \in Threads \ {t}, ToComeBack(u, j)
          PROVE  ToComeBack(u, j)'
      <4>1. Resetting(u) => H(u) # H(t) /\ H(u) \in Handles
        BY <2>1, Constants DEF Apart, WantsHandle
      <4> QED
        BY <2>1, <3>1, <4>1 DEF Keeps, ToComeBack, Has, Resetting, H
    <3> QED
      BY <3>1
  <2>3. \A h \in Handles \ {H(t)} : Has(h, j) /\ j \in adrift[h] => (Has(h, j) /\ j \in adrift[h])'
    BY <2>1 DEF Keeps, Has
  <2>4. j \in away => j \in away'
    BY <2>1 DEF TakesAway
  <2>5. \/ j \in away' \/ (Has(H(t), j) /\ j \in adrift[H(t)])' \/ ToComeBack(t, j)'
        \/ driver[j] = None /\ j \notin away /\ ~(Has(H(t), j) /\ j \in adrift[H(t)]) /\ ~ToComeBack(t, j)
    BY <2>1 DEF Covers
  <2> QED
    BY <2>1, <2>2, <2>3, <2>4, <2>5, <1>c
<1>5. \A g \in Handles : SetAuto(g) =>
        /\ driver' = driver /\ claimed' = claimed /\ adrift' = adrift /\ pc' = pc /\ before' = before
        /\ at' = at /\ away' = away
  BY DEF SetAuto, notes
<1>6. ~Unplug /\ (UNCHANGED vars => /\ driver' = driver /\ claimed' = claimed /\ adrift' = adrift /\ pc' = pc
                                    /\ before' = before /\ at' = at /\ away' = away)
  BY DEF Unplug, vars
<1> QED
  BY <1>1, <1>2, <1>3, <1>4, <1>5, <1>6 DEF Next

\* The invariant of the drivers is inductive.
LEMMA DriversNext ==
  ASSUME DriversInv, ~DetachOverlaps, ~CallsOverlap, [Next]_vars
  PROVE  DriversInv'
BY ClaimsNext, AwayNext, CoverNext DEF DriversInv

\* No driver is missing at the start.
LEMMA DriversInit == Init => DriversInv
<1> SUFFICES ASSUME Init PROVE DriversInv
  OBVIOUS
<1>1. AwayInv
  BY Constants DEF Init, AwayInv
<1>2. CoverInv
  BY Constants DEF Init, CoverInv
<1> QED
  BY <1>1, <1>2, ClaimsInit DEF DriversInv
-----------------------------------------------------------------------------
(* The theorems. *)

\* Every variable keeps its type, whatever overlaps.
THEOREM TypeCorrect == Spec => []TypeOK
<1>1. Init => TypeOK /\ PlaceInv
  BY ClaimsInit DEF ClaimsInv, PlacesInv
<1>2. TypeOK /\ PlaceInv /\ [Next]_vars => (TypeOK /\ PlaceInv)'
  BY TypeNext, PlaceNext
<1> QED
  BY <1>1, <1>2, PTL DEF Spec

\* The lock of a handle is had by the thread that is at a place where libusb holds it, and
\* by no other, whatever overlaps (core.c:1586-1605, 1629-1647).
THEOREM LocksAreHeld == Spec => []LockInv
<1>1. Init => TypeOK /\ PlaceInv /\ LockInv
  <2>1. Init => LockInv
    BY Constants DEF Init, LockInv, Holding
  <2> QED
    BY <2>1, ClaimsInit DEF ClaimsInv, PlacesInv
<1>2. TypeOK /\ PlaceInv /\ LockInv /\ [Next]_vars => (TypeOK /\ PlaceInv /\ LockInv)'
  BY TypeNext, PlaceNext, LockNext
<1> QED
  BY <1>1, <1>2, PTL DEF Spec

\* What a handle counts as claimed is what the kernel has claimed for it, and a driver that
\* was detached for a claim is back when no call is under way.
THEOREM ClaimsAndDriversAgreeHolds ==
  ASSUME ~DetachOverlaps, ~CallsOverlap
  PROVE  Spec => []ClaimsAndDriversAgree
<1>1. Init => DriversInv
  BY DriversInit
<1>2. DriversInv /\ [Next]_vars => DriversInv'
  BY DriversNext
<1>3. DriversInv => ClaimsAndDriversAgree
  <2> SUFFICES ASSUME DriversInv PROVE ClaimsAndDriversAgree
    OBVIOUS
  <2>1. ClaimsAreTrue
    BY DEF DriversInv, ClaimsInv, HeldInv, ClaimsAreTrue
  <2>2. ASSUME \A t \in Threads : At(t, "idle")
        PROVE  \A t \in Threads, i \in Interfaces : ~ToComeBack(t, i)
    BY <2>2 DEF DriversInv, ClaimsInv, PlacesInv, PlaceInv, ToComeBack, At
  <2>3. DriversComeBack
    BY <2>2, Constants DEF DriversInv, CoverInv, DriversComeBack
  <2> QED
    BY <2>1, <2>3 DEF ClaimsAndDriversAgree
<1> QED
  BY <1>1, <1>2, <1>3, PTL DEF Spec

\* A step of a thread takes from its own handle what it no longer counts, or lets go.
GivesUp(t) ==
  \A i \in Interfaces : driver[i] = H(t) /\ driver'[i] # H(t) => i \notin claimed'[H(t)] \/ pc[t] = "let_go"

\* A thread gives an interface up only by uncounting it or in a reset.
LEMMA StepsGiveUp ==
  ASSUME ClaimsInv, plugged, NEW t \in Threads, Step(t)
  PROVE  GivesUp(t)
<1>a. TypeOK /\ PlaceInv
  BY DEF ClaimsInv, PlacesInv
<1>o. Own(t)
  BY OwnFacts
<1>s. pc[t] \in {"detach", "detach_to_claim"} => driver[at[t]] \notin Handles
  BY DEF ClaimsInv, SeenInv
<1>1. ASSUME NEW i \in Interfaces, Gains(t, i)
      PROVE  GivesUp(t)
  BY <1>1, <1>o, <1>s DEF Gains, Drives, Counts, Goto, About, Drop, GivesUp, Own, H
<1>2. ASSUME NEW i \in Interfaces, Misses(t, i)
      PROVE  GivesUp(t)
  BY <1>2, <1>o, <1>s DEF Misses, Goto, About, Drop, GivesUp, Own, H
<1>3. ASSUME NEW i \in Interfaces, Regains(t, i)
      PROVE  GivesUp(t)
  BY <1>3, <1>o, <1>s DEF Regains, Drives, Goto, About, GivesUp, Own, H
<1>4. ASSUME NEW i \in Interfaces, Loses(t, i)
      PROVE  GivesUp(t)
  BY <1>4, <1>o, <1>s DEF Loses, CountsNoMore, Ret, Goto, About, GivesUp, Own, H
<1>5. ASSUME NEW i \in Interfaces, Looks(t, i)
      PROVE  GivesUp(t)
  BY <1>5, <1>o, <1>s DEF Looks, LookToDetach, Take, Goto, About, At, world, notes, GivesUp, Own, H
<1>6. ASSUME NEW i \in Interfaces, LetsGo(t, i)
      PROVE  GivesUp(t)
  BY <1>6, <1>o, <1>s DEF LetsGo, Goto, About, At, Drives, world, notes, GivesUp, Own, H,
     MayBegin, MayRelease, MayConnect, MayClaim
<1>7. ASSUME NEW i \in Interfaces, Claim(t, i)
      PROVE  GivesUp(t)
  BY <1>7, <1>o, <1>s DEF Claim, Drives, Counts, world, notes, GivesUp, Own, H, MayBegin, At,
     MayRelease, MayConnect, MayClaim
<1>8. ASSUME NEW i \in Interfaces, Release(t, i)
      PROVE  GivesUp(t)
  BY <1>8, <1>o, <1>s DEF Release, Drives, CountsNoMore, Take, Goto, About, At, MayBegin, world,
     notes, GivesUp, Own, H, MayRelease, MayConnect, MayClaim
<1>9. ASSUME NEW i \in Interfaces, LookWhoDrives(t, i)
      PROVE  GivesUp(t)
  BY <1>9, <1>o, <1>s DEF LookWhoDrives, Goto, About, MayBegin, At, world, notes, GivesUp, Own, H
<1>10. ASSUME NEW i \in Interfaces, Attach(t, i)
      PROVE  GivesUp(t)
  BY <1>10, <1>o, <1>s DEF Attach, Connects, Drives, world, notes, GivesUp, Own, H, MayBegin, At,
     MayRelease, MayConnect, MayClaim
<1>11. ASSUME NEW i \in Interfaces, BeginSet(t, i)
      PROVE  GivesUp(t)
  BY <1>11, <1>o, <1>s DEF BeginSet, Goto, About, MayBegin, At, world, notes, GivesUp, Own, H
<1>12. CASE Detaches(t)
  BY <1>12, <1>o, <1>s DEF Detaches, Drives, Goto, At, world, notes, GivesUp, Own, H
<1>13. CASE AllGone(t)
  BY <1>13, <1>o, <1>s DEF AllGone, Goto, About, At, world, notes, GivesUp, Own, H
<1>14. CASE AllBack(t)
  BY <1>14, <1>o, <1>s DEF AllBack, Goto, About, Ret, Drop, At, world, GivesUp, Own, H
<1>15. CASE AttachAgain(t)
  BY <1>15, <1>o, <1>s DEF AttachAgain, Connects, Drives, Goto, About, Drop, At, world, notes,
     GivesUp, Own, H, MayBegin, MayRelease, MayConnect, MayClaim
<1>16. CASE Detach(t)
  BY <1>16, <1>o, <1>s DEF Detach, Goto, About, At, Drives, world, notes, GivesUp, Own, H
<1>17. CASE Set(t)
  BY <1>17, <1>o, <1>s DEF Set, Goto, About, At, Drives, world, notes, GivesUp, Own, H, MayBegin,
     MayRelease, MayConnect, MayClaim
<1>18. CASE SetConfiguration(t)
  BY <1>18, <1>o, <1>s DEF SetConfiguration, world, notes, GivesUp, Own, H, MayBegin, At,
     MayRelease, MayConnect, MayClaim
<1>19. CASE BeginReset(t)
  BY <1>19, <1>o, <1>s DEF BeginReset, Goto, MayBegin, At, world, GivesUp, Own, H
<1>20. CASE Reset(t)
  BY <1>20, <1>o, <1>s DEF Reset, Take, Goto, At, world, notes, GivesUp, Own, H
<1>21. CASE ResetFails(t)
  BY <1>21, <1>o, <1>s DEF ResetFails, Goto, At, world, GivesUp, Own, H
<1> QED
  BY <1>a, StepsOfThreads, <1>1, <1>2, <1>3, <1>4, <1>5, <1>6, <1>7, <1>8, <1>9, <1>10, <1>11,
     <1>12, <1>13, <1>14, <1>15, <1>16, <1>17, <1>18, <1>19, <1>20, <1>21

\* Nobody takes an interface from the handle it is claimed for, and a reset that reports
\* success has brought back what was claimed before it.
THEOREM NothingIsLostInSilenceHolds ==
  ASSUME ~DetachOverlaps, ~CallsOverlap
  PROVE  Spec => NothingIsLostInSilence
<1>1. Init => ClaimsInv
  BY ClaimsInit
<1>2. ClaimsInv /\ [Next]_vars => ClaimsInv'
  BY ClaimsNext
<1>3. ASSUME ClaimsInv, [Next]_vars, NEW i \in Interfaces, NEW h \in Handles, driver[i] = h, driver'[i] # h, plugged'
      PROVE  i \notin claimed'[h] \/ \E t \in Of(h) : At(t, "let_go")
  <2>a. TypeOK /\ PlaceInv /\ AloneInv /\ SeenInv
    BY <1>3 DEF ClaimsInv, PlacesInv
  <2>1. ASSUME NEW t \in Threads, Step(t)
        PROVE  i \notin claimed'[h] \/ \E u \in Of(h) : At(u, "let_go")
    <3>1. plugged /\ Touches(t)
      BY <1>3, <2>1, <2>a, OthersKeep, StepsTouch DEF Keeps
    <3>2. h = H(t) /\ t \in Of(h)
      BY <1>3, <3>1 DEF Touches, Of, H
    <3>3. GivesUp(t)
      BY <1>3, <2>1, <3>1, StepsGiveUp
    <3> QED
      BY <1>3, <3>2, <3>3 DEF GivesUp, At
  <2>2. ASSUME NEW g \in Handles, Reopen(g)
        PROVE  i \notin claimed'[h]
    BY <1>3, <2>2, <2>a DEF Reopen, TypeOK
  <2>3. \A j \in Interfaces : ~Load(j)
    BY <1>3, <2>a, Constants DEF Load, Drives, TypeOK
  <2>4. ~Unplug /\ ~UNCHANGED vars /\ \A g \in Handles : ~SetAuto(g)
    BY <1>3 DEF Unplug, vars, SetAuto
  <2> QED
    BY <1>3, <2>1, <2>2, <2>3, <2>4 DEF Next
<1>4. ASSUME ClaimsInv, [Next]_vars, NEW t \in Threads,
             At(t, "claim_again"), pc'[t] = "idle", ret[t] = "ok", plugged'
      PROVE  before[t] \subseteq claimed'[H(t)] /\ \A i \in before[t] : driver'[i] = H(t)
  <2>a. TypeOK /\ PlaceInv
    BY <1>4 DEF ClaimsInv, PlacesInv
  <2>1. PICK u \in Threads : Step(u)
    BY <1>4 DEF At, Next, Unplug, Load, SetAuto, Reopen, vars, world, notes
  <2>2. u = t /\ plugged
    BY <1>4, <2>1, <2>a, OthersKeep DEF Keeps, At
  <2>3. AllBack(t)
    <3>1. /\ pc[t] = "claim_again" /\ pc'[t] = "idle"
          /\ pc \in [Threads -> Holding \cup {"idle", "set", "detach", "let_go", "reset"}] /\ Resetting(t)
      BY <1>4, <2>a DEF At, TypeOK, PlaceInv
    <3>2. \A i \in Interfaces : ~Gains(t, i) /\ ~Misses(t, i)
      BY <3>1 DEF Gains, Misses
    <3>3. \A i \in Interfaces : ~Regains(t, i) /\ ~Loses(t, i) /\ ~Looks(t, i)
      BY <3>1 DEF Regains, Loses, Looks, LookToDetach, Goto
    <3>4. \A i \in Interfaces : /\ ~LetsGo(t, i) /\ ~Claim(t, i) /\ ~Release(t, i) /\ ~LookWhoDrives(t, i)
                                /\ ~Attach(t, i) /\ ~BeginSet(t, i)
      BY <3>1 DEF LetsGo, Claim, Release, LookWhoDrives, Attach, BeginSet, MayBegin, At
    <3>5. /\ ~Detaches(t) /\ ~AllGone(t) /\ ~AttachAgain(t) /\ ~Detach(t) /\ ~Set(t)
          /\ ~SetConfiguration(t) /\ ~BeginReset(t) /\ ~Reset(t) /\ ~ResetFails(t)
      BY <3>1 DEF Detaches, AllGone, AttachAgain, Detach, Set, SetConfiguration, BeginReset,
         Reset, ResetFails,
                  MayBegin, At
    <3> QED
      BY <2>1, <2>2, <2>a, <3>2, <3>3, <3>4, <3>5, StepsOfThreads
  <2>4. Own(t) /\ Reached(t) /\ Resetting(t) /\ claimed[H(t)] = before[t]
    BY <1>4, <2>2, OwnFacts DEF ClaimsInv, PlacesInv, PlaceInv, MaskInv, At
  <2>5. claimed' = claimed /\ driver' = driver /\ pc[t] = "claim_again" /\ \A i \in claimed[H(t)] : i < at[t]
    BY <2>3 DEF AllBack, At
  <2> QED
    BY <2>4, <2>5 DEF Reached, Own, Has
<1>5. ClaimsInv /\ [Next]_vars =>
        \A i \in Interfaces, h \in Handles :
          driver[i] = h /\ driver'[i] # h =>
            ~plugged' \/ i \notin claimed'[h] \/ \E t \in Of(h) : At(t, "let_go")
  BY <1>3
<1>6. ClaimsInv /\ [Next]_vars =>
        \A t \in Threads :
          At(t, "claim_again") /\ pc'[t] = "idle" /\ ret[t] = "ok" /\ plugged' =>
            before[t] \subseteq claimed'[HandleOf[t]] /\ \A i \in before[t] : driver'[i] = HandleOf[t]
  BY <1>4 DEF H
<1> QED
  BY <1>1, <1>2, <1>5, <1>6, PTL DEF Spec, NothingIsLostInSilence, NothingIsStolen,
     ResetTellsWhatIsLost

==============================================================================
