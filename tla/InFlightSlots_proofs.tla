------------------------ MODULE InFlightSlots_proofs ------------------------
(* Proofs about InFlightSlots, for any devices, calls and declarations.     *)
EXTENDS InFlightSlots, FiniteSetTheorems, TLAPS

\* clampMaxInFlight returns a capacity, whatever was reported.
LEMMA ClampIsCapacity ==
    ASSUME NEW n \in Int
    PROVE  Clamp(n) \in 1 .. Maximum
BY SlotsConstants DEF Clamp

LEMMA SlotInvInit == Init => SlotInv
BY SlotsConstants
DEF Init, SlotInv, TypeOK, NegativeIsRepaired, TargetSet, FreshHeld

LEMMA SlotInvNext == SlotInv /\ [Next]_vars => SlotInv'
<1> SUFFICES ASSUME SlotInv, [Next]_vars PROVE SlotInv'
  OBVIOUS
<1>0. Maximum \in Nat /\ Sessions \in Nat
  BY SlotsConstants
<1> USE <1>0 DEF SlotInv, TypeOK, NegativeIsRepaired, TargetSet, FreshHeld,
                deviceVars, callVars, history
<1>1. ASSUME NEW d \in Devices, Device(d) PROVE SlotInv'
  <2>1. CASE Appear(d)
    <3>1. \A n \in Declarations : Clamp(n) \in 0 .. Maximum
      BY ClampIsCapacity, SlotsConstants
    <3> QED
      BY <2>1, <3>1 DEF Appear
  <2>2. CASE SetMaxInFlight(d)
    BY <2>2 DEF SetMaxInFlight, Onward
  <2>3. CASE ResetInFlight(d)
    BY <2>3 DEF ResetInFlight, CountDeleted, Onward
  <2>4. CASE RegistrationFails(d)
    BY <2>4 DEF RegistrationFails
  <2>5. CASE Heartbeat(d)
    BY <2>5 DEF Heartbeat
  <2>6. CASE KeyExpires(d)
    BY <2>6 DEF KeyExpires
  <2>7. CASE Disappear(d)
    BY <2>7 DEF Disappear
  <2>8. CASE DropLimit(d)
    BY <2>8 DEF DropLimit, Onward
  <2>9. CASE DropCount(d)
    BY <2>9 DEF DropCount, CountDeleted, Onward
  <2>10. CASE CleanUpFails(d)
    BY <2>10 DEF CleanUpFails
  <2> QED
    BY <1>1, <2>1, <2>2, <2>3, <2>4, <2>5, <2>6, <2>7, <2>8, <2>9, <2>10 DEF Device
<1>2. ASSUME NEW r \in Calls, Call(r) PROVE SlotInv'
  <2>1. CASE RequestAny(r)
    BY <2>1 DEF RequestAny
  <2>2. ASSUME NEW d \in Devices, Request(r, d) PROVE SlotInv'
    BY <2>2 DEF Request
  <2>3. ASSUME NEW d \in Devices, LookUp(r, d) PROVE SlotInv'
    BY <2>3 DEF LookUp
  <2>4. ASSUME NEW d \in Devices, ReadLimit(r, d) PROVE SlotInv'
    <3>1. Clamp(limit[d]) \in 0 .. Maximum
      BY ClampIsCapacity
    <3>2. bound' \in [Calls -> 0 .. Maximum]
      BY <2>4, <3>1 DEF ReadLimit
    <3>3. d # None
      BY SlotsConstants
    <3>4. TypeOK' /\ TargetSet' /\ FreshHeld'
      BY <2>4, <3>2, <3>3 DEF ReadLimit
    <3>5. NegativeIsRepaired'
      BY <2>4 DEF ReadLimit
    <3> QED
      BY <3>4, <3>5
  <2>5. CASE Acquire(r)
    BY <2>5 DEF Acquire, Counted, HasRoom
  <2>6. CASE AcquireFails(r)
    BY <2>6 DEF AcquireFails, Counted, HasRoom
  <2>7. CASE SelectionFails(r)
    BY <2>7 DEF SelectionFails
  <2>8. CASE Release(r)
    BY <2>8 DEF Release, Decremented, AfterDecr
  <2>9. CASE SetZero(r)
    BY <2>9 DEF SetZero, CountDeleted, Onward
  <2>10. CASE ReleaseFails(r)
    BY <2>10 DEF ReleaseFails, Decremented
  <2>11. CASE AcquireSentAgain(r)
    BY <2>11 DEF AcquireSentAgain, Counted, HasRoom
  <2>12. CASE ReleaseSentAgain(r)
    BY <2>12 DEF ReleaseSentAgain, Decremented
  <2> QED
    BY <1>2, <2>1, <2>2, <2>3, <2>4, <2>5, <2>6, <2>7, <2>8, <2>9, <2>10, <2>11,
       <2>12
    DEF Call
<1>3. CASE UNCHANGED vars
  BY <1>3 DEF vars
<1> QED
  BY <1>1, <1>2, <1>3 DEF Next

THEOREM SlotInvHolds == Spec => []SlotInv
BY SlotInvInit, SlotInvNext, PTL DEF Spec

\* Every variable keeps its type: limits read from Redis are capacities.
THEOREM TypeCorrect == Spec => []TypeOK
<1>1. SlotInv => TypeOK
  BY DEF SlotInv
<1> QED
  BY <1>1, SlotInvHolds, PTL

\* Whoever decrements a count below zero goes on to set it to zero, and no
\* other step takes it below (releaseSlot).
THEOREM NegativeIsRepairedHolds == Spec => []NegativeIsRepaired
<1>1. SlotInv => NegativeIsRepaired
  BY DEF SlotInv
<1> QED
  BY <1>1, SlotInvHolds, PTL

-----------------------------------------------------------------------------
(* Phantom load and capacity.                                               *)

LEMMA HoldingFinite ==
    ASSUME NEW d \in Devices
    PROVE  /\ IsFiniteSet(Holding(d)) /\ Cardinality(Holding(d)) \in Nat
           /\ IsFiniteSet(Running(d)) /\ Cardinality(Running(d)) \in Nat
<1>1. Holding(d) \subseteq Calls /\ Running(d) \subseteq Calls
  BY DEF Holding, Running
<1>2. IsFiniteSet(Holding(d)) /\ IsFiniteSet(Running(d))
  BY <1>1, FS_Subset, SlotsConstants
<1> QED
  BY <1>2, FS_CardinalityType

\* What one step makes of the slots of device d, seen from its holders.
SameSlots(d) ==
    /\ Holding(d)' = Holding(d) /\ Running(d)' = Running(d)
    /\ count'[d] = count[d] /\ leaked'[d] = leaked[d]
    /\ d \in disturbed => d \in disturbed'

Emptied(d) ==
    /\ Holding(d)' = Holding(d) /\ count'[d] = 0
    /\ leaked'[d] \in Nat
    /\ d \in disturbed' \/ Running(d)' = {}

Taken(r, d) ==
    /\ r \notin Holding(d)
    /\ Holding(d)' = Holding(d) \cup {r} /\ Running(d)' = Running(d) \cup {r}
    /\ count'[d] = count[d] + 1 /\ count'[d] <= bound[r]
    /\ leaked'[d] = leaked[d]
    /\ disturbed' = disturbed

Leaked(d) ==
    /\ Holding(d)' = Holding(d) /\ Running(d)' = Running(d)
    /\ count'[d] = count[d] + 1 /\ leaked'[d] = leaked[d] + 1
    /\ disturbed' = disturbed

GivenBack(r, d) ==
    /\ r \in Holding(d)
    /\ Holding(d)' = Holding(d) \ {r} /\ Running(d)' = Running(d) \ {r}
    /\ \/ /\ count'[d] = count[d] - 1 /\ leaked'[d] = leaked[d]
          /\ r \in Running(d) \/ d \in disturbed'
       \/ count'[d] = count[d] /\ leaked'[d] = leaked[d] + 1
    /\ d \in disturbed => d \in disturbed'

\* A DECR that was sent again.
GivenBackTwice(d) ==
    /\ Holding(d)' = Holding(d) /\ Running(d)' = Running(d)
    /\ count'[d] = count[d] - 1 /\ leaked'[d] = leaked[d]
    /\ d \in disturbed'

Sorted(d) ==
    \/ SameSlots(d) \/ Emptied(d) \/ Leaked(d) \/ GivenBackTwice(d)
    \/ \E r \in Calls : Taken(r, d) \/ GivenBack(r, d)

PhantomAt(d) == count[d] <= Cardinality(Holding(d)) + leaked[d]

\* Whatever a step makes of a device, no load appears that nobody caused.
LEMMA PhantomStep ==
    ASSUME TypeOK, NEW d \in Devices, PhantomAt(d), Sorted(d)
    PROVE  PhantomAt(d)'
<1> USE DEF PhantomAt
<1>0. /\ IsFiniteSet(Holding(d)) /\ Cardinality(Holding(d)) \in Nat
      /\ count[d] \in Int /\ leaked[d] \in Nat
  BY HoldingFinite DEF TypeOK
<1>1. CASE SameSlots(d)
  BY <1>1 DEF SameSlots
<1>2. CASE Emptied(d)
  BY <1>0, <1>2 DEF Emptied
<1>3. CASE Leaked(d)
  BY <1>0, <1>3 DEF Leaked
<1>4. ASSUME NEW r \in Calls, Taken(r, d) PROVE PhantomAt(d)'
  <2>1. Cardinality(Holding(d) \cup {r}) = Cardinality(Holding(d)) + 1
    BY <1>0, <1>4, FS_AddElement DEF Taken
  <2> QED
    BY <1>0, <1>4, <2>1 DEF Taken
<1>5. ASSUME NEW r \in Calls, GivenBack(r, d) PROVE PhantomAt(d)'
  <2>1. Cardinality(Holding(d) \ {r}) = Cardinality(Holding(d)) - 1
    BY <1>0, <1>5, FS_RemoveElement DEF GivenBack
  <2> QED
    BY <1>0, <1>5, <2>1 DEF GivenBack
<1>6. CASE GivenBackTwice(d)
  BY <1>0, <1>6 DEF GivenBackTwice
<1> QED
  BY <1>1, <1>2, <1>3, <1>4, <1>5, <1>6 DEF Sorted

Among(d) ==
    \A S \in SUBSET Running(d) : S # {} => \E r \in S : Cardinality(S) <= bound[r]

CountedAt(d) == d \notin disturbed => Cardinality(Running(d)) <= count[d] /\ Among(d)

\* A step that adds nobody leaves the bounds of those who stay.
LEMMA FewerAmong ==
    ASSUME NEW d \in Devices, Among(d), Running(d)' \subseteq Running(d),
           \A r \in Running(d)' : bound'[r] = bound[r]
    PROVE  Among(d)'
<1> SUFFICES ASSUME NEW S \in SUBSET Running(d)', S # {}
             PROVE  \E r \in S : Cardinality(S) <= bound'[r]
  BY DEF Among
<1>1. PICK r \in S : Cardinality(S) <= bound[r]
  BY DEF Among
<1> QED
  BY <1>1

\* Whatever a step makes of a device, its undisturbed calls stay counted.
LEMMA CountedStep ==
    ASSUME TypeOK, NEW d \in Devices, CountedAt(d), Sorted(d),
           \A r \in Holding(d)' : bound'[r] = bound[r]
    PROVE  CountedAt(d)'
<1> SUFFICES ASSUME d \notin disturbed'
             PROVE  Cardinality(Running(d)') <= count'[d] /\ Among(d)'
  BY DEF CountedAt
<1> DEFINE R == Running(d)
<1>0. /\ IsFiniteSet(R) /\ Cardinality(R) \in Nat
      /\ count[d] \in Int
  BY HoldingFinite DEF TypeOK
<1>a. \A r \in R' : bound'[r] = bound[r]
  BY DEF Running
<1>1. CASE SameSlots(d)
  <2>1. Cardinality(R) <= count[d] /\ Among(d) /\ R' = R
    BY <1>1 DEF SameSlots, CountedAt
  <2> QED
    BY <1>1, <1>a, <2>1, FewerAmong DEF SameSlots
<1>2. CASE Emptied(d)
  <2>1. R' = {} /\ count'[d] = 0
    BY <1>2 DEF Emptied
  <2>2. Cardinality(R') = 0
    BY <2>1, FS_EmptySet
  <2> QED
    BY <2>1, <2>2 DEF Among
<1>3. CASE Leaked(d)
  <2>1. Cardinality(R) <= count[d] /\ Among(d) /\ R' = R
    BY <1>3 DEF Leaked, CountedAt
  <2>2. Among(d)'
    BY <1>a, <2>1, FewerAmong
  <2> QED
    BY <1>0, <1>3, <2>1, <2>2 DEF Leaked
<1>4. ASSUME NEW r \in Calls, Taken(r, d)
      PROVE  Cardinality(R') <= count'[d] /\ Among(d)'
  <2>1. Cardinality(R) <= count[d] /\ Among(d) /\ R' = R \cup {r} /\ r \notin R
    BY <1>4 DEF Taken, CountedAt, Running
  <2>2. /\ IsFiniteSet(R \cup {r})
        /\ Cardinality(R \cup {r}) = Cardinality(R) + 1
    BY <1>0, <2>1, FS_AddElement
  <2>3. Cardinality(R') <= count'[d] /\ count'[d] \in Int
    BY <1>0, <1>4, <2>1, <2>2 DEF Taken
  <2>4. ASSUME NEW S \in SUBSET R', S # {}
        PROVE  \E x \in S : Cardinality(S) <= bound'[x]
    <3>1. CASE r \in S
      <4>1. IsFiniteSet(S) /\ Cardinality(S) <= Cardinality(R')
        BY <2>1, <2>2, <2>4, FS_Subset
      <4>2. Cardinality(S) \in Nat /\ Cardinality(R') \in Nat
        BY <1>0, <2>1, <2>2, <4>1, FS_CardinalityType
      <4>3. count'[d] <= bound[r] /\ bound'[r] = bound[r] /\ bound[r] \in Nat
        <5>1. bound'[r] = bound[r]
          BY <1>a, <2>1
        <5>2. bound[r] \in 0 .. Maximum /\ Maximum \in Nat
          BY SlotsConstants DEF TypeOK
        <5> QED
          BY <1>4, <5>1, <5>2 DEF Taken
      <4>4. Cardinality(S) <= bound'[r]
        <5> HIDE DEF R
        <5> QED
          BY <2>3, <4>1, <4>2, <4>3
      <4> QED
        BY <3>1, <4>4
    <3>2. CASE r \notin S
      <4>1. S \in SUBSET R
        BY <2>1, <2>4, <3>2
      <4>2. PICK x \in S : Cardinality(S) <= bound[x]
        BY <2>1, <2>4, <4>1 DEF Among
      <4> QED
        BY <1>a, <2>4, <4>2
    <3> QED
      BY <3>1, <3>2
  <2> QED
    BY <2>3, <2>4 DEF Among
<1>5. ASSUME NEW r \in Calls, GivenBack(r, d)
      PROVE  Cardinality(R') <= count'[d] /\ Among(d)'
  <2>1. Cardinality(R) <= count[d] /\ Among(d) /\ R' = R \ {r}
    BY <1>5 DEF GivenBack, CountedAt
  <2>2. Among(d)'
    BY <1>a, <2>1, FewerAmong
  <2>3. Cardinality(R \ {r}) = IF r \in R THEN Cardinality(R) - 1 ELSE Cardinality(R)
    BY <1>0, FS_RemoveElement
  <2>4. Cardinality(R') <= count'[d]
    <3>1. CASE r \in R
      <4>1. Cardinality(R') = Cardinality(R) - 1
        BY <2>1, <2>3, <3>1
      <4>2. count'[d] = count[d] \/ count'[d] = count[d] - 1
        BY <1>5 DEF GivenBack
      <4> HIDE DEF R
      <4> QED
        BY <1>0, <2>1, <4>1, <4>2
    <3>2. CASE r \notin R
      <4>1. Cardinality(R') = Cardinality(R)
        BY <2>1, <2>3, <3>2
      <4>2. count'[d] = count[d]
        BY <1>5, <3>2 DEF GivenBack
      <4> QED
        BY <2>1, <4>1, <4>2
    <3> QED
      BY <3>1, <3>2
  <2> QED
    BY <2>2, <2>4
<1> QED
  BY <1>1, <1>2, <1>3, <1>4, <1>5 DEF Sorted, GivenBackTwice

Kept(d) == Sorted(d) /\ \A r \in Holding(d)' : bound'[r] = bound[r]

\* A step that leaves every holder where he is, and the counts, changes no slots.
LEMMA QuietStep ==
    ASSUME UNCHANGED <<count, leaked, fresh, disturbed>>,
           \A x \in Calls : (pc'[x] = "held") <=> (pc[x] = "held"),
           \A x \in Calls :
               pc[x] = "held" => target'[x] = target[x] /\ bound'[x] = bound[x]
    PROVE  \A d \in Devices : Kept(d)
<1> SUFFICES ASSUME NEW d \in Devices PROVE Kept(d)
  OBVIOUS
<1>1. Holding(d)' = Holding(d)
  BY DEF Holding
<1>2. Running(d)' = Running(d)
  BY <1>1 DEF Running
<1>3. \A x \in Holding(d)' : bound'[x] = bound[x]
  BY <1>1 DEF Holding
<1> QED
  BY <1>1, <1>2, <1>3 DEF Kept, Sorted, SameSlots

\* Every step is of one of these kinds for every device.
LEMMA KeptStep == SlotInv /\ [Next]_vars => \A d \in Devices : Kept(d)
<1> SUFFICES ASSUME SlotInv, [Next]_vars PROVE \A d \in Devices : Kept(d)
  OBVIOUS
<1> USE DEF SlotInv, TypeOK, deviceVars, callVars, history
<1>1. ASSUME NEW e \in Devices, Device(e) PROVE \A d \in Devices : Kept(d)
  <2>1. CASE Appear(e)
    BY <2>1, QuietStep DEF Appear
  <2>2. CASE SetMaxInFlight(e)
    BY <2>2, QuietStep DEF SetMaxInFlight
  <2>3. CASE RegistrationFails(e)
    BY <2>3, QuietStep DEF RegistrationFails
  <2>4. CASE Heartbeat(e)
    BY <2>4, QuietStep DEF Heartbeat
  <2>5. CASE KeyExpires(e)
    BY <2>5, QuietStep DEF KeyExpires
  <2>6. CASE Disappear(e)
    BY <2>6, QuietStep DEF Disappear
  <2>7. CASE DropLimit(e)
    BY <2>7, QuietStep DEF DropLimit
  <2>8. CASE CleanUpFails(e)
    BY <2>8, QuietStep DEF CleanUpFails
  <2>9. CASE ResetInFlight(e)
    <3> SUFFICES ASSUME NEW d \in Devices PROVE Kept(d)
      OBVIOUS
    <3>1. Holding(d)' = Holding(d) /\ \A x \in Calls : bound'[x] = bound[x]
      BY <2>9 DEF ResetInFlight, Holding
    <3>2. CASE d = e
      <4>1. Running(d)' = {}
        BY <2>9, <3>1, <3>2 DEF ResetInFlight, Running
      <4>2. count'[d] = 0 /\ leaked'[d] \in Nat
        BY <2>9, <3>2 DEF ResetInFlight, CountDeleted
      <4> QED
        BY <3>1, <4>1, <4>2 DEF Kept, Sorted, Emptied, Holding
    <3>3. CASE d # e
      <4>1. Holding(d) \cap Holding(e) = {}
        BY <3>3 DEF Holding
      <4>2. Running(d)' = Running(d)
        BY <2>9, <3>1, <4>1 DEF ResetInFlight, Running
      <4>3. count'[d] = count[d] /\ leaked'[d] = leaked[d]
            /\ (d \in disturbed => d \in disturbed')
        BY <2>9, <3>3 DEF ResetInFlight, CountDeleted
      <4> QED
        BY <3>1, <4>2, <4>3 DEF Kept, Sorted, SameSlots, Holding
    <3> QED
      BY <3>2, <3>3
  <2>10. CASE DropCount(e)
    <3> SUFFICES ASSUME NEW d \in Devices PROVE Kept(d)
      OBVIOUS
    <3>1. Holding(d)' = Holding(d) /\ Running(d)' = Running(d)
          /\ \A x \in Calls : bound'[x] = bound[x]
      BY <2>10 DEF DropCount, Holding, Running
    <3>2. CASE d = e
      <4>1. count'[d] = 0 /\ leaked'[d] \in Nat /\ d \in disturbed'
        BY <2>10, <3>2 DEF DropCount, CountDeleted
      <4> QED
        BY <3>1, <4>1 DEF Kept, Sorted, Emptied, Holding
    <3>3. CASE d # e
      <4>1. count'[d] = count[d] /\ leaked'[d] = leaked[d]
            /\ (d \in disturbed => d \in disturbed')
        BY <2>10, <3>3 DEF DropCount, CountDeleted
      <4> QED
        BY <3>1, <4>1 DEF Kept, Sorted, SameSlots, Holding
    <3> QED
      BY <3>2, <3>3
  <2> QED
    BY <1>1, <2>1, <2>2, <2>3, <2>4, <2>5, <2>6, <2>7, <2>8, <2>9, <2>10 DEF Device
<1>2. ASSUME NEW r \in Calls, Call(r) PROVE \A d \in Devices : Kept(d)
  <2>1. CASE RequestAny(r)
    BY <2>1, QuietStep DEF RequestAny
  <2>2. ASSUME NEW e \in Devices, Request(r, e) PROVE \A d \in Devices : Kept(d)
    BY <2>2, QuietStep DEF Request
  <2>3. ASSUME NEW e \in Devices, LookUp(r, e) PROVE \A d \in Devices : Kept(d)
    BY <2>3, QuietStep DEF LookUp
  <2>4. ASSUME NEW e \in Devices, ReadLimit(r, e) PROVE \A d \in Devices : Kept(d)
    BY <2>4, QuietStep DEF ReadLimit
  <2>5. CASE SelectionFails(r)
    BY <2>5, QuietStep DEF SelectionFails
  <2>6. CASE Acquire(r)
    <3>1. CASE ~HasRoom(r)
      <4>1. count' = count
        BY <2>6, <3>1 DEF Acquire, Counted, TargetSet
      <4> QED
        BY <2>6, <3>1, <4>1, QuietStep DEF Acquire
    <3>2. CASE HasRoom(r)
      <4> SUFFICES ASSUME NEW d \in Devices PROVE Kept(d)
        OBVIOUS
      <4>1. \A x \in Calls : bound'[x] = bound[x]
        BY <2>6 DEF Acquire
      <4>2. CASE d = target[r]
        <5>1. r \notin Holding(d) /\ Holding(d)' = Holding(d) \cup {r}
          BY <2>6, <3>2, <4>2 DEF Acquire, Holding
        <5>2. Running(d)' = Running(d) \cup {r}
          BY <2>6, <3>2, <5>1 DEF Acquire, Running
        <5>3. count'[d] = count[d] + 1 /\ count[d] + 1 <= bound[r]
          BY <2>6, <3>2, <4>2 DEF Acquire, Counted, HasRoom
        <5>4. leaked'[d] = leaked[d] /\ disturbed' = disturbed
          BY <2>6 DEF Acquire
        <5> QED
          BY <4>1, <5>1, <5>2, <5>3, <5>4 DEF Kept, Sorted, Taken, Holding
      <4>3. CASE d # target[r]
        <5>1. Holding(d)' = Holding(d) /\ r \notin Holding(d)
          BY <2>6, <3>2, <4>3 DEF Acquire, Holding
        <5>2. Running(d)' = Running(d)
          BY <2>6, <3>2, <5>1 DEF Acquire, Running
        <5>3. count'[d] = count[d]
          BY <2>6, <4>3 DEF Acquire, Counted
        <5>4. leaked'[d] = leaked[d] /\ disturbed' = disturbed
          BY <2>6 DEF Acquire
        <5> QED
          BY <4>1, <5>1, <5>2, <5>3, <5>4 DEF Kept, Sorted, SameSlots, Holding
      <4> QED
        BY <4>2, <4>3
    <3> QED
      BY <3>1, <3>2
  <2>7. ASSUME HasRoom(r), count' = Counted(r),
               leaked' = [leaked EXCEPT ![target[r]] = @ + 1],
               pc[r] # "held", \A x \in Calls \ {r} : pc'[x] = pc[x],
               pc'[r] # "held", UNCHANGED <<target, bound, fresh, disturbed>>
        PROVE  \A d \in Devices : Kept(d)
    <3> SUFFICES ASSUME NEW d \in Devices PROVE Kept(d)
      OBVIOUS
    <3>1. /\ Holding(d)' = Holding(d) /\ Running(d)' = Running(d)
          /\ \A x \in Calls : bound'[x] = bound[x]
      BY <2>7 DEF Holding, Running
    <3>2. disturbed' = disturbed
      BY <2>7
    <3>3. CASE d = target[r]
      <4>1. count'[d] = count[d] + 1 /\ leaked'[d] = leaked[d] + 1
        BY <2>7, <3>3 DEF Counted
      <4> QED
        BY <3>1, <3>2, <4>1 DEF Kept, Sorted, Leaked, Holding
    <3>4. CASE d # target[r]
      <4>1. count'[d] = count[d] /\ leaked'[d] = leaked[d]
        BY <2>7, <3>4 DEF Counted
      <4> QED
        BY <3>1, <3>2, <4>1 DEF Kept, Sorted, SameSlots, Holding
    <3> QED
      BY <3>3, <3>4
  <2>8. CASE AcquireSentAgain(r)
    BY <2>7, <2>8 DEF AcquireSentAgain
  <2>9. CASE AcquireFails(r)
    <3>1. CASE UNCHANGED <<count, leaked>>
      BY <2>9, <3>1, QuietStep DEF AcquireFails
    <3>2. CASE /\ HasRoom(r) /\ count' = Counted(r)
               /\ leaked' = [leaked EXCEPT ![target[r]] = @ + 1]
      BY <2>7, <2>9, <3>2 DEF AcquireFails
    <3> QED
      BY <2>9, <3>1, <3>2 DEF AcquireFails
  <2>10. ASSUME pc[r] = "held", Decremented(r), pc'[r] \in {"again", "zero", "done"},
               \A x \in Calls \ {r} : pc'[x] = pc[x],
               target' = target, bound' = bound, leaked' = leaked
        PROVE  \A d \in Devices : Kept(d)
    <3> SUFFICES ASSUME NEW d \in Devices PROVE Kept(d)
      OBVIOUS
    <3>1. CASE d = target[r]
      <4>1. r \in Holding(d) /\ Holding(d)' = Holding(d) \ {r}
        BY <2>10, <3>1 DEF Holding
      <4>2. Running(d)' = Running(d) \ {r}
        BY <2>10, <4>1 DEF Decremented, Running
      <4>3. count'[d] = count[d] - 1
        BY <2>10, <3>1 DEF Decremented
      <4>4. r \in Running(d) \/ d \in disturbed'
        BY <2>10, <3>1, <4>1 DEF Decremented, Running
      <4>5. d \in disturbed => d \in disturbed'
        BY <2>10 DEF Decremented
      <4> QED
        BY <2>10, <4>1, <4>2, <4>3, <4>4, <4>5 DEF Kept, Sorted, GivenBack
    <3>2. CASE d # target[r]
      <4>1. r \notin Holding(d) /\ Holding(d)' = Holding(d)
        BY <2>10, <3>2 DEF Holding
      <4>2. Running(d)' = Running(d)
        BY <2>10, <4>1 DEF Decremented, Running
      <4>3. count'[d] = count[d] /\ (d \in disturbed => d \in disturbed')
        BY <2>10, <3>2 DEF Decremented
      <4> QED
        BY <2>10, <4>1, <4>2, <4>3 DEF Kept, Sorted, SameSlots
    <3> QED
      BY <3>1, <3>2
  <2>11. ASSUME pc[r] = "again", Decremented(r), pc'[r] # "held",
                \A x \in Calls \ {r} : pc'[x] = pc[x],
                target' = target, bound' = bound, leaked' = leaked
         PROVE  \A d \in Devices : Kept(d)
    <3> SUFFICES ASSUME NEW d \in Devices PROVE Kept(d)
      OBVIOUS
    <3>1. r \notin fresh
      BY <2>11 DEF FreshHeld
    <3>2. Holding(d)' = Holding(d)
      BY <2>11 DEF Holding
    <3>3. Running(d)' = Running(d)
      BY <2>11, <3>1, <3>2 DEF Decremented, Running
    <3>4. CASE d = target[r]
      <4>1. count'[d] = count[d] - 1 /\ d \in disturbed'
        BY <2>11, <3>1, <3>4 DEF Decremented
      <4> QED
        BY <2>11, <3>2, <3>3, <4>1 DEF Kept, Sorted, GivenBackTwice
    <3>5. CASE d # target[r]
      <4>1. count'[d] = count[d] /\ (d \in disturbed => d \in disturbed')
        BY <2>11, <3>5 DEF Decremented
      <4> QED
        BY <2>11, <3>2, <3>3, <4>1 DEF Kept, Sorted, SameSlots
    <3> QED
      BY <3>4, <3>5
  <2>12. CASE Release(r)
    <3>1. pc[r] \in {"held", "again"}
      BY <2>12 DEF Release
    <3> QED
      BY <2>10, <2>12, <2>11, <3>1 DEF Release, AfterDecr
  <2>13. CASE ReleaseSentAgain(r)
    BY <2>10, <2>13 DEF ReleaseSentAgain
  <2>14. CASE SetZero(r)
    <3> SUFFICES ASSUME NEW d \in Devices PROVE Kept(d)
      OBVIOUS
    <3>1. Holding(d)' = Holding(d) /\ Running(d)' = Running(d)
          /\ \A x \in Calls : bound'[x] = bound[x]
      BY <2>14 DEF SetZero, Onward, Holding, Running
    <3>3. CASE d = target[r]
      <4>1. count'[d] = 0 /\ leaked'[d] = 0 /\ d \in disturbed'
        BY <2>14, <3>3 DEF SetZero, CountDeleted
      <4> QED
        BY <3>1, <4>1 DEF Kept, Sorted, Emptied, Holding
    <3>4. CASE d # target[r]
      <4>1. /\ count'[d] = count[d] /\ leaked'[d] = leaked[d]
            /\ d \in disturbed => d \in disturbed'
        BY <2>14, <3>4 DEF SetZero, CountDeleted
      <4> QED
        BY <3>1, <4>1 DEF Kept, Sorted, SameSlots, Holding
    <3> QED
      BY <3>3, <3>4
  <2>15. CASE ReleaseFails(r)
    <3>1. CASE pc[r] = "held" /\ Decremented(r) /\ UNCHANGED leaked
      BY <2>10, <2>15, <3>1 DEF ReleaseFails
    <3>2. CASE pc[r] = "again" /\ Decremented(r) /\ UNCHANGED leaked
      BY <2>11, <2>15, <3>2 DEF ReleaseFails
    <3>3. CASE /\ pc[r] = "held"
               /\ leaked' = [leaked EXCEPT ![target[r]] = @ + 1]
               /\ fresh' = fresh \ {r}
               /\ UNCHANGED <<count, disturbed, unrepaired>>
      <4> SUFFICES ASSUME NEW d \in Devices PROVE Kept(d)
        OBVIOUS
      <4>0. /\ \A x \in Calls : pc'[x] = IF x = r THEN "done" ELSE pc[x]
            /\ target' = target /\ bound' = bound
        BY <2>15 DEF ReleaseFails
      <4>1. CASE d = target[r]
        <5>1. r \in Holding(d) /\ Holding(d)' = Holding(d) \ {r}
          BY <3>3, <4>0, <4>1 DEF Holding
        <5>2. Running(d)' = Running(d) \ {r}
          BY <3>3, <5>1 DEF Running
        <5>3. leaked'[d] = leaked[d] + 1
          BY <3>3, <4>1
        <5> QED
          BY <3>3, <4>0, <5>1, <5>2, <5>3 DEF Kept, Sorted, GivenBack
      <4>2. CASE d # target[r]
        <5>1. r \notin Holding(d) /\ Holding(d)' = Holding(d)
          BY <3>3, <4>0, <4>2 DEF Holding
        <5>2. Running(d)' = Running(d)
          BY <3>3, <5>1 DEF Running
        <5>3. leaked'[d] = leaked[d]
          BY <3>3, <4>2
        <5> QED
          BY <3>3, <4>0, <5>1, <5>2, <5>3 DEF Kept, Sorted, SameSlots
      <4> QED
        BY <4>1, <4>2
    <3>4. CASE /\ pc[r] \in {"again", "zero"}
               /\ UNCHANGED <<count, leaked, fresh, disturbed>>
      BY <2>15, <3>4, QuietStep DEF ReleaseFails
    <3> QED
      BY <2>15, <3>1, <3>2, <3>3, <3>4 DEF ReleaseFails
  <2> QED
    BY <1>2, <2>1, <2>2, <2>3, <2>4, <2>5, <2>6, <2>8, <2>9, <2>12, <2>13, <2>14,
       <2>15
    DEF Call
<1>3. CASE UNCHANGED vars
  BY <1>3, QuietStep DEF vars
<1> QED
  BY <1>1, <1>2, <1>3 DEF Next

\* What every step of a slot relies on: phantom load and capacity are matters of
\* whole sets of holders, which each step changes by one call or forgets.
THEOREM LoadInvHolds == Spec => []LoadInv
<1>1. Init => LoadInv
  <2> SUFFICES ASSUME Init PROVE LoadInv
    OBVIOUS
  <2>1. SlotInv
    BY SlotInvInit
  <2>2. ASSUME NEW d \in Devices PROVE PhantomAt(d) /\ CountedAt(d)
    <3>1. Holding(d) = {} /\ Running(d) = {}
      BY DEF Init, Holding, Running
    <3>2. count[d] = 0 /\ leaked[d] = 0
      BY DEF Init
    <3> QED
      BY <3>1, <3>2, FS_EmptySet DEF PhantomAt, CountedAt, Among
  <2> QED
    BY <2>1, <2>2
    DEF LoadInv, NoPhantomLoad, RunningCounted, PhantomAt, CountedAt, Among
<1>2. LoadInv /\ [Next]_vars => LoadInv'
  <2> SUFFICES ASSUME LoadInv, [Next]_vars PROVE LoadInv'
    OBVIOUS
  <2>1. SlotInv /\ TypeOK /\ SlotInv'
    BY SlotInvNext DEF LoadInv, SlotInv
  <2>2. ASSUME NEW d \in Devices PROVE PhantomAt(d)' /\ CountedAt(d)'
    <3>1. PhantomAt(d) /\ CountedAt(d)
      BY DEF LoadInv, NoPhantomLoad, RunningCounted, PhantomAt, CountedAt, Among
    <3>2. Sorted(d) /\ \A r \in Holding(d)' : bound'[r] = bound[r]
      BY <2>1, KeptStep DEF Kept
    <3> QED
      BY <2>1, <3>1, <3>2, PhantomStep, CountedStep
  <2> QED
    BY <2>1, <2>2
    DEF LoadInv, NoPhantomLoad, RunningCounted, PhantomAt, CountedAt, Among
<1> QED
  BY <1>1, <1>2, PTL DEF Spec

\* No path through selection, reset, release and their failures takes a slot
\* nobody gives back, beyond the leaks of the device's session (resetInFlight).
THEOREM NoPhantomLoadHolds == Spec => []NoPhantomLoad
<1>1. LoadInv => NoPhantomLoad
  BY DEF LoadInv
<1> QED
  BY <1>1, LoadInvHolds, PTL

\* Between two resets an undisturbed device never runs more calls than it declared
\* (ACQUIRE_SLOT_LUA).
THEOREM CapacityHeldHolds == Spec => []CapacityHeld
<1>1. LoadInv => CapacityHeld
  <2> SUFFICES ASSUME LoadInv, NEW d \in Devices \ disturbed,
                      \A r \in Running(d) : bound[r] <= capacity[d]
               PROVE  Cardinality(Running(d)) <= capacity[d]
    BY DEF CapacityHeld
  <2>0. capacity[d] \in Nat /\ \A r \in Calls : bound[r] \in Nat
    BY SlotsConstants DEF LoadInv, SlotInv, TypeOK
  <2>1. CASE Running(d) = {}
    BY <2>0, <2>1, FS_EmptySet
  <2>2. CASE Running(d) # {}
    <3>1. PICK r \in Running(d) : Cardinality(Running(d)) <= bound[r]
      BY <2>2 DEF LoadInv, RunningCounted
    <3>2. r \in Calls /\ Cardinality(Running(d)) \in Nat
      BY HoldingFinite DEF Running, Holding
    <3> QED
      BY <2>0, <3>1, <3>2
  <2> QED
    BY <2>1, <2>2
<1> QED
  BY <1>1, LoadInvHolds, PTL
=============================================================================
