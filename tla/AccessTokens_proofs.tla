------------------------- MODULE AccessTokens_proofs -------------------------
(* Proofs about AccessTokens, for any calls, requests, projects and limits. *)
EXTENDS AccessTokens, TLAPS

\* A live row read for a request is a record of the cache's schema.
LEMMA RecordTyped ==
    ASSUME token \in Rows, NEW S \in SUBSET AllIds
    PROVE  Record(S) \in Records
BY DEF Rows, Records, Record

LEMMA TruthTyped == TypeOK => Truth \in Records \cup {Missing}
BY RecordTyped DEF TypeOK, Truth

LEMMA AdmissionInit == Init => AdmissionInv
<1> SUFFICES ASSUME Init PROVE AdmissionInv
  OBVIOUS
<1>1. TypeOK
  <2>0. PICK q \in Policies :
               token = [alive |-> TRUE, active |-> TRUE, expiry |-> q.expiry,
                        limit |-> q.limit, used |-> 0]
    BY DEF Init
  <2>1. token \in Rows
    <3>1. q.expiry \in {"never", "soon"} /\ q.limit \in Limits \cup {None}
      BY AccessConstants
    <3> QED
      BY <2>0, <3>1 DEF Rows
  <2>2. PICK p \in Ids : scope = {p} /\ named \in {p, None} /\ unborn = Ids \ {p}
    BY AccessConstants DEF Init
  <2>3. /\ step \in [Calls -> CallSteps]
        /\ held \in [Calls -> Records \cup {Missing, None}]
        /\ wstep \in [Writers -> WriterSteps]
        /\ chosen \in [Writers -> SUBSET AllIds]
    BY DEF Init, CallSteps, WriterSteps
  <2>4. scope \in (SUBSET AllIds) \ {{}} /\ named \in Ids \cup {None} /\ unborn \subseteq Ids
    BY <2>2 DEF AllIds
  <2> QED
    BY <2>1, <2>3, <2>4 DEF Init, TypeOK
<1>2. HeldInOrder /\ ReadIsFresh /\ RefusedTwice
  BY DEF Init, HeldInOrder, ReadIsFresh, RefusedTwice
<1>5. Selected
  BY DEF Init, Selected
<1>3. LateIsDead /\ LimitedRechecked
  BY DEF Init, LateIsDead, LimitedRechecked
<1>4. CacheExplained /\ UncountedExplained
  BY DEF Init, CacheExplained, UncountedExplained, PastTheQuota
<1> QED
  BY <1>1, <1>2, <1>3, <1>4, <1>5 DEF AdmissionInv

\* Every step keeps the types.
LEMMA TypeStep == AdmissionInv /\ [Next]_vars => TypeOK'
<1> SUFFICES ASSUME AdmissionInv, [Next]_vars PROVE TypeOK'
  OBVIOUS
<1> USE DEF AdmissionInv, TypeOK, policyVars, projectVars, callVars, writerVars,
            CallSteps, WriterSteps
<1>1. ASSUME NEW c \in Calls, ReadCache(c) PROVE TypeOK'
  BY <1>1 DEF ReadCache, Decide, Usable
<1>2. ASSUME NEW c \in Calls, LoadRow(c) PROVE TypeOK'
  <2>1. Record({}) \in Records
    BY RecordTyped
  <2> QED
    BY <1>2, <2>1 DEF LoadRow
<1>3. ASSUME NEW c \in Calls, LoadScope(c) PROVE TypeOK'
  <2>1. [held[c] EXCEPT !.scope = scope] \in Records
    BY <1>3 DEF LoadScope, HeldInOrder, Records
  <2>2. held' = [held EXCEPT ![c] = [held[c] EXCEPT !.scope = scope]]
    BY <1>3 DEF LoadScope
  <2> QED
    BY <1>3, <2>1, <2>2 DEF LoadScope
<1>4. ASSUME NEW c \in Calls, Store(c) PROVE TypeOK'
  <2>1. held[c] \in Records \cup {Missing}
    BY <1>4 DEF Store, HeldInOrder
  <2>2. held' \in [Calls -> Records \cup {Missing, None}]
    BY <1>4 DEF Store, Decide
  <2>3. cache' \in Records \cup {Missing, None}
    BY <1>4, <2>1 DEF Store
  <2>4. tainted' \in BOOLEAN
    <3>1. CASE tainted' = (c \in outdated)
      BY <3>1
    <3>2. CASE tainted' = tainted
      BY <3>2
    <3> QED
      BY <1>4, <3>1, <3>2 DEF Store
  <2> QED
    BY <1>4, <2>2, <2>3, <2>4 DEF Store, Decide
<1>5. ASSUME NEW c \in Calls, CheckProject(c) PROVE TypeOK'
  BY <1>5 DEF CheckProject, End
<1>6. ASSUME NEW c \in Calls, Consume(c) PROVE TypeOK'
  <2>1. token' \in Rows
    BY <1>6 DEF Consume, Rows
  <2> QED
    BY <1>6, <2>1 DEF Consume, Outdate
<1>7. ASSUME NEW c \in Calls, Resolve(c) PROVE TypeOK'
  BY <1>7 DEF Resolve, End
<1>8. ASSUME NEW c \in Calls, ClearAfterConsume(c) PROVE TypeOK'
  BY <1>8 DEF ClearAfterConsume, DeleteKey
<1>9. ASSUME NEW c \in Calls, Invoke(c) PROVE TypeOK'
  BY <1>9 DEF Invoke, End
<1>10. ASSUME NEW w \in Writers, Write(w) PROVE TypeOK'
  <2>1. CASE Select(w)
    BY <2>1 DEF Select, AllIds
  <2>2. CASE Update(w)
    <3>1. token' \in Rows
      <4>1. PICK q \in Policies \cup {[expiry |-> token.expiry, limit |-> token.limit]} :
                   token' = [alive |-> TRUE, active |-> token.active,
                             expiry |-> q.expiry, limit |-> q.limit,
                             used |-> token.used]
        BY <2>2 DEF Update
      <4>2. q.expiry \in {"never", "soon"} /\ q.limit \in Limits \cup {None}
        BY AccessConstants DEF Rows
      <4> QED
        BY <4>1, <4>2 DEF Rows
    <3>2. scope' \in (SUBSET AllIds) \ {{}}
      <4>1. CASE wstep[w] = "write"
        BY <2>2, <4>1 DEF Update, Selected
      <4>2. CASE wstep[w] # "write"
        BY <2>2, <4>2 DEF Update
      <4> QED
        BY <4>1, <4>2
    <3> QED
      BY <2>2, <3>1, <3>2 DEF Update, Committed, Outdate
  <2>3. CASE Revoke(w)
    BY <2>3 DEF Revoke, Committed, Outdate, Rows
  <2>4. CASE ResetUsage(w)
    BY <2>4 DEF ResetUsage, Committed, Outdate, Rows
  <2>5. CASE Delete(w)
    BY <2>5 DEF Delete, Committed, Outdate, Rows
  <2>6. CASE RemoveProject(w) \/ SetEnabled(w) \/ \E p \in Ids : CreateProject(w, p)
    BY <2>6 DEF RemoveProject, SetEnabled, CreateProject, ProjectWrite
  <2> QED
    BY <1>10, <2>1, <2>2, <2>3, <2>4, <2>5, <2>6 DEF Write
<1>11. ASSUME NEW w \in Writers, ClearAfterWrite(w) PROVE TypeOK'
  BY <1>11 DEF ClearAfterWrite, DeleteKey
<1>12. CASE \E k \in {"database", "host"} : ClockPasses(k)
  BY <1>12 DEF ClockPasses
<1>13. CASE CacheExpires
  BY <1>13 DEF CacheExpires
<1>14. CASE UNCHANGED vars
  BY <1>14 DEF vars
<1> QED
  BY <1>1, <1>2, <1>3, <1>4, <1>5, <1>6, <1>7, <1>8, <1>9, <1>10, <1>11, <1>12,
     <1>13, <1>14 DEF Next, CallStep, Done

\* A request that goes on to write its projects has selected some.
LEMMA SelectedStep == AdmissionInv /\ [Next]_vars => Selected'
<1> SUFFICES ASSUME AdmissionInv, [Next]_vars PROVE Selected'
  OBVIOUS
<1> USE DEF AdmissionInv, TypeOK, policyVars, projectVars, callVars, writerVars, Selected
<1>1. ASSUME NEW c \in Calls, ReadCache(c) PROVE Selected'
  BY <1>1 DEF ReadCache, Decide
<1>2. ASSUME NEW c \in Calls, LoadRow(c) PROVE Selected'
  BY <1>2 DEF LoadRow
<1>3. ASSUME NEW c \in Calls, LoadScope(c) PROVE Selected'
  BY <1>3 DEF LoadScope
<1>4. ASSUME NEW c \in Calls, Store(c) PROVE Selected'
  BY <1>4 DEF Store, Decide
<1>5. ASSUME NEW c \in Calls, CheckProject(c) PROVE Selected'
  BY <1>5 DEF CheckProject, End
<1>6. ASSUME NEW c \in Calls, Consume(c) PROVE Selected'
  BY <1>6 DEF Consume, Outdate
<1>7. ASSUME NEW c \in Calls, Resolve(c) PROVE Selected'
  BY <1>7 DEF Resolve, End
<1>8. ASSUME NEW c \in Calls, ClearAfterConsume(c) PROVE Selected'
  BY <1>8 DEF ClearAfterConsume, DeleteKey
<1>9. ASSUME NEW c \in Calls, Invoke(c) PROVE Selected'
  BY <1>9 DEF Invoke, End
<1>10. ASSUME NEW w \in Writers, Select(w) PROVE Selected'
  BY <1>10 DEF Select
<1>11. ASSUME NEW w \in Writers, Update(w) PROVE Selected'
  BY <1>11 DEF Update, Committed, Outdate
<1>12. ASSUME NEW w \in Writers, Revoke(w) PROVE Selected'
  BY <1>12 DEF Revoke, Committed, Outdate
<1>13. ASSUME NEW w \in Writers, ResetUsage(w) PROVE Selected'
  BY <1>13 DEF ResetUsage, Committed, Outdate
<1>14. ASSUME NEW w \in Writers, Delete(w) PROVE Selected'
  BY <1>14 DEF Delete, Committed, Outdate
<1>15. ASSUME NEW w \in Writers, RemoveProject(w) PROVE Selected'
  BY <1>15 DEF RemoveProject, ProjectWrite
<1>16. ASSUME NEW w \in Writers, SetEnabled(w) PROVE Selected'
  BY <1>16 DEF SetEnabled, ProjectWrite
<1>17. ASSUME NEW w \in Writers, NEW p \in Ids, CreateProject(w, p) PROVE Selected'
  BY <1>17 DEF CreateProject, ProjectWrite
<1>18. ASSUME NEW w \in Writers, ClearAfterWrite(w) PROVE Selected'
  BY <1>18 DEF ClearAfterWrite, DeleteKey
<1>19. CASE \E k \in {"database", "host"} : ClockPasses(k)
  BY <1>19 DEF ClockPasses
<1>20. CASE CacheExpires
  BY <1>20 DEF CacheExpires
<1>21. CASE UNCHANGED vars
  BY <1>21 DEF vars
<1> QED
  BY <1>1, <1>2, <1>3, <1>4, <1>5, <1>6, <1>7, <1>8, <1>9, <1>10, <1>11,
     <1>12, <1>13, <1>14, <1>15, <1>16, <1>17, <1>18, <1>19, <1>20, <1>21 DEF Next, CallStep, Write, Done

\* Every step of a call has the record it works with.
LEMMA HeldStep == AdmissionInv /\ [Next]_vars => HeldInOrder'
<1> SUFFICES ASSUME AdmissionInv, [Next]_vars PROVE HeldInOrder'
  OBVIOUS
<1> USE DEF AdmissionInv, TypeOK, policyVars, projectVars, callVars, writerVars,
        HeldInOrder
<1>1. ASSUME NEW c \in Calls, ReadCache(c) PROVE HeldInOrder'
  <2>1. Usable(cache) => cache \in Records \cup {None}
    BY DEF Usable
  <2>2. CASE cache # None /\ Decide(c, cache)
    BY <1>1, <2>1, <2>2 DEF ReadCache, Decide
  <2>3. CASE step' = [step EXCEPT ![c] = "row"] /\ held' = held
    BY <2>3
  <2> QED
    BY <1>1, <2>2, <2>3 DEF ReadCache
<1>2. ASSUME NEW c \in Calls, LoadRow(c) PROVE HeldInOrder'
  <2>1. Record({}) \in Records
    BY RecordTyped
  <2> QED
    BY <1>2, <2>1 DEF LoadRow
<1>3. ASSUME NEW c \in Calls, LoadScope(c) PROVE HeldInOrder'
  <2>1. [held[c] EXCEPT !.scope = scope] \in Records
    BY <1>3 DEF LoadScope, Records
  <2>2. held' = [held EXCEPT ![c] = [held[c] EXCEPT !.scope = scope]]
    BY <1>3 DEF LoadScope
  <2>3. step' = [step EXCEPT ![c] = "store"]
    BY <1>3 DEF LoadScope
  <2> QED
    BY <2>1, <2>2, <2>3
<1>4. ASSUME NEW c \in Calls, Store(c) PROVE HeldInOrder'
  <2>1. Usable(held[c]) => held[c] \in Records
    BY <1>4 DEF Store, Usable
  <2>2. Decide(c, held[c])
    BY <1>4 DEF Store
  <2> QED
    BY <2>1, <2>2 DEF Decide
<1>5. ASSUME NEW c \in Calls, CheckProject(c) PROVE HeldInOrder'
  BY <1>5 DEF CheckProject, End
<1>6. ASSUME NEW c \in Calls, Consume(c) PROVE HeldInOrder'
  BY <1>6 DEF Consume, Outdate
<1>7. ASSUME NEW c \in Calls, Resolve(c) PROVE HeldInOrder'
  BY <1>7 DEF Resolve, End
<1>8. ASSUME NEW c \in Calls, ClearAfterConsume(c) PROVE HeldInOrder'
  BY <1>8 DEF ClearAfterConsume, DeleteKey
<1>9. ASSUME NEW c \in Calls, Invoke(c) PROVE HeldInOrder'
  BY <1>9 DEF Invoke, End
<1>10. ASSUME NEW w \in Writers, Select(w) PROVE HeldInOrder'
  BY <1>10 DEF Select
<1>11. ASSUME NEW w \in Writers, Update(w) PROVE HeldInOrder'
  BY <1>11 DEF Update, Committed, Outdate
<1>12. ASSUME NEW w \in Writers, Revoke(w) PROVE HeldInOrder'
  BY <1>12 DEF Revoke, Committed, Outdate
<1>13. ASSUME NEW w \in Writers, ResetUsage(w) PROVE HeldInOrder'
  BY <1>13 DEF ResetUsage, Committed, Outdate
<1>14. ASSUME NEW w \in Writers, Delete(w) PROVE HeldInOrder'
  BY <1>14 DEF Delete, Committed, Outdate
<1>15. ASSUME NEW w \in Writers, RemoveProject(w) PROVE HeldInOrder'
  BY <1>15 DEF RemoveProject, ProjectWrite
<1>16. ASSUME NEW w \in Writers, SetEnabled(w) PROVE HeldInOrder'
  BY <1>16 DEF SetEnabled, ProjectWrite
<1>17. ASSUME NEW w \in Writers, NEW p \in Ids, CreateProject(w, p) PROVE HeldInOrder'
  BY <1>17 DEF CreateProject, ProjectWrite
<1>18. ASSUME NEW w \in Writers, ClearAfterWrite(w) PROVE HeldInOrder'
  BY <1>18 DEF ClearAfterWrite, DeleteKey
<1>19. CASE \E k \in {"database", "host"} : ClockPasses(k)
  BY <1>19 DEF ClockPasses
<1>20. CASE CacheExpires
  BY <1>20 DEF CacheExpires
<1>21. CASE UNCHANGED vars
  BY <1>21 DEF vars
<1> QED
  BY <1>1, <1>2, <1>3, <1>4, <1>5, <1>6, <1>7, <1>8, <1>9, <1>10, <1>11,
     <1>12, <1>13, <1>14, <1>15, <1>16, <1>17, <1>18, <1>19, <1>20, <1>21 DEF Next, CallStep, Write, Done

\* A dead token stays dead, and no call that began on it is consumed.
LEMMA LateStep == AdmissionInv /\ [Next]_vars => LateIsDead'
<1> SUFFICES ASSUME AdmissionInv, [Next]_vars PROVE LateIsDead'
  OBVIOUS
<1> USE DEF AdmissionInv, TypeOK, policyVars, projectVars, callVars, writerVars,
        LateIsDead, Dead, Rows
<1>1. ASSUME NEW c \in Calls, ReadCache(c) PROVE LateIsDead'
  BY <1>1 DEF ReadCache, Decide
<1>2. ASSUME NEW c \in Calls, LoadRow(c) PROVE LateIsDead'
  BY <1>2 DEF LoadRow
<1>3. ASSUME NEW c \in Calls, LoadScope(c) PROVE LateIsDead'
  BY <1>3 DEF LoadScope
<1>4. ASSUME NEW c \in Calls, Store(c) PROVE LateIsDead'
  BY <1>4 DEF Store, Decide
<1>5. ASSUME NEW c \in Calls, CheckProject(c) PROVE LateIsDead'
  BY <1>5 DEF CheckProject, End
<1>6. ASSUME NEW c \in Calls, Consume(c) PROVE LateIsDead'
  BY <1>6 DEF Consume, Consumable
<1>7. ASSUME NEW c \in Calls, Resolve(c) PROVE LateIsDead'
  BY <1>7 DEF Resolve, Refuses, End
<1>8. ASSUME NEW c \in Calls, ClearAfterConsume(c) PROVE LateIsDead'
  BY <1>8 DEF ClearAfterConsume, DeleteKey
<1>9. ASSUME NEW c \in Calls, Invoke(c) PROVE LateIsDead'
  BY <1>9 DEF Invoke, End
<1>10. ASSUME NEW w \in Writers, Select(w) PROVE LateIsDead'
  BY <1>10 DEF Select
<1>11. ASSUME NEW w \in Writers, Update(w) PROVE LateIsDead'
  BY <1>11 DEF Update, Committed, Outdate
<1>12. ASSUME NEW w \in Writers, Revoke(w) PROVE LateIsDead'
  BY <1>12 DEF Revoke, Committed, Outdate
<1>13. ASSUME NEW w \in Writers, ResetUsage(w) PROVE LateIsDead'
  BY <1>13 DEF ResetUsage, Committed, Outdate
<1>14. ASSUME NEW w \in Writers, Delete(w) PROVE LateIsDead'
  BY <1>14 DEF Delete, Committed, Outdate
<1>15. ASSUME NEW w \in Writers, RemoveProject(w) PROVE LateIsDead'
  BY <1>15 DEF RemoveProject, ProjectWrite
<1>16. ASSUME NEW w \in Writers, SetEnabled(w) PROVE LateIsDead'
  BY <1>16 DEF SetEnabled, ProjectWrite
<1>17. ASSUME NEW w \in Writers, NEW p \in Ids, CreateProject(w, p) PROVE LateIsDead'
  BY <1>17 DEF CreateProject, ProjectWrite
<1>18. ASSUME NEW w \in Writers, ClearAfterWrite(w) PROVE LateIsDead'
  BY <1>18 DEF ClearAfterWrite, DeleteKey
<1>19. CASE \E k \in {"database", "host"} : ClockPasses(k)
  BY <1>19 DEF ClockPasses
<1>20. CASE CacheExpires
  BY <1>20 DEF CacheExpires
<1>21. CASE UNCHANGED vars
  BY <1>21 DEF vars
<1> QED
  BY <1>1, <1>2, <1>3, <1>4, <1>5, <1>6, <1>7, <1>8, <1>9, <1>10, <1>11,
     <1>12, <1>13, <1>14, <1>15, <1>16, <1>17, <1>18, <1>19, <1>20, <1>21 DEF Next, CallStep, Write, Done

\* A late call gets past the quota only with an unlimited record.
LEMMA LimitedStep == AdmissionInv /\ [Next]_vars => LimitedRechecked'
<1> SUFFICES ASSUME AdmissionInv, [Next]_vars PROVE LimitedRechecked'
  OBVIOUS
<1> USE DEF AdmissionInv, TypeOK, policyVars, projectVars, callVars, writerVars,
        LimitedRechecked, PastTheQuota, HeldInOrder, LateIsDead, Dead
<1>1. ASSUME NEW c \in Calls, ReadCache(c) PROVE LimitedRechecked'
  BY <1>1 DEF ReadCache, Decide
<1>2. ASSUME NEW c \in Calls, LoadRow(c) PROVE LimitedRechecked'
  BY <1>2 DEF LoadRow
<1>3. ASSUME NEW c \in Calls, LoadScope(c) PROVE LimitedRechecked'
  BY <1>3 DEF LoadScope
<1>4. ASSUME NEW c \in Calls, Store(c) PROVE LimitedRechecked'
  BY <1>4 DEF Store, Decide
<1>5. ASSUME NEW c \in Calls, CheckProject(c) PROVE LimitedRechecked'
  BY <1>5 DEF CheckProject, End
<1>6. ASSUME NEW c \in Calls, Consume(c) PROVE LimitedRechecked'
  BY <1>6 DEF Consume, Consumable
<1>7. ASSUME NEW c \in Calls, Resolve(c) PROVE LimitedRechecked'
  BY <1>7 DEF Resolve, Refuses, End
<1>8. ASSUME NEW c \in Calls, ClearAfterConsume(c) PROVE LimitedRechecked'
  BY <1>8 DEF ClearAfterConsume, DeleteKey
<1>9. ASSUME NEW c \in Calls, Invoke(c) PROVE LimitedRechecked'
  BY <1>9 DEF Invoke, End
<1>10. ASSUME NEW w \in Writers, Select(w) PROVE LimitedRechecked'
  BY <1>10 DEF Select
<1>11. ASSUME NEW w \in Writers, Update(w) PROVE LimitedRechecked'
  BY <1>11 DEF Update, Committed, Outdate
<1>12. ASSUME NEW w \in Writers, Revoke(w) PROVE LimitedRechecked'
  BY <1>12 DEF Revoke, Committed, Outdate
<1>13. ASSUME NEW w \in Writers, ResetUsage(w) PROVE LimitedRechecked'
  BY <1>13 DEF ResetUsage, Committed, Outdate
<1>14. ASSUME NEW w \in Writers, Delete(w) PROVE LimitedRechecked'
  BY <1>14 DEF Delete, Committed, Outdate
<1>15. ASSUME NEW w \in Writers, RemoveProject(w) PROVE LimitedRechecked'
  BY <1>15 DEF RemoveProject, ProjectWrite
<1>16. ASSUME NEW w \in Writers, SetEnabled(w) PROVE LimitedRechecked'
  BY <1>16 DEF SetEnabled, ProjectWrite
<1>17. ASSUME NEW w \in Writers, NEW p \in Ids, CreateProject(w, p) PROVE LimitedRechecked'
  BY <1>17 DEF CreateProject, ProjectWrite
<1>18. ASSUME NEW w \in Writers, ClearAfterWrite(w) PROVE LimitedRechecked'
  BY <1>18 DEF ClearAfterWrite, DeleteKey
<1>19. CASE \E k \in {"database", "host"} : ClockPasses(k)
  BY <1>19 DEF ClockPasses
<1>20. CASE CacheExpires
  BY <1>20 DEF CacheExpires
<1>21. CASE UNCHANGED vars
  BY <1>21 DEF vars
<1> QED
  BY <1>1, <1>2, <1>3, <1>4, <1>5, <1>6, <1>7, <1>8, <1>9, <1>10, <1>11,
     <1>12, <1>13, <1>14, <1>15, <1>16, <1>17, <1>18, <1>19, <1>20, <1>21 DEF Next, CallStep, Write, Done

\* What the conditional UPDATE refused stays refused unless it is excused.
LEMMA RefusedStep == AdmissionInv /\ [Next]_vars => RefusedTwice'
<1> SUFFICES ASSUME AdmissionInv, [Next]_vars PROVE RefusedTwice'
  OBVIOUS
<1> USE DEF AdmissionInv, TypeOK, policyVars, projectVars, callVars, writerVars,
        RefusedTwice, Refuses, Dead, Exhausted, ExpiredOn, Rows
<1>1. ASSUME NEW c \in Calls, ReadCache(c) PROVE RefusedTwice'
  BY <1>1 DEF ReadCache, Decide
<1>2. ASSUME NEW c \in Calls, LoadRow(c) PROVE RefusedTwice'
  BY <1>2 DEF LoadRow
<1>3. ASSUME NEW c \in Calls, LoadScope(c) PROVE RefusedTwice'
  BY <1>3 DEF LoadScope
<1>4. ASSUME NEW c \in Calls, Store(c) PROVE RefusedTwice'
  BY <1>4 DEF Store, Decide
<1>5. ASSUME NEW c \in Calls, CheckProject(c) PROVE RefusedTwice'
  BY <1>5 DEF CheckProject, End
<1>6. ASSUME NEW c \in Calls, Consume(c) PROVE RefusedTwice'
  BY <1>6 DEF Consume, Consumable, ClocksDisagree
<1>7. ASSUME NEW c \in Calls, Resolve(c) PROVE RefusedTwice'
  BY <1>7 DEF Resolve, End
<1>8. ASSUME NEW c \in Calls, ClearAfterConsume(c) PROVE RefusedTwice'
  BY <1>8 DEF ClearAfterConsume, DeleteKey
<1>9. ASSUME NEW c \in Calls, Invoke(c) PROVE RefusedTwice'
  BY <1>9 DEF Invoke, End
<1>10. ASSUME NEW w \in Writers, Select(w) PROVE RefusedTwice'
  BY <1>10 DEF Select
<1>11. ASSUME NEW w \in Writers, Update(w) PROVE RefusedTwice'
  BY <1>11 DEF Update, Committed, Outdate
<1>12. ASSUME NEW w \in Writers, Revoke(w) PROVE RefusedTwice'
  BY <1>12 DEF Revoke, Committed, Outdate
<1>13. ASSUME NEW w \in Writers, ResetUsage(w) PROVE RefusedTwice'
  BY <1>13 DEF ResetUsage, Committed, Outdate
<1>14. ASSUME NEW w \in Writers, Delete(w) PROVE RefusedTwice'
  BY <1>14 DEF Delete, Committed, Outdate
<1>15. ASSUME NEW w \in Writers, RemoveProject(w) PROVE RefusedTwice'
  BY <1>15 DEF RemoveProject, ProjectWrite
<1>16. ASSUME NEW w \in Writers, SetEnabled(w) PROVE RefusedTwice'
  BY <1>16 DEF SetEnabled, ProjectWrite
<1>17. ASSUME NEW w \in Writers, NEW p \in Ids, CreateProject(w, p) PROVE RefusedTwice'
  BY <1>17 DEF CreateProject, ProjectWrite
<1>18. ASSUME NEW w \in Writers, ClearAfterWrite(w) PROVE RefusedTwice'
  BY <1>18 DEF ClearAfterWrite, DeleteKey
<1>19. CASE \E k \in {"database", "host"} : ClockPasses(k)
  BY <1>19 DEF ClockPasses
<1>20. CASE CacheExpires
  BY <1>20 DEF CacheExpires
<1>21. CASE UNCHANGED vars
  BY <1>21 DEF vars
<1> QED
  BY <1>1, <1>2, <1>3, <1>4, <1>5, <1>6, <1>7, <1>8, <1>9, <1>10, <1>11,
     <1>12, <1>13, <1>14, <1>15, <1>16, <1>17, <1>18, <1>19, <1>20, <1>21 DEF Next, CallStep, Write, Done

\* No step lets a limited call past the quota unexcused.
LEMMA UncountedStep == AdmissionInv /\ [Next]_vars => UncountedExplained'
<1> SUFFICES ASSUME AdmissionInv, [Next]_vars PROVE UncountedExplained'
  OBVIOUS
<1> USE DEF AdmissionInv, TypeOK, policyVars, projectVars, callVars, writerVars,
        UncountedExplained, PastTheQuota, HeldInOrder, RefusedTwice
<1>1. ASSUME NEW c \in Calls, ReadCache(c) PROVE UncountedExplained'
  BY <1>1 DEF ReadCache, Decide
<1>2. ASSUME NEW c \in Calls, LoadRow(c) PROVE UncountedExplained'
  BY <1>2 DEF LoadRow
<1>3. ASSUME NEW c \in Calls, LoadScope(c) PROVE UncountedExplained'
  BY <1>3 DEF LoadScope
<1>4. ASSUME NEW c \in Calls, Store(c) PROVE UncountedExplained'
  BY <1>4 DEF Store, Decide
<1>5. ASSUME NEW c \in Calls, CheckProject(c) PROVE UncountedExplained'
  BY <1>5 DEF CheckProject, End
<1>6. ASSUME NEW c \in Calls, Consume(c) PROVE UncountedExplained'
  BY <1>6 DEF Consume, Outdate
<1>7. ASSUME NEW c \in Calls, Resolve(c) PROVE UncountedExplained'
  BY <1>7 DEF Resolve, End
<1>8. ASSUME NEW c \in Calls, ClearAfterConsume(c) PROVE UncountedExplained'
  BY <1>8 DEF ClearAfterConsume, DeleteKey
<1>9. ASSUME NEW c \in Calls, Invoke(c) PROVE UncountedExplained'
  BY <1>9 DEF Invoke, End
<1>10. ASSUME NEW w \in Writers, Select(w) PROVE UncountedExplained'
  BY <1>10 DEF Select
<1>11. ASSUME NEW w \in Writers, Update(w) PROVE UncountedExplained'
  BY <1>11 DEF Update, Committed, Outdate
<1>12. ASSUME NEW w \in Writers, Revoke(w) PROVE UncountedExplained'
  BY <1>12 DEF Revoke, Committed, Outdate
<1>13. ASSUME NEW w \in Writers, ResetUsage(w) PROVE UncountedExplained'
  BY <1>13 DEF ResetUsage, Committed, Outdate
<1>14. ASSUME NEW w \in Writers, Delete(w) PROVE UncountedExplained'
  BY <1>14 DEF Delete, Committed, Outdate
<1>15. ASSUME NEW w \in Writers, RemoveProject(w) PROVE UncountedExplained'
  BY <1>15 DEF RemoveProject, ProjectWrite
<1>16. ASSUME NEW w \in Writers, SetEnabled(w) PROVE UncountedExplained'
  BY <1>16 DEF SetEnabled, ProjectWrite
<1>17. ASSUME NEW w \in Writers, NEW p \in Ids, CreateProject(w, p) PROVE UncountedExplained'
  BY <1>17 DEF CreateProject, ProjectWrite
<1>18. ASSUME NEW w \in Writers, ClearAfterWrite(w) PROVE UncountedExplained'
  BY <1>18 DEF ClearAfterWrite, DeleteKey
<1>19. CASE \E k \in {"database", "host"} : ClockPasses(k)
  BY <1>19 DEF ClockPasses
<1>20. CASE CacheExpires
  BY <1>20 DEF CacheExpires
<1>21. CASE UNCHANGED vars
  BY <1>21 DEF vars
<1> QED
  BY <1>1, <1>2, <1>3, <1>4, <1>5, <1>6, <1>7, <1>8, <1>9, <1>10, <1>11,
     <1>12, <1>13, <1>14, <1>15, <1>16, <1>17, <1>18, <1>19, <1>20, <1>21 DEF Next, CallStep, Write, Done

\* A write makes what was read before it outdated.
LEMMA FreshStep == AdmissionInv /\ [Next]_vars => ReadIsFresh'
<1> SUFFICES ASSUME AdmissionInv, [Next]_vars PROVE ReadIsFresh'
  OBVIOUS
<1> USE DEF AdmissionInv, TypeOK, policyVars, projectVars, callVars, writerVars,
        ReadIsFresh, Truth, Record, Rows, HeldInOrder
<1>1. ASSUME NEW c \in Calls, ReadCache(c) PROVE ReadIsFresh'
  <2>1. step'[c] \in {"project", "refused", "row"}
    BY <1>1 DEF ReadCache, Decide
  <2>2. \A n \in Calls \ {c} : step'[n] = step[n] /\ held'[n] = held[n]
    BY <1>1 DEF ReadCache, Decide
  <2>3. UNCHANGED <<token, scope, outdated>>
    BY <1>1 DEF ReadCache
  <2>4. ASSUME NEW n \in Calls, n \notin outdated'
        PROVE  /\ step'[n] = "scope" => token'.alive /\ held'[n] = Record({})'
               /\ step'[n] = "store" => held'[n] = Truth'
    <3>1. CASE n = c
      BY <2>1, <3>1
    <3>2. CASE n # c
      <4>1. n \notin outdated /\ step'[n] = step[n] /\ held'[n] = held[n]
        BY <2>2, <2>3, <2>4, <3>2
      <4>2. Record({})' = Record({}) /\ Truth' = Truth /\ token' = token
        BY <2>3
      <4>3. /\ step[n] = "scope" => token.alive /\ held[n] = Record({})
            /\ step[n] = "store" => held[n] = Truth
        BY <2>4, <4>1
      <4> HIDE DEF ReadIsFresh, Record, Truth, TypeOK
      <4> QED
        BY <4>1, <4>2, <4>3
    <3> QED
      BY <3>1, <3>2
  <2> QED
    BY <2>4
<1>2. ASSUME NEW c \in Calls, LoadRow(c) PROVE ReadIsFresh'
  <2>1. CASE token.alive
    BY <1>2, <2>1 DEF LoadRow
  <2>2. CASE ~token.alive
    BY <1>2, <2>2 DEF LoadRow
  <2> QED
    BY <2>1, <2>2
<1>3. ASSUME NEW c \in Calls, LoadScope(c) PROVE ReadIsFresh'
  BY <1>3 DEF LoadScope
<1>4. ASSUME NEW c \in Calls, Store(c) PROVE ReadIsFresh'
  BY <1>4 DEF Store, Decide
<1>5. ASSUME NEW c \in Calls, CheckProject(c) PROVE ReadIsFresh'
  <2>1. step'[c] \notin {"scope", "store"}
    BY <1>5 DEF CheckProject, End
  <2>2. \A n \in Calls \ {c} : step'[n] = step[n] /\ held'[n] = held[n]
    BY <1>5 DEF CheckProject, End
  <2>3. UNCHANGED <<token, scope, outdated>>
    BY <1>5 DEF CheckProject
  <2>4. ASSUME NEW n \in Calls, n \notin outdated'
        PROVE  /\ step'[n] = "scope" => token'.alive /\ held'[n] = Record({})'
               /\ step'[n] = "store" => held'[n] = Truth'
    <3>1. CASE n = c
      BY <2>1, <3>1
    <3>2. CASE n # c
      <4>1. n \notin outdated /\ step'[n] = step[n] /\ held'[n] = held[n]
        BY <2>2, <2>3, <2>4, <3>2
      <4>2. Record({})' = Record({}) /\ Truth' = Truth /\ token' = token
        BY <2>3
      <4>3. /\ step[n] = "scope" => token.alive /\ held[n] = Record({})
            /\ step[n] = "store" => held[n] = Truth
        BY <2>4, <4>1
      <4> HIDE DEF ReadIsFresh, Record, Truth, TypeOK
      <4> QED
        BY <4>1, <4>2, <4>3
    <3> QED
      BY <3>1, <3>2
  <2> QED
    BY <2>4
<1>6. ASSUME NEW c \in Calls, Consume(c) PROVE ReadIsFresh'
  BY <1>6 DEF Consume, Outdate
<1>7. ASSUME NEW c \in Calls, Resolve(c) PROVE ReadIsFresh'
  <2>1. step'[c] \notin {"scope", "store"}
    BY <1>7 DEF Resolve, End
  <2>2. \A n \in Calls \ {c} : step'[n] = step[n] /\ held'[n] = held[n]
    BY <1>7 DEF Resolve, End
  <2>3. UNCHANGED <<token, scope, outdated>>
    BY <1>7 DEF Resolve
  <2>4. ASSUME NEW n \in Calls, n \notin outdated'
        PROVE  /\ step'[n] = "scope" => token'.alive /\ held'[n] = Record({})'
               /\ step'[n] = "store" => held'[n] = Truth'
    <3>1. CASE n = c
      BY <2>1, <3>1
    <3>2. CASE n # c
      <4>1. n \notin outdated /\ step'[n] = step[n] /\ held'[n] = held[n]
        BY <2>2, <2>3, <2>4, <3>2
      <4>2. Record({})' = Record({}) /\ Truth' = Truth /\ token' = token
        BY <2>3
      <4>3. /\ step[n] = "scope" => token.alive /\ held[n] = Record({})
            /\ step[n] = "store" => held[n] = Truth
        BY <2>4, <4>1
      <4> HIDE DEF ReadIsFresh, Record, Truth, TypeOK
      <4> QED
        BY <4>1, <4>2, <4>3
    <3> QED
      BY <3>1, <3>2
  <2> QED
    BY <2>4
<1>8. ASSUME NEW c \in Calls, ClearAfterConsume(c) PROVE ReadIsFresh'
  BY <1>8 DEF ClearAfterConsume, DeleteKey
<1>9. ASSUME NEW c \in Calls, Invoke(c) PROVE ReadIsFresh'
  BY <1>9 DEF Invoke, End
<1>10. ASSUME NEW w \in Writers, Select(w) PROVE ReadIsFresh'
  BY <1>10 DEF Select
<1>11. ASSUME NEW w \in Writers, Update(w) PROVE ReadIsFresh'
  BY <1>11 DEF Update, Committed, Outdate
<1>12. ASSUME NEW w \in Writers, Revoke(w) PROVE ReadIsFresh'
  BY <1>12 DEF Revoke, Committed, Outdate
<1>13. ASSUME NEW w \in Writers, ResetUsage(w) PROVE ReadIsFresh'
  BY <1>13 DEF ResetUsage, Committed, Outdate
<1>14. ASSUME NEW w \in Writers, Delete(w) PROVE ReadIsFresh'
  BY <1>14 DEF Delete, Committed, Outdate
<1>15. ASSUME NEW w \in Writers, RemoveProject(w) PROVE ReadIsFresh'
  BY <1>15 DEF RemoveProject, ProjectWrite
<1>16. ASSUME NEW w \in Writers, SetEnabled(w) PROVE ReadIsFresh'
  BY <1>16 DEF SetEnabled, ProjectWrite
<1>17. ASSUME NEW w \in Writers, NEW p \in Ids, CreateProject(w, p) PROVE ReadIsFresh'
  BY <1>17 DEF CreateProject, ProjectWrite
<1>18. ASSUME NEW w \in Writers, ClearAfterWrite(w) PROVE ReadIsFresh'
  BY <1>18 DEF ClearAfterWrite, DeleteKey
<1>19. CASE \E k \in {"database", "host"} : ClockPasses(k)
  BY <1>19 DEF ClockPasses
<1>20. CASE CacheExpires
  BY <1>20 DEF CacheExpires
<1>21. CASE UNCHANGED vars
  BY <1>21 DEF vars
<1> QED
  BY <1>1, <1>2, <1>3, <1>4, <1>5, <1>6, <1>7, <1>8, <1>9, <1>10, <1>11,
     <1>12, <1>13, <1>14, <1>15, <1>16, <1>17, <1>18, <1>19, <1>20, <1>21 DEF Next, CallStep, Write, Done

\* A difference between cache and rows always has its cause.
LEMMA CacheStep == AdmissionInv /\ [Next]_vars => CacheExplained'
<1> SUFFICES ASSUME AdmissionInv, [Next]_vars PROVE CacheExplained'
  OBVIOUS
<1> USE DEF AdmissionInv, TypeOK, policyVars, projectVars, callVars, writerVars,
        CacheExplained, Truth, Record, ReadIsFresh, HeldInOrder
<1>1. ASSUME NEW c \in Calls, ReadCache(c) PROVE CacheExplained'
  BY <1>1 DEF ReadCache, Decide
<1>2. ASSUME NEW c \in Calls, LoadRow(c) PROVE CacheExplained'
  BY <1>2 DEF LoadRow
<1>3. ASSUME NEW c \in Calls, LoadScope(c) PROVE CacheExplained'
  BY <1>3 DEF LoadScope
<1>4. ASSUME NEW c \in Calls, Store(c) PROVE CacheExplained'
  BY <1>4 DEF Store, Decide
<1>5. ASSUME NEW c \in Calls, CheckProject(c) PROVE CacheExplained'
  BY <1>5 DEF CheckProject, End
<1>6. ASSUME NEW c \in Calls, Consume(c) PROVE CacheExplained'
  BY <1>6 DEF Consume, Outdate
<1>7. ASSUME NEW c \in Calls, Resolve(c) PROVE CacheExplained'
  BY <1>7 DEF Resolve, End
<1>8. ASSUME NEW c \in Calls, ClearAfterConsume(c) PROVE CacheExplained'
  BY <1>8 DEF ClearAfterConsume, DeleteKey
<1>9. ASSUME NEW c \in Calls, Invoke(c) PROVE CacheExplained'
  BY <1>9 DEF Invoke, End
<1>10. ASSUME NEW w \in Writers, Select(w) PROVE CacheExplained'
  BY <1>10 DEF Select
<1>11. ASSUME NEW w \in Writers, Update(w) PROVE CacheExplained'
  BY <1>11 DEF Update, Committed, Outdate
<1>12. ASSUME NEW w \in Writers, Revoke(w) PROVE CacheExplained'
  BY <1>12 DEF Revoke, Committed, Outdate
<1>13. ASSUME NEW w \in Writers, ResetUsage(w) PROVE CacheExplained'
  BY <1>13 DEF ResetUsage, Committed, Outdate
<1>14. ASSUME NEW w \in Writers, Delete(w) PROVE CacheExplained'
  BY <1>14 DEF Delete, Committed, Outdate
<1>15. ASSUME NEW w \in Writers, RemoveProject(w) PROVE CacheExplained'
  BY <1>15 DEF RemoveProject, ProjectWrite
<1>16. ASSUME NEW w \in Writers, SetEnabled(w) PROVE CacheExplained'
  BY <1>16 DEF SetEnabled, ProjectWrite
<1>17. ASSUME NEW w \in Writers, NEW p \in Ids, CreateProject(w, p) PROVE CacheExplained'
  BY <1>17 DEF CreateProject, ProjectWrite
<1>18. ASSUME NEW w \in Writers, ClearAfterWrite(w) PROVE CacheExplained'
  BY <1>18 DEF ClearAfterWrite, DeleteKey
<1>19. CASE \E k \in {"database", "host"} : ClockPasses(k)
  BY <1>19 DEF ClockPasses
<1>20. CASE CacheExpires
  BY <1>20 DEF CacheExpires
<1>21. CASE UNCHANGED vars
  BY <1>21 DEF vars
<1> QED
  BY <1>1, <1>2, <1>3, <1>4, <1>5, <1>6, <1>7, <1>8, <1>9, <1>10, <1>11,
     <1>12, <1>13, <1>14, <1>15, <1>16, <1>17, <1>18, <1>19, <1>20, <1>21 DEF Next, CallStep, Write, Done

LEMMA AdmissionStep == AdmissionInv /\ [Next]_vars => AdmissionInv'
BY TypeStep, SelectedStep, HeldStep, LateStep, LimitedStep, RefusedStep, UncountedStep,
   FreshStep, CacheStep DEF AdmissionInv

\* What every step of an admission relies on.
THEOREM AdmissionHolds == Spec => []AdmissionInv
BY AdmissionInit, AdmissionStep, PTL DEF Spec

\* Every variable keeps its type; the scope of a token is never empty
\* (resolveProjectSelection).
THEOREM TypeCorrect == Spec => []TypeOK
<1>1. AdmissionInv => TypeOK
  BY DEF AdmissionInv
<1> QED
  BY <1>1, AdmissionHolds, PTL

\* A cached record differs from the rows only while a DEL is to come, after one
\* failed, or because a request stored what it had read before a change.
THEOREM CacheExplainedHolds == Spec => []CacheExplained
<1>1. AdmissionInv => CacheExplained
  BY DEF AdmissionInv
<1> QED
  BY <1>1, AdmissionHolds, PTL

\* A limited call is counted, or it is excused by a change made while it consumed
\* (consumeInvocation, resolveUnconsumedToken).
THEOREM UncountedExplainedHolds == Spec => []UncountedExplained
<1>1. AdmissionInv => UncountedExplained
  BY DEF AdmissionInv
<1> QED
  BY <1>1, AdmissionHolds, PTL

\* A call that begins on a revoked or deleted token gets past the quota only if
\* its stale record has no limit.
THEOREM LimitedRecheckedHolds == Spec => []LimitedRechecked
<1>1. AdmissionInv => LimitedRechecked
  BY DEF AdmissionInv
<1> QED
  BY <1>1, AdmissionHolds, PTL
=============================================================================
