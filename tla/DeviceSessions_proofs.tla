----------------------- MODULE DeviceSessions_proofs -----------------------
(* Proofs about DeviceSessions, for any sockets, instances and scopes.      *)
EXTENDS DeviceSessions, TLAPS

LEMMA ConnInvInit == Init => ConnInv
<1> SUFFICES ASSUME Init PROVE ConnInv
  OBVIOUS
<1>2. TypeOK
  BY DEF Init, TypeOK, UpSteps, DownSteps, WriteSteps, Records
<1>3. HandlersInOrder
  BY DEF Init, HandlersInOrder
<1>4. RegisteredSoFar
  BY DEF Init, RegisteredSoFar, SoFar
<1> QED
  BY <1>2, <1>3, <1>4 DEF ConnInv

LEMMA ConnInvNext == ConnInv /\ [Next]_vars => ConnInv'
<1> SUFFICES ASSUME ConnInv, [Next]_vars PROVE ConnInv'
  OBVIOUS
<1> USE DEF ConnInv, TypeOK, HandlersInOrder, RegisteredSoFar, SoFar, RowLive, UpSteps,
            DownSteps, Attached, handlerVars, keyVars, rowVars, tokenVars, writerVars,
            history, WriteSteps, Records
<1>0. Records \subseteq SUBSET Projects
  BY DEF Projects
<1>1. ASSUME NEW c \in Connections, NEW i \in Instances, Accept(c, i)
      PROVE  ConnInv'
  BY <1>1 DEF Accept
<1>2. ASSUME NEW c \in Connections, Registration(c) PROVE ConnInv'
  <2>1. CASE ReadCachedRecord(c)
    BY <2>1 DEF ReadCachedRecord
  <2>11. CASE LoadRecord(c)
    BY <2>11 DEF LoadRecord
  <2>12. CASE StoreRecord(c)
    BY <2>12 DEF StoreRecord
  <2>2. CASE Attach(c)
    BY <2>2 DEF Attach
  <2>3. CASE SetSession(c)
    BY <2>3, SessionsConstants DEF SetSession
  <2>4. CASE FindRow(c)
    BY <2>4 DEF FindRow
  <2>5. CASE WriteRow(c)
    <3>1. /\ row' = "online"
          /\ deleted' \in BOOLEAN
          /\ ~deleted => ~deleted'
          /\ found[c] # "alive" => ~deleted'
      BY <2>5 DEF WriteRow, Clash, RowWritten
    <3>2. /\ up[c] = "write"
          /\ up' = [up EXCEPT ![c] = "presence"]
          /\ found' = [found EXCEPT ![c] = "none"]
          /\ UNCHANGED <<open, closing, on, down, scope, joining, leaving, mapped,
                         keyVars, purging, sweep, tokenVars, history>>
      BY <2>5 DEF WriteRow
    <3>3. TypeOK'
      BY <3>1, <3>2
    <3>4. HandlersInOrder'
      BY <3>2
    <3>5. RegisteredSoFar'
      <4> SUFFICES ASSUME NEW n \in open \ overtaken
                   PROVE  SoFar(n)'
        BY <3>2
      <4>1. CASE n = c
        <5>1. RowLive'
          BY <3>1, <3>2, <4>1
        <5> QED
          BY <3>2, <4>1, <5>1
      <4>2. CASE n # c
        <5>1. up'[n] = up[n] /\ found'[n] = found[n] /\ joining'[n] = joining[n]
          BY <3>2, <4>2
        <5>2. RowLive => RowLive'
          BY <3>1
        <5>3. row # "absent" /\ ~deleted => row' # "absent" /\ ~deleted'
          BY <3>1
        <5> QED
          BY <3>2, <4>2, <5>1, <5>2, <5>3
      <4> QED
        BY <4>1, <4>2
    <3> QED
      BY <3>3, <3>4, <3>5
  <2>6. CASE SetPresence(c)
    BY <1>0, <2>6 DEF SetPresence
  <2>7. CASE Join(c)
    BY <1>0, <2>7 DEF Join
  <2>8. CASE FinishRegistration(c)
    BY <2>8 DEF FinishRegistration
  <2>9. CASE RejectConnection(c)
    BY <2>9 DEF RejectConnection
  <2>10. CASE RegistrationFails(c)
    <3>1. session' \in {session, c} /\ c # None
      BY <2>10, SessionsConstants DEF RegistrationFails
    <3>2. presence' \in {presence, TRUE}
      BY <2>10 DEF RegistrationFails
    <3>3. listed \subseteq listed' /\ listed' \subseteq Projects
      BY <2>10 DEF RegistrationFails
    <3>0. leftBehind' \subseteq Projects
      BY <2>10 DEF RegistrationFails
    <3>4. \/ row' = row /\ deleted' = deleted
          \/ ~Clash(c) /\ RowWritten(c)
      BY <2>10 DEF RegistrationFails
    <3>5. /\ up' = [up EXCEPT ![c] = "failed"]
          /\ found' = [found EXCEPT ![c] = "none"]
          /\ joining' = [joining EXCEPT ![c] = {}]
          /\ closing' = closing \cup ({c} \cap open)
          /\ UNCHANGED <<open, on, down, scope, leaving, mapped, purging, sweep,
                         tokenVars, overtaken, unowned, unheard>>
      BY <2>10 DEF RegistrationFails
    <3>6. up[c] \in UpSteps \ {"none", "ready"}
      BY <2>10 DEF RegistrationFails
    <3>7. TypeOK'
      BY <3>0, <3>1, <3>2, <3>3, <3>4, <3>5 DEF RowWritten
    <3>8. HandlersInOrder'
      BY <3>5, <3>6
    <3>9. RegisteredSoFar'
      <4> SUFFICES ASSUME NEW n \in open \ overtaken
                   PROVE  SoFar(n)'
        BY <3>5
      <4>0. CASE n = c
        BY <3>5, <4>0
      <4> SUFFICES ASSUME n # c PROVE SoFar(n)'
        BY <4>0
      <4>1. up'[n] = up[n] /\ found'[n] = found[n] /\ joining'[n] = joining[n]
        BY <3>5
      <4>2. /\ RowLive => RowLive'
            /\ row # "absent" /\ ~deleted => row' # "absent" /\ ~deleted'
        BY <3>4 DEF RowWritten
      <4> QED
        BY <3>1, <3>2, <3>3, <3>5, <4>1, <4>2
    <3> QED
      BY <3>7, <3>8, <3>9
  <2> QED
    BY <1>2, <2>1, <2>2, <2>3, <2>4, <2>5, <2>6, <2>7, <2>8, <2>9, <2>10, <2>11,
       <2>12 DEF Registration
<1>3. ASSUME NEW c \in Connections, SocketCloses(c) PROVE ConnInv'
  BY <1>3 DEF SocketCloses, MapWithout
<1>4. ASSUME NEW c \in Connections, CleanUp(c) PROVE ConnInv'
  <2>1. CASE Claim(c)
    BY <2>1 DEF Claim, OwnsSession, Overtakes
  <2>2. CASE DeletePresence(c)
    BY <1>0, <2>2 DEF DeletePresence, LeavesOwnScope, Overtakes
  <2>3. CASE Leave(c)
    BY <2>3 DEF Leave, Overtakes
  <2>4. CASE MarkOffline(c)
    BY <2>4 DEF MarkOffline, Overtakes
  <2>5. CASE CleanUpFails(c)
    <3>1. session' \in {session, None} /\ presence' \in {presence, FALSE}
      BY <2>5 DEF CleanUpFails
    <3>2. listed' \subseteq listed
      BY <2>5 DEF CleanUpFails
    <3>3. row' \in {row, "offline"}
      BY <2>5 DEF CleanUpFails
    <3>4. /\ down[c] # "none"
          /\ down' = [down EXCEPT ![c] = "done"]
          /\ leaving' = [leaving EXCEPT ![c] = {}]
          /\ overtaken' = overtaken \cup {n \in open \ {c} : Attached(n)}
          /\ unowned' = unowned \ {c}
          /\ leftBehind' \subseteq leftBehind \cup listed'
          /\ UNCHANGED <<open, closing, on, up, scope, joining, found, mapped,
                         purging, deleted, sweep, tokenVars, unheard>>
      BY <2>5 DEF CleanUpFails, Overtakes
    <3>5. TypeOK'
      BY <3>1, <3>2, <3>3, <3>4
    <3>6. HandlersInOrder'
      BY <3>4
    <3>7. RegisteredSoFar'
      <4> SUFFICES ASSUME NEW n \in open \ overtaken'
                   PROVE  SoFar(n)'
        BY <3>4
      <4>1. n = c \/ ~Attached(n)
        BY <3>4
      <4>2. CASE n = c
        BY <3>4, <4>2
      <4>3. CASE ~Attached(n)
        BY <3>4, <4>3
      <4> QED
        BY <4>1, <4>2, <4>3
    <3> QED
      BY <3>5, <3>6, <3>7
  <2> QED
    BY <1>4, <2>1, <2>2, <2>3, <2>4, <2>5 DEF CleanUp
<1>5. ASSUME NEW p \in Projects, ListMissing(p) PROVE ConnInv'
  BY <1>5 DEF ListMissing, OthersUnchanged
<1>6. ASSUME NEW p \in Projects, Purge(p) PROVE ConnInv'
  BY <1>6 DEF Purge, OthersUnchanged, OvertakesAll
<1>7. CASE Sweep
  BY <1>7 DEF Sweep, SweepSelect, SweepCheck, SweepMark, OthersUnchanged, OvertakesAll
<1>8. CASE IdleSweep
  BY <1>8 DEF IdleSweep, OthersUnchanged, OvertakesAll
<1>9. CASE SessionExpires
  BY <1>9 DEF SessionExpires, OthersUnchanged, OvertakesAll
<1>10. CASE PresenceExpires
  BY <1>10 DEF PresenceExpires, OthersUnchanged, OvertakesAll
<1>11. CASE RecordExpires
  BY <1>11 DEF RecordExpires, OthersUnchanged
<1>12. ASSUME NEW w \in Writers, TokenWrite(w) PROVE ConnInv'
  <2>1. /\ tokenScope' \in Records
        /\ cached' \in {cached, None}
        /\ write' \in [Writers -> WriteSteps]
        /\ notices' \in [Instances -> SUBSET Writers]
        /\ unheard' \subseteq open
    BY <1>12 DEF TokenWrite, EditScope, RevokeToken, ClearRecord, PublishScope,
                 WriterDies, KeepsFrom
  <2>2. UNCHANGED <<open, closing, on, handlerVars, mapped, keyVars, purging, rowVars,
                    sweep, overtaken, unowned, leftBehind>>
    BY <1>12 DEF TokenWrite, EditScope, RevokeToken, ClearRecord, PublishScope,
                 WriterDies, OthersUnchanged
  <2>3. TypeOK'
    BY <2>1, <2>2
  <2>4. HandlersInOrder' /\ RegisteredSoFar'
    BY <2>2
  <2> QED
    BY <2>3, <2>4
<1>13. ASSUME NEW i \in Instances, NEW w \in Writers, HandleNotice(i, w)
       PROVE  ConnInv'
  BY <1>13 DEF HandleNotice, LocalSession
<1>14. ASSUME NEW i \in Instances, Crash(i) PROVE ConnInv'
  <2> DEFINE dead == {c \in Connections : on[c] = i /\ up[c] # "none"}
  <2>0. leftBehind' \subseteq Projects
    <3>1. leftBehind' \subseteq leftBehind \cup listed
      BY <1>14 DEF Crash
    <3> QED
      BY <3>1
  <2>4. /\ open' = open \ dead /\ closing' = closing \ dead
        /\ up' = [c \in Connections |-> IF c \in dead THEN "failed" ELSE up[c]]
        /\ down' = [c \in Connections |-> IF c \in dead THEN "done" ELSE down[c]]
        /\ joining' = [c \in Connections |-> IF c \in dead THEN {} ELSE joining[c]]
        /\ leaving' = [c \in Connections |-> IF c \in dead THEN {} ELSE leaving[c]]
        /\ found' = [c \in Connections |-> IF c \in dead THEN "none" ELSE found[c]]
        /\ mapped' = [mapped EXCEPT ![i] = None]
        /\ notices' = [notices EXCEPT ![i] = {}]
        /\ overtaken' = overtaken \ dead /\ unowned' = unowned \ dead
        /\ unheard' = unheard \ dead
        /\ UNCHANGED <<on, scope, keyVars, purging, rowVars, sweep, tokenScope, cached,
                       write>>
    BY <1>14 DEF Crash
  <2>1. TypeOK'
    BY <2>0, <2>4
  <2>2. HandlersInOrder'
    BY <1>14 DEF Crash
  <2>3. RegisteredSoFar'
    BY <1>14 DEF Crash
  <2> QED
    BY <2>1, <2>2, <2>3
<1>15. CASE UNCHANGED vars
  BY <1>15 DEF vars
<1> QED
  BY <1>1, <1>2, <1>3, <1>4, <1>5, <1>6, <1>7, <1>8, <1>9, <1>10, <1>11, <1>12,
     <1>13, <1>14, <1>15 DEF Next

\* What every step of a registration and of a clean-up relies on.
THEOREM ConnInvHolds == Spec => []ConnInv
BY ConnInvInit, ConnInvNext, PTL DEF Spec

\* Every variable keeps its type.
THEOREM TypeCorrect == Spec => []TypeOK
<1>1. ConnInv => TypeOK
  BY DEF ConnInv
<1> QED
  BY <1>1, ConnInvHolds, PTL

\* A ready connection that nobody cleaned up after is routable, online, listed
\* in its projects and has a live online row (registerConnection).
THEOREM OnlineUnlessOvertakenHolds == Spec => []OnlineUnlessOvertaken
<1>1. ConnInv => OnlineUnlessOvertaken
  BY DEF ConnInv, RegisteredSoFar, SoFar, RowLive, OnlineUnlessOvertaken
<1> QED
  BY <1>1, ConnInvHolds, PTL

LEMMA WhoEndsASession ==
    ASSUME ConnInv, Next, session # None, session' = None
    PROVE  session \notin open \/ SessionExpires
<1> USE DEF keyVars
<1>1. ASSUME NEW c \in Connections, NEW i \in Instances, Accept(c, i) PROVE FALSE
  BY <1>1 DEF Accept
<1>2. ASSUME NEW c \in Connections, Registration(c) PROVE FALSE
  <2>1. session' \in {session, c}
    BY <1>2 DEF Registration, ReadCachedRecord, LoadRecord, StoreRecord, Attach,
                SetSession, FindRow, WriteRow, SetPresence, Join, FinishRegistration,
                RejectConnection,
                RegistrationFails
  <2> QED
    BY <2>1, SessionsConstants
<1>3. ASSUME NEW c \in Connections, SocketCloses(c) PROVE FALSE
  BY <1>3 DEF SocketCloses
<1>4. ASSUME NEW c \in Connections, CleanUp(c) PROVE session \notin open
  <2>1. down[c] = "claim" /\ OwnsSession(c)
    BY <1>4 DEF CleanUp, Claim, DeletePresence, Leave, MarkOffline, CleanUpFails
  <2> QED
    BY <2>1 DEF OwnsSession, ConnInv, HandlersInOrder
<1>5. ASSUME NEW p \in Projects, ListMissing(p) \/ Purge(p) PROVE FALSE
  BY <1>5 DEF ListMissing, Purge
<1>6. CASE Sweep
  BY <1>6 DEF Sweep, SweepSelect, SweepCheck, SweepMark
<1>7. CASE IdleSweep
  BY <1>7 DEF IdleSweep
<1>8. CASE PresenceExpires
  BY <1>8 DEF PresenceExpires
<1>9. ASSUME NEW w \in Writers, TokenWrite(w) PROVE FALSE
  BY <1>9 DEF TokenWrite, EditScope, RevokeToken, ClearRecord, PublishScope, WriterDies
<1>10. CASE RecordExpires
  BY <1>10 DEF RecordExpires
<1>11. ASSUME NEW i \in Instances,
              Crash(i) \/ \E w \in Writers : HandleNotice(i, w)
       PROVE  FALSE
  BY <1>11 DEF HandleNotice, Crash
<1> QED
  BY <1>1, <1>2, <1>3, <1>4, <1>5, <1>6, <1>7, <1>8, <1>9, <1>10, <1>11 DEF Next

\* No disconnect, sweep or edit takes the session of an open connection away;
\* only its TTL or its own clean-up does (COMPARE_AND_DELETE_SCRIPT).
THEOREM SessionLostOnlyByOwnerHolds == Spec => SessionLostOnlyByOwner
<1> DEFINE Lost == session # None /\ session' = None
                       => session \notin open \/ SessionExpires
<1>1. ConnInv /\ [Next]_vars => [Lost]_vars
  BY WhoEndsASession DEF vars
<1>2. Spec => [][Lost]_vars
  <2> HIDE DEF Lost
  <2> QED
    BY <1>1, ConnInvHolds, PTL DEF Spec
<1> QED
  BY <1>2 DEF SessionLostOnlyByOwner

LEMMA WhatFollowsOffline ==
    ASSUME [Next]_vars, row = "offline" PROVE row' # "stale"
<1> USE DEF keyVars, rowVars
<1>1. ASSUME NEW c \in Connections, Registration(c) PROVE row' # "stale"
  BY <1>1
  DEF Registration, ReadCachedRecord, LoadRecord, StoreRecord, Attach,
      SetSession, FindRow, WriteRow, RowWritten, SetPresence, Join, FinishRegistration,
      RejectConnection,
      RegistrationFails
<1>2. ASSUME NEW c \in Connections, CleanUp(c) PROVE row' # "stale"
  BY <1>2 DEF CleanUp, Claim, DeletePresence, Leave, MarkOffline, CleanUpFails
<1>3. CASE Sweep
  BY <1>3 DEF Sweep, SweepSelect, SweepCheck, SweepMark
<1>4. ASSUME NEW c \in Connections,
             SocketCloses(c) \/ \E i \in Instances : Accept(c, i)
      PROVE  row' # "stale"
  BY <1>4 DEF SocketCloses, Accept
<1>5. ASSUME NEW p \in Projects, ListMissing(p) \/ Purge(p) PROVE row' # "stale"
  BY <1>5 DEF ListMissing, Purge
<1>6. CASE IdleSweep
  BY <1>6 DEF IdleSweep
<1>7. CASE SessionExpires \/ PresenceExpires \/ RecordExpires
  BY <1>7 DEF SessionExpires, PresenceExpires, RecordExpires
<1>8. ASSUME NEW i \in Instances,
             Crash(i) \/ \E w \in Writers : HandleNotice(i, w)
      PROVE  row' # "stale"
  BY <1>8 DEF HandleNotice, Crash
<1>10. ASSUME NEW w \in Writers, TokenWrite(w) PROVE row' # "stale"
  BY <1>10 DEF TokenWrite, EditScope, RevokeToken, ClearRecord, PublishScope, WriterDies
<1>9. CASE UNCHANGED vars
  BY <1>9 DEF vars
<1> QED
  BY <1>1, <1>2, <1>3, <1>4, <1>5, <1>6, <1>7, <1>8, <1>9, <1>10 DEF Next

\* A graceful "offline" written between the sweep's SELECT and its UPDATE is
\* not overwritten by "stale" (markStaleOffline's conditional UPDATE).
THEOREM StaleNeverHidesOfflineHolds == Spec => StaleNeverHidesOffline
<1> DEFINE Kept == row = "offline" => row' # "stale"
<1>1. [Next]_vars => [Kept]_vars
  BY WhatFollowsOffline DEF vars
<1> HIDE DEF Kept
<1>2. Spec => [][Kept]_vars
  BY <1>1, PTL DEF Spec
<1> QED
  BY <1>2 DEF StaleNeverHidesOffline, Kept

\* A step that leaves the token, its events and the sockets map alone, and takes
\* no connection further towards the map.
LEMMA ScopeKept ==
    ASSUME ScopeSoFar,
           UNCHANGED <<on, scope, mapped, writerVars, unheard>>,
           open' \subseteq open, closing \cap open' \subseteq closing',
           \A n \in open' : (Attached(n)' => Attached(n)) /\ (Arriving(n)' => Arriving(n))
    PROVE  ScopeSoFar'
BY DEF ScopeSoFar, InTheMap, WillHear, EventToCome, writerVars

LEMMA ScopeSoFarNext == ConnInv /\ ScopeSoFar /\ [Next]_vars => ScopeSoFar'
<1> SUFFICES ASSUME ConnInv, ScopeSoFar, [Next]_vars PROVE ScopeSoFar'
  OBVIOUS
<1> USE DEF handlerVars, keyVars, rowVars, tokenVars, writerVars, history
<1>t. TypeOK /\ HandlersInOrder
  BY DEF ConnInv
<1>1. ASSUME NEW c \in Connections, NEW i \in Instances, Accept(c, i)
      PROVE  ScopeSoFar'
  <2>1. \A n \in open' : n = c \/ (n \in open /\ on'[n] = on[n] /\ up'[n] = up[n])
    BY <1>1, <1>t DEF Accept, TypeOK
  <2>2. up'[c] = "auth"
    BY <1>1, <1>t DEF Accept, TypeOK
  <2> QED
    BY <1>1, <2>1, <2>2 DEF Accept, ScopeSoFar, InTheMap, WillHear, EventToCome, Attached,
                            Arriving
<1>2. ASSUME NEW c \in Connections, Registration(c) PROVE ScopeSoFar'
  <2>1. CASE ReadCachedRecord(c)
    <3>1. \A n \in open \ {c} : up'[n] = up[n] /\ scope'[n] = scope[n]
      BY <2>1, <1>t DEF ReadCachedRecord, TypeOK
    <3>2. /\ open' = open /\ UNCHANGED <<on, mapped, closing, tokenScope, write, notices>>
          /\ unheard \subseteq unheard'
      BY <2>1 DEF ReadCachedRecord
    <3>3. c \in open \ unheard' => InTheMap(c)' /\ WillHear(c)'
      BY <2>1, <1>t DEF ReadCachedRecord, TypeOK, InTheMap, WillHear, EventToCome, Attached,
                  Arriving
    <3> QED
      BY <3>1, <3>2, <3>3 DEF ScopeSoFar, InTheMap, WillHear, EventToCome, Attached,
                              Arriving
  <2>2. CASE LoadRecord(c)
    BY <2>2, <1>t DEF LoadRecord, TypeOK, ScopeSoFar, InTheMap, WillHear, EventToCome,
                      Attached, Arriving
  <2>3. CASE StoreRecord(c)
    <3>1. closing \subseteq closing' /\ up'[c] \in {"attach", "rejected"}
      BY <2>3, <1>t DEF StoreRecord, TypeOK
    <3>2. \A n \in Connections : n # c => up'[n] = up[n]
      BY <2>3, <1>t DEF StoreRecord, TypeOK
    <3>3. up[c] = "store" /\ UNCHANGED <<open, on, scope, mapped, writerVars, unheard>>
      BY <2>3 DEF StoreRecord
    <3> QED
      BY <3>1, <3>2, <3>3, <1>t, ScopeKept DEF Attached, Arriving, TypeOK
  <2>4. CASE Attach(c)
    <3>1. on[c] \in Instances /\ up[c] = "attach"
      BY <2>4, <1>t DEF Attach, HandlersInOrder
    <3>2. \A n \in open \ {c} : up'[n] = up[n]
      BY <2>4, <1>t DEF Attach, TypeOK
    <3>3. ASSUME NEW n \in open \ unheard', n # c PROVE InTheMap(n)' /\ WillHear(n)'
      BY <2>4, <1>t, <3>1, <3>2, <3>3
         DEF Attach, TypeOK, HandlersInOrder, ScopeSoFar, InTheMap, WillHear, EventToCome,
             Attached, Arriving
    <3>4. c \in open \ unheard' => InTheMap(c)' /\ WillHear(c)'
      BY <2>4, <1>t, <3>1
         DEF Attach, TypeOK, ScopeSoFar, InTheMap, WillHear, EventToCome, Attached, Arriving
    <3> QED
      BY <2>4, <3>3, <3>4 DEF Attach, ScopeSoFar
  <2>5. CASE RejectConnection(c)
    BY <2>5, <1>t, ScopeKept DEF RejectConnection, TypeOK, Attached, Arriving
  <2>6. CASE RegistrationFails(c)
    <3>1. up[c] \in {"session", "find", "write", "presence", "join", "finish"}
      BY <2>6 DEF RegistrationFails
    <3> QED
      BY <2>6, <3>1, <1>t, ScopeKept DEF RegistrationFails, TypeOK, Attached, Arriving
  <2>7. CASE \/ SetSession(c) \/ FindRow(c) \/ WriteRow(c) \/ SetPresence(c) \/ Join(c)
             \/ FinishRegistration(c)
    <3>1. /\ up[c] \in {"session", "find", "write", "presence", "join", "finish"}
          /\ \E s \in {"find", "write", "presence", "join", "finish", "ready"} :
                 up' = [up EXCEPT ![c] = s]
      BY <2>7 DEF SetSession, FindRow, WriteRow, SetPresence, Join, FinishRegistration
    <3>2. UNCHANGED <<open, closing, on, scope, mapped, writerVars, unheard>>
      BY <2>7 DEF SetSession, FindRow, WriteRow, SetPresence, Join, FinishRegistration
    <3> QED
      BY <3>1, <3>2, <1>t, ScopeKept DEF TypeOK, Attached, Arriving
  <2> QED
    BY <1>2, <2>1, <2>2, <2>3, <2>4, <2>5, <2>6, <2>7 DEF Registration
<1>3. ASSUME NEW c \in Connections, SocketCloses(c) PROVE ScopeSoFar'
  <2>1. \A n \in open' \ unheard' : n # c /\ n \in open \ unheard
    BY <1>3 DEF SocketCloses
  <2>2. \A n \in open' \ unheard' : Attached(n) => mapped'[on[n]] = n
    BY <1>3, <1>t, <2>1 DEF SocketCloses, MapWithout, TypeOK, HandlersInOrder, ScopeSoFar,
                            InTheMap
  <2>3. UNCHANGED <<on, up, scope, writerVars>> /\ closing' = closing \ {c}
    BY <1>3 DEF SocketCloses
  <2> QED
    BY <2>1, <2>2, <2>3 DEF ScopeSoFar, InTheMap, WillHear, EventToCome, Attached, Arriving
<1>4. ASSUME NEW c \in Connections, CleanUp(c) PROVE ScopeSoFar'
  BY <1>4, ScopeKept
     DEF CleanUp, Claim, DeletePresence, Leave, MarkOffline, CleanUpFails, Overtakes,
         Attached, Arriving
<1>5. ASSUME NEW p \in Projects, ListMissing(p) \/ Purge(p) PROVE ScopeSoFar'
  BY <1>5, ScopeKept
     DEF ListMissing, Purge, OthersUnchanged, OvertakesAll, Attached, Arriving
<1>6. CASE Sweep \/ IdleSweep
  BY <1>6, ScopeKept
     DEF Sweep, SweepSelect, SweepCheck, SweepMark, IdleSweep, OthersUnchanged,
         OvertakesAll, Attached, Arriving
<1>7. CASE SessionExpires \/ PresenceExpires \/ RecordExpires
  BY <1>7, ScopeKept
     DEF SessionExpires, PresenceExpires, RecordExpires, OthersUnchanged, OvertakesAll,
         Attached, Arriving
<1>8. ASSUME NEW w \in Writers, TokenWrite(w) PROVE ScopeSoFar'
  <2>0. UNCHANGED <<open, closing, on, up, scope, mapped>> /\ unheard \subseteq unheard'
    BY <1>8 DEF TokenWrite, EditScope, RevokeToken, ClearRecord, PublishScope, WriterDies,
                KeepsFrom, OthersUnchanged
  <2>1. CASE EditScope(w)
    <3>1. write'[w] = "clear"
      BY <2>1, <1>t DEF EditScope, TypeOK
    <3>2. \A i : EventToCome(i)'
      BY <3>1 DEF EventToCome
    <3> QED
      BY <2>0, <3>2 DEF ScopeSoFar, InTheMap, WillHear, Attached
  <2>2. CASE RevokeToken(w)
    BY <2>0, <2>2 DEF RevokeToken, ScopeSoFar, InTheMap, WillHear, Attached
  <2>3. CASE ClearRecord(w)
    <3>1. \A i : EventToCome(i) => EventToCome(i)'
      BY <2>3, <1>t DEF ClearRecord, TypeOK, EventToCome
    <3> QED
      BY <2>0, <2>3, <3>1
         DEF ClearRecord, ScopeSoFar, InTheMap, WillHear, Attached, Arriving
  <2>4. CASE PublishScope(w)
    <3>1. PICK I \in SUBSET Instances :
            /\ notices' = [i \in Instances |->
                   IF i \in I THEN notices[i] \cup {w} ELSE notices[i]]
            /\ KeepsFrom(I)
      BY <2>4 DEF PublishScope
    <3>2. \A i \in I : EventToCome(i)'
      BY <3>1 DEF EventToCome
    <3>3. ASSUME NEW n \in open \ unheard', Attached(n) \/ Arriving(n)
          PROVE  EventToCome(on[n])'
      BY <2>0, <3>1, <3>2, <3>3 DEF KeepsFrom
    <3> QED
      BY <2>0, <2>4, <3>3
         DEF PublishScope, ScopeSoFar, InTheMap, WillHear, Attached, Arriving
  <2>5. CASE WriterDies(w)
    <3>1. CASE write[w] = "revoke"
      <4>1. \A i : EventToCome(i) => EventToCome(i)'
        BY <2>5, <3>1, <1>t DEF WriterDies, TypeOK, EventToCome
      <4> QED
        BY <2>0, <2>5, <4>1
           DEF WriterDies, ScopeSoFar, InTheMap, WillHear, Attached, Arriving
    <3>2. CASE write[w] # "revoke"
      <4>1. \A n \in open \ unheard' : ~Attached(n) /\ ~Arriving(n)
        BY <2>5, <3>2 DEF WriterDies, KeepsFrom
      <4> QED
        BY <2>0, <4>1 DEF ScopeSoFar, InTheMap, WillHear, Attached, Arriving
    <3> QED
      BY <3>1, <3>2
  <2> QED
    BY <1>8, <2>1, <2>2, <2>3, <2>4, <2>5 DEF TokenWrite
<1>9. ASSUME NEW i \in Instances, NEW w \in Writers, HandleNotice(i, w)
      PROVE  ScopeSoFar'
  <2>1. UNCHANGED <<open, on, up, scope, mapped, tokenScope, write>>
    BY <1>9 DEF HandleNotice
  <2>2. closing \subseteq closing' /\ unheard \subseteq unheard'
    BY <1>9 DEF HandleNotice
  <2>3. \A n \in open \ unheard' : on[n] = i /\ Attached(n) => n \in closing'
    BY <1>9, <2>2 DEF HandleNotice, LocalSession, ScopeSoFar, InTheMap
  <2>4. \A n \in open \ unheard' : on[n] = i => ~Arriving(n)
    BY <1>9 DEF HandleNotice
  <2>5. \A j : j # i /\ EventToCome(j) => EventToCome(j)'
    BY <1>9, <1>t DEF HandleNotice, TypeOK, EventToCome
  <2> QED
    BY <2>1, <2>2, <2>3, <2>4, <2>5 DEF ScopeSoFar, InTheMap, WillHear, Attached, Arriving
<1>10. ASSUME NEW i \in Instances, Crash(i) PROVE ScopeSoFar'
  <2> DEFINE dead == {c \in Connections : on[c] = i /\ up[c] # "none"}
  <2>1. \A n \in open' \ unheard' : n \in open \ unheard /\ on[n] # i /\ n \notin dead
    BY <1>10, <1>t DEF Crash, HandlersInOrder, TypeOK
  <2>2. \A n \in open' : up'[n] = up[n]
    BY <1>10, <1>t DEF Crash, TypeOK
  <2>3. /\ UNCHANGED <<on, scope, tokenScope, write>>
        /\ closing' = closing \ dead
        /\ mapped' = [mapped EXCEPT ![i] = None]
        /\ notices' = [notices EXCEPT ![i] = {}]
    BY <1>10 DEF Crash
  <2>4. \A j : j # i /\ EventToCome(j) => EventToCome(j)'
    BY <2>3, <1>t DEF EventToCome, TypeOK
  <2>5. \A n \in open' \ unheard' : Attached(n) => mapped'[on[n]] = n
    BY <2>1, <2>3, <1>t DEF TypeOK, HandlersInOrder, ScopeSoFar, InTheMap
  <2> QED
    BY <2>1, <2>2, <2>3, <2>4, <2>5
       DEF ScopeSoFar, InTheMap, WillHear, Attached, Arriving
<1>11. CASE UNCHANGED vars
  BY <1>11, ScopeKept DEF vars, Attached, Arriving
<1> QED
  BY <1>1, <1>2, <1>3, <1>4, <1>5, <1>6, <1>7, <1>8, <1>9, <1>10, <1>11 DEF Next

\* The invariant of the sockets map and of the way of a scope-changed event.
THEOREM ScopeInvHolds == Spec => []ScopeInv
<1>1. Init => ScopeInv
  BY ConnInvInit DEF Init, ScopeInv, ScopeSoFar
<1>2. ScopeInv /\ [Next]_vars => ScopeInv'
  BY ConnInvNext, ScopeSoFarNext DEF ScopeInv
<1> QED
  BY <1>1, <1>2, PTL DEF Spec

\* A scope edit misses no registered connection whose instance the event reaches,
\* unless the event found it before it was in the sockets map, a later socket had
\* replaced it there, or it was given an old cached record (updateProjects).
THEOREM ScopeEditReachesHolds == Spec => []ScopeEditReaches
<1>1. ScopeInv => ScopeEditReaches
  BY DEF ScopeInv, ScopeSoFar, WillHear, ScopeEditReaches, Follows
<1> QED
  BY <1>1, ScopeInvHolds, PTL

\* A step that takes the device out of projects, or changes a connection that is
\* not part of a list, leaves every other membership explained.
LEMMA ListedKept ==
    ASSUME ListedWhileHeld, listed' \subseteq listed,
           leftBehind \cap listed' \subseteq leftBehind',
           \A c \in Connections, p \in listed' :
               up[c] \in {"join", "finish", "ready", "failed"} /\ p \in Leaves(c)
                   => \/ up'[c] \in {"join", "finish", "ready", "failed"} /\ p \in Leaves(c)'
                      \/ p \in leftBehind'
    PROVE  ListedWhileHeld'
BY DEF ListedWhileHeld

LEMMA ListedWhileHeldNext ==
    ListedInv /\ [Next]_vars => ListedWhileHeld'
<1> SUFFICES ASSUME ConnInv, LeavesItsOwn, ListedWhileHeld, [Next]_vars PROVE ListedWhileHeld'
  BY DEF ListedInv
<1> USE DEF handlerVars, keyVars, rowVars, tokenVars, writerVars, history
<1>t. TypeOK /\ HandlersInOrder
  BY DEF ConnInv
<1>1. ASSUME NEW c \in Connections, NEW i \in Instances, Accept(c, i)
      PROVE  ListedWhileHeld'
  BY <1>1, <1>t, ListedKept DEF Accept, TypeOK, Leaves
<1>2. ASSUME NEW c \in Connections, Registration(c) PROVE ListedWhileHeld'
  <2>1. CASE ReadCachedRecord(c)
    BY <2>1, <1>t, ListedKept DEF ReadCachedRecord, TypeOK, Leaves
  <2>2. CASE LoadRecord(c)
    BY <2>2, <1>t, ListedKept DEF LoadRecord, TypeOK, Leaves
  <2>3. CASE StoreRecord(c)
    BY <2>3, <1>t, ListedKept DEF StoreRecord, TypeOK, Leaves
  <2>4. CASE \/ Attach(c) \/ SetSession(c) \/ FindRow(c) \/ WriteRow(c) \/ SetPresence(c)
             \/ FinishRegistration(c) \/ RejectConnection(c)
    <3>1. /\ up[c] \notin {"join", "ready", "failed"}
          /\ up' = [up EXCEPT ![c] = up'[c]]
          /\ up[c] = "finish" => up'[c] = "ready"
      BY <2>4, <1>t DEF Attach, SetSession, FindRow, WriteRow, SetPresence, TypeOK,
                        FinishRegistration, RejectConnection
    <3>2. UNCHANGED <<down, scope, leaving, listed, leftBehind>>
      BY <2>4 DEF Attach, SetSession, FindRow, WriteRow, SetPresence, FinishRegistration,
                  RejectConnection
    <3> QED
      BY <3>1, <3>2, <1>t, ListedKept DEF TypeOK, Leaves
  <2>5. CASE Join(c)
    <3>1. PICK p \in joining[c] :
            /\ listed' = listed \cup {p}
            /\ leftBehind' = leftBehind \cup ({p} \ Leaves(c))
            /\ up' = [up EXCEPT ![c] = IF joining[c] = {p} THEN "finish" ELSE "join"]
      BY <2>5 DEF Join
    <3>2. UNCHANGED <<down, scope, leaving>>
      BY <2>5 DEF Join
    <3>3. \A n \in Connections :
            up[n] \in {"join", "finish", "ready", "failed"}
                => up'[n] \in {"join", "finish", "ready", "failed"}
      BY <3>1, <1>t DEF TypeOK
    <3>4. up'[c] \in {"join", "finish"}
      BY <3>1, <1>t DEF TypeOK
    <3> QED
      BY <3>1, <3>2, <3>3, <3>4 DEF ListedWhileHeld, Leaves
  <2>6. CASE RegistrationFails(c)
    <3>1. PICK P \in SUBSET Projects :
            /\ listed' = listed \cup P
            /\ leftBehind' = leftBehind \cup (P \ Leaves(c))
      <4>1. CASE up[c] = "join"
        BY <2>6, <4>1, <1>t DEF RegistrationFails, TypeOK
      <4>2. CASE up[c] # "join"
        <5>1. listed' = listed /\ leftBehind' = leftBehind
          BY <2>6, <4>2 DEF RegistrationFails
        <5>2. listed' = listed \cup {} /\ leftBehind' = leftBehind \cup ({} \ Leaves(c))
          BY <5>1
        <5> QED
          BY <5>2
      <4> QED
        BY <4>1, <4>2
    <3>2. UNCHANGED <<down, scope, leaving>> /\ up' = [up EXCEPT ![c] = "failed"]
      BY <2>6 DEF RegistrationFails
    <3>3. \A n \in Connections :
            up[n] \in {"join", "finish", "ready", "failed"}
                => up'[n] \in {"join", "finish", "ready", "failed"}
      BY <3>2, <1>t DEF TypeOK
    <3>4. up'[c] = "failed"
      BY <3>2, <1>t DEF TypeOK
    <3> QED
      BY <3>1, <3>2, <3>3, <3>4 DEF ListedWhileHeld, Leaves
  <2> QED
    BY <1>2, <2>1, <2>2, <2>3, <2>4, <2>5, <2>6 DEF Registration
<1>3. ASSUME NEW c \in Connections, SocketCloses(c) PROVE ListedWhileHeld'
  BY <1>3, <1>t, ListedKept DEF SocketCloses, TypeOK, HandlersInOrder, Attached, Leaves
<1>4. ASSUME NEW c \in Connections, CleanUp(c) PROVE ListedWhileHeld'
  <2>1. CASE Claim(c)
    BY <2>1, <1>t, ListedKept DEF Claim, TypeOK, Leaves
  <2>2. CASE DeletePresence(c)
    BY <2>2, <1>t, ListedKept DEF DeletePresence, LeavesOwnScope, TypeOK, Leaves
  <2>3. CASE Leave(c)
    BY <2>3, <1>t, ListedKept DEF Leave, TypeOK, Leaves
  <2>4. CASE MarkOffline(c)
    BY <2>4, <1>t, ListedKept DEF MarkOffline, TypeOK, Leaves
  <2>5. CASE CleanUpFails(c)
    <3>1. listed' \subseteq listed /\ leftBehind' = leftBehind \cup (scope[c] \cap listed')
      BY <2>5 DEF CleanUpFails
    <3>2. /\ down[c] # "none" /\ UNCHANGED <<up, scope>>
          /\ down' = [down EXCEPT ![c] = "done"]
          /\ leaving' = [leaving EXCEPT ![c] = {}]
      BY <2>5 DEF CleanUpFails
    <3>3. \A n \in Connections : n # c => Leaves(n)' = Leaves(n)
      BY <3>2, <1>t DEF TypeOK, Leaves
    <3>4. Leaves(c) \subseteq scope[c]
      BY DEF LeavesItsOwn, Leaves
    <3> QED
      BY <3>1, <3>2, <3>3, <3>4, ListedKept
  <2> QED
    BY <1>4, <2>1, <2>2, <2>3, <2>4, <2>5 DEF CleanUp
<1>5. ASSUME NEW p \in Projects, ListMissing(p) \/ Purge(p) PROVE ListedWhileHeld'
  BY <1>5, ListedKept DEF ListMissing, Purge, OthersUnchanged, Leaves
<1>6. CASE Sweep \/ IdleSweep
  BY <1>6, ListedKept DEF Sweep, SweepSelect, SweepCheck, SweepMark, IdleSweep,
                          OthersUnchanged, OvertakesAll, Leaves
<1>7. CASE SessionExpires \/ PresenceExpires \/ RecordExpires
  BY <1>7, ListedKept DEF SessionExpires, PresenceExpires, RecordExpires,
                          OthersUnchanged, OvertakesAll, Leaves
<1>8. ASSUME NEW w \in Writers, TokenWrite(w) PROVE ListedWhileHeld'
  <2>1. UNCHANGED <<up, down, scope, leaving, listed, leftBehind>>
    BY <1>8 DEF TokenWrite, EditScope, RevokeToken, ClearRecord, PublishScope, WriterDies,
                OthersUnchanged
  <2> QED
    BY <2>1, ListedKept DEF Leaves
<1>9. ASSUME NEW i \in Instances, NEW w \in Writers, HandleNotice(i, w)
      PROVE  ListedWhileHeld'
  BY <1>9, ListedKept DEF HandleNotice, Leaves
<1>10. ASSUME NEW i \in Instances, Crash(i) PROVE ListedWhileHeld'
  <2> DEFINE dead == {c \in Connections : on[c] = i /\ up[c] # "none"}
  <2>1. /\ listed' = listed
        /\ leftBehind' = leftBehind \cup {p \in listed : \E c \in dead : p \in scope[c]}
        /\ scope' = scope
    BY <1>10 DEF Crash
  <2>2. \A c \in Connections \ dead :
          up'[c] = up[c] /\ down'[c] = down[c] /\ leaving'[c] = leaving[c]
    BY <1>10 DEF Crash
  <2>3. \A c \in Connections : Leaves(c) \subseteq scope[c]
    BY DEF LeavesItsOwn, Leaves
  <2>4. ASSUME NEW c \in Connections, NEW p \in listed',
               up[c] \in {"join", "finish", "ready", "failed"}, p \in Leaves(c)
        PROVE  \/ up'[c] \in {"join", "finish", "ready", "failed"} /\ p \in Leaves(c)'
               \/ p \in leftBehind'
    <3>1. CASE c \in dead
      BY <2>1, <2>3, <2>4, <3>1
    <3>2. CASE c \notin dead
      BY <2>1, <2>2, <2>4, <3>2 DEF Leaves
    <3> QED
      BY <3>1, <3>2
  <2> HIDE DEF dead
  <2> QED
    BY <2>1, <2>4, ListedKept
<1>11. CASE UNCHANGED vars
  BY <1>11, ListedKept DEF vars, Leaves
<1> QED
  BY <1>1, <1>2, <1>3, <1>4, <1>5, <1>6, <1>7, <1>8, <1>9, <1>10, <1>11 DEF Next

LEMMA LeavesItsOwnNext == ListedInv /\ [Next]_vars => LeavesItsOwn'
<1> SUFFICES ASSUME ConnInv, LeavesItsOwn, [Next]_vars PROVE LeavesItsOwn'
  BY DEF ListedInv
<1> USE DEF handlerVars, keyVars, rowVars, tokenVars, writerVars, history, Attached
<1>t. TypeOK /\ HandlersInOrder
  BY DEF ConnInv
<1>1. ASSUME NEW c \in Connections, NEW i \in Instances, Accept(c, i)
      PROVE  LeavesItsOwn'
  BY <1>1, <1>t DEF Accept, TypeOK, HandlersInOrder, LeavesItsOwn
<1>2. ASSUME NEW c \in Connections, Registration(c) PROVE LeavesItsOwn'
  <2>1. UNCHANGED <<down, leaving>>
    BY <1>2 DEF Registration, ReadCachedRecord, LoadRecord, StoreRecord, Attach, SetSession,
                FindRow, WriteRow, SetPresence, Join, FinishRegistration,
                RejectConnection, RegistrationFails
  <2>2. \A n \in Connections :
          /\ Attached(n) => Attached(n)' /\ scope'[n] = scope[n]
          /\ n # c => scope'[n] = scope[n]
    BY <1>2, <1>t
       DEF Registration, ReadCachedRecord, LoadRecord, StoreRecord, Attach, SetSession,
           FindRow, WriteRow, SetPresence, Join, FinishRegistration, RejectConnection,
           RegistrationFails, TypeOK
  <2>3. \A n \in Connections : leaving[n] # {} => Attached(n)
    BY DEF LeavesItsOwn
  <2> QED
    BY <2>1, <2>2, <2>3 DEF LeavesItsOwn
<1>3. ASSUME NEW c \in Connections, SocketCloses(c) PROVE LeavesItsOwn'
  BY <1>3, <1>t DEF SocketCloses, TypeOK, HandlersInOrder, LeavesItsOwn
<1>4. ASSUME NEW c \in Connections, CleanUp(c) PROVE LeavesItsOwn'
  <2>1. /\ UNCHANGED <<up, scope>>
        /\ down[c] \in {"claim", "presence", "leave", "row"}
        /\ \A n \in Connections : n # c => down'[n] = down[n] /\ leaving'[n] = leaving[n]
    BY <1>4, <1>t DEF CleanUp, Claim, DeletePresence, Leave, MarkOffline, CleanUpFails, TypeOK
  <2>2. /\ leaving'[c] \subseteq scope[c]
        /\ leaving'[c] # {} => down'[c] = "leave"
    <3>1. CASE Claim(c) \/ DeletePresence(c) \/ MarkOffline(c) \/ CleanUpFails(c)
      BY <3>1, <1>t DEF Claim, DeletePresence, LeavesOwnScope, MarkOffline, CleanUpFails,
                        TypeOK, LeavesItsOwn
    <3>2. CASE Leave(c)
      BY <3>2, <1>t DEF Leave, TypeOK, LeavesItsOwn
    <3> QED
      BY <1>4, <3>1, <3>2 DEF CleanUp
  <2> QED
    BY <2>1, <2>2 DEF LeavesItsOwn
<1>5. ASSUME NEW i \in Instances, Crash(i) PROVE LeavesItsOwn'
  BY <1>5, <1>t DEF Crash, TypeOK, LeavesItsOwn
<1>6. CASE UNCHANGED <<up, down, scope, leaving>>
  BY <1>6 DEF LeavesItsOwn
<1>7. ASSUME NEW p \in Projects, ListMissing(p) \/ Purge(p) PROVE UNCHANGED handlerVars
  BY <1>7 DEF ListMissing, Purge, OthersUnchanged
<1>8. ASSUME Sweep \/ IdleSweep \/ SessionExpires \/ PresenceExpires \/ RecordExpires
      PROVE  UNCHANGED handlerVars
  BY <1>8 DEF Sweep, SweepSelect, SweepCheck, SweepMark, IdleSweep, SessionExpires,
              PresenceExpires, RecordExpires, OthersUnchanged
<1>9. ASSUME NEW w \in Writers,
             TokenWrite(w) \/ \E i \in Instances : HandleNotice(i, w)
      PROVE  UNCHANGED handlerVars
  BY <1>9 DEF TokenWrite, EditScope, RevokeToken, ClearRecord, PublishScope, WriterDies,
              HandleNotice, OthersUnchanged
<1> QED
  BY <1>1, <1>2, <1>3, <1>4, <1>5, <1>6, <1>7, <1>8, <1>9 DEF Next, vars

\* Every membership has a connection that joined it, or a clean-up that was not
\* carried through to account for.
THEOREM ListedInvHolds == Spec => []ListedInv
<1>1. Init => ListedInv
  BY ConnInvInit DEF Init, ListedInv, LeavesItsOwn, ListedWhileHeld
<1>2. ListedInv /\ [Next]_vars => ListedInv'
  BY ConnInvNext, LeavesItsOwnNext, ListedWhileHeldNext DEF ListedInv
<1> QED
  BY <1>1, <1>2, PTL DEF Spec

\* No project keeps the device listed that no connection of its accounts for,
\* however the token's scope is edited (PresenceService.online and offline).
THEOREM ListedWhileHeldHolds == Spec => []ListedWhileHeld
<1>1. ListedInv => ListedWhileHeld
  BY DEF ListedInv
<1> QED
  BY <1>1, ListedInvHolds, PTL
=============================================================================
