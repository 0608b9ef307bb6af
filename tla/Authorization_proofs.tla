------------------------ MODULE Authorization_proofs ------------------------
(* Proofs about Authorization, for any users, roles, permissions, concurrent *)
(* requests and writes.                                                     *)
EXTENDS Authorization, TLAPS

\* What a job names depends on what it does.
LEMMA JobFields ==
    ASSUME NEW j \in Jobs
    PROVE  /\ j.op \in UserOps \cup MemberOps \cup {"createUser"} => j.user \in Users
           /\ j.op \in MemberOps \cup GrantOps \cup {"deleteRole", "createRole"}
                  => j.role \in Roles
           /\ j.op \in GrantOps \cup {"deletePermission", "createPermission"}
                  => j.permission \in Permissions
           /\ j.op \in UserOps \cup RootOps \cup {"createUser"}
BY DEF Jobs, Job, UserOps, MemberOps, GrantOps, RootOps, ListingOps

LEMMA TruthType == \A u \in Users : Truth(u) \in {None} \cup Snapshots
BY DEF Truth, Rights, Snapshots

\* Rights and lists depend on the rows only.
LEMMA RowsDecide ==
    ASSUME UNCHANGED rights
    PROVE  /\ \A u : Truth(u)' = Truth(u) /\ Rights(u)' = Rights(u)
           /\ \A j : Affected(j)' = Affected(j)
BY DEF rights, Truth, Rights, Affected, HoldersOf, MembersOf

LEMMA RowsRights == ASSUME UNCHANGED rows PROVE UNCHANGED rights
BY DEF rows, rights

SameFields(q) ==
    /\ step'[q] = step[q] /\ who'[q] = who[q] /\ held'[q] = held[q]
    /\ job'[q] = job[q] /\ targets'[q] = targets[q]

\* A step of another request that writes no row leaves a request as it is.
LEMMA LocalKept ==
    ASSUME NEW q \in Requests, Local(q), UNCHANGED rights, SameFields(q),
           newcomers'[q] = newcomers[q], q \in outdated => q \in outdated'
    PROVE  Local(q)'
<1>1. InOrder(q)'
  BY DEF Local, InOrder, SameFields
<1>2. Founded(q)'
  BY DEF Local, Founded, SameFields, rights
<1>3. ListedOrNew(q)'
  <2>1. Affected(job[q])' = Affected(job[q])
    BY DEF SameFields, rights, Affected, HoldersOf, MembersOf
  <2> QED
    BY <2>1 DEF Local, ListedOrNew, SameFields
<1>4. LoadIsFresh(q)'
  BY RowsDecide DEF Local, LoadIsFresh, SameFields, rights
<1> QED
  BY <1>1, <1>2, <1>3, <1>4 DEF Local

-----------------------------------------------------------------------------
(* Steps that write no row.                                                 *)

OnlyRequest(r) ==
    \A q \in Requests \ {r} : SameFields(q) /\ newcomers'[q] = newcomers[q]

LocalTypes ==
    /\ step \in [Requests -> Steps]
    /\ who \in [Requests -> Users \cup {None}]
    /\ held \in [Requests -> {None} \cup Snapshots]
    /\ job \in [Requests -> Jobs \cup {None}]
    /\ targets \in [Requests -> SUBSET Users]
    /\ newcomers \in [Requests -> SUBSET Users]

SharedTypes ==
    /\ account \in [Users -> {"unborn", "enabled", "disabled", "deleted"}]
    /\ profile \in [Users -> Users \cup {None}]
    /\ role \in [Roles -> RowStates]
    /\ permission \in [Permissions -> RowStates]
    /\ members \subseteq Users \X Roles
    /\ grants \subseteq Roles \X Permissions
    /\ cache \in [Users -> {None} \cup Snapshots]
    /\ outdated \subseteq Requests
    /\ stale \subseteq Users
    /\ missed \subseteq Users

LEMMA Types == TypeOK <=> LocalTypes /\ SharedTypes /\ asked \in 0..MaxWrites
BY DEF TypeOK, LocalTypes, SharedTypes

LEMMA LocalStep ==
    ASSUME AuthorizationInv, NEW r \in Requests, OnlyRequest(r), Local(r)', LocalTypes',
           SharedTypes', asked' \in 0..MaxWrites, UNCHANGED rights,
           outdated \ {r} \subseteq outdated',
           \A u \in Users : cache'[u] # None => account[u] # "unborn",
           SnapshotExplained'
    PROVE  AuthorizationInv'
<1>1. ASSUME NEW q \in Requests PROVE Local(q)'
  <2>1. CASE q = r
    BY <2>1
  <2>2. CASE q # r
    <3>1. Local(q) /\ SameFields(q) /\ newcomers'[q] = newcomers[q]
      BY <2>2 DEF AuthorizationInv, OnlyRequest
    <3>2. q \in outdated => q \in outdated'
      BY <2>2
    <3> QED
      BY <3>1, <3>2, RowsRights, LocalKept
  <2> QED
    BY <2>1, <2>2
<1>2. TypeOK'
  BY DEF TypeOK, LocalTypes, SharedTypes
<1>3. Born'
  BY DEF AuthorizationInv, Born, rights
<1> QED
  BY <1>1, <1>2, <1>3 DEF AuthorizationInv

\* A request that has no DEL to send explains no snapshot.
LEMMA StillExplained ==
    ASSUME SnapshotExplained, NEW r \in Requests, OnlyRequest(r), step[r] # "clear",
           UNCHANGED <<rights, cache, stale, missed>>
    PROVE  SnapshotExplained'
<1> SUFFICES ASSUME NEW u \in Users, cache[u] \notin {None, Truth(u)'}
             PROVE  \/ u \in stale \cup missed
                    \/ \E q \in Requests : step'[q] = "clear" /\ u \in targets'[q]
  BY DEF SnapshotExplained
<1>1. cache[u] \notin {None, Truth(u)}
  BY RowsDecide
<1>2. \A q \in Requests : step[q] = "clear" => step'[q] = "clear" /\ targets'[q] = targets[q]
  BY DEF OnlyRequest, SameFields
<1> QED
  BY <1>1, <1>2 DEF SnapshotExplained

LEMMA QuietStep ==
    ASSUME AuthorizationInv, NEW r \in Requests, OnlyRequest(r), Local(r)', LocalTypes',
           asked' \in 0..MaxWrites, step[r] # "clear",
           UNCHANGED <<rows, cache, outdated, stale, missed>>
    PROVE  AuthorizationInv'
<1>1. SharedTypes'
  BY DEF AuthorizationInv, TypeOK, SharedTypes, rows, rights
<1>2. \A u \in Users : cache'[u] # None => account[u] # "unborn"
  BY DEF AuthorizationInv, Born
<1>3. SnapshotExplained'
  BY RowsRights, StillExplained DEF AuthorizationInv
<1> QED
  BY <1>1, <1>2, <1>3, RowsRights, LocalStep

LEMMA Finished ==
    ASSUME TypeOK, NEW r \in Requests, Finish(r)
    PROVE  OnlyRequest(r) /\ LocalTypes' /\ Local(r)'
<1>1. step'[r] = "idle" /\ r \in DOMAIN step /\ OnlyRequest(r)
  BY DEF Finish, TypeOK, OnlyRequest, SameFields
<1>2. LocalTypes'
  BY DEF Finish, TypeOK, LocalTypes, Steps
<1>3. Local(r)'
  BY <1>1 DEF Local, InOrder, Founded, ListedOrNew, LoadIsFresh
<1> QED
  BY <1>1, <1>2, <1>3

LEMMA FinishStep ==
    ASSUME AuthorizationInv, NEW r \in Requests, Finish(r), step[r] # "clear",
           UNCHANGED <<asked, rows, cache, outdated, stale, missed>>
    PROVE  AuthorizationInv'
<1>1. TypeOK /\ asked' \in 0..MaxWrites
  BY DEF AuthorizationInv, TypeOK
<1> QED
  BY <1>1, Finished, QuietStep

LEMMA AuthenticateStep ==
    ASSUME AuthorizationInv, NEW r \in Requests, NEW u \in Users, Authenticate(r, u)
    PROVE  AuthorizationInv'
<1>0. TypeOK
  BY DEF AuthorizationInv
<1>1. OnlyRequest(r)
  BY <1>0 DEF Authenticate, OnlyRequest, SameFields, TypeOK
<1>2. LocalTypes' /\ asked' \in 0..MaxWrites
  BY <1>0 DEF Authenticate, TypeOK, LocalTypes, Steps
<1>3. /\ who'[r] = u /\ account'[u] # "unborn"
      /\ step'[r] = "account" \/ (step'[r] = "guard" /\ held'[r] \in Snapshots)
  BY <1>0 DEF Authenticate, TypeOK, rows, rights
<1>4. Local(r)'
  BY <1>3 DEF Local, InOrder, Founded, ListedOrNew, LoadIsFresh
<1> QED
  BY <1>1, <1>2, <1>4, QuietStep DEF Authenticate

LEMMA LoadStep ==
    ASSUME AuthorizationInv, NEW r \in Requests, Load(r)
    PROVE  AuthorizationInv'
<1>0. TypeOK /\ Local(r)
  BY DEF AuthorizationInv
<1>1. CASE LoadAccount(r)
  <2>1. CASE account[who[r]] = "enabled"
    <3>1. GoOn(r, "rights") /\ UNCHANGED <<held, targets>> /\ step[r] = "account"
      BY <1>1, <2>1 DEF LoadAccount
    <3>2. OnlyRequest(r) /\ LocalTypes' /\ asked' \in 0..MaxWrites
      BY <1>0, <1>1, <3>1 DEF LoadAccount, GoOn, OnlyRequest, SameFields, TypeOK, LocalTypes, Steps
    <3>3. step'[r] = "rights" /\ who'[r] = who[r] /\ account' = account
      BY <1>0, <1>1, <3>1 DEF LoadAccount, GoOn, TypeOK, rows, rights
    <3>4. Local(r)'
      BY <1>0, <2>1, <3>1, <3>3 DEF Local, InOrder, Founded, ListedOrNew, LoadIsFresh
    <3> QED
      BY <1>1, <3>1, <3>2, <3>4, QuietStep DEF LoadAccount
  <2>2. CASE account[who[r]] # "enabled"
    BY <1>1, <2>2, FinishStep DEF LoadAccount
  <2> QED
    BY <2>1, <2>2
<1>2. CASE LoadRights(r)
  <2>1. step[r] = "rights" /\ GoOn(r, "store") /\ UNCHANGED targets
    BY <1>2 DEF LoadRights
  <2>2. Rights(who[r]) \in Snapshots
    BY DEF Rights, Snapshots
  <2>3. OnlyRequest(r) /\ LocalTypes' /\ asked' \in 0..MaxWrites
    BY <1>0, <1>2, <2>1, <2>2
    DEF LoadRights, GoOn, OnlyRequest, SameFields, TypeOK, LocalTypes, Steps
  <2>4. /\ step'[r] = "store" /\ who'[r] = who[r] /\ held'[r] = Rights(who[r])
        /\ account' = account /\ outdated' = outdated
    BY <1>0, <1>2, <2>1 DEF LoadRights, GoOn, TypeOK, rows, rights
  <2>5. r \notin outdated => (held[r] = Truth(who[r]))'
    BY <1>0, <1>2, <2>1, <2>4 DEF Local, LoadIsFresh, LoadRights, rows, rights, Truth, Rights
  <2>6. Local(r)'
    BY <1>0, <2>1, <2>2, <2>4, <2>5 DEF Local, InOrder, Founded, ListedOrNew, LoadIsFresh
  <2> QED
    BY <1>2, <2>1, <2>3, <2>6, QuietStep DEF LoadRights
<1>3. CASE Store(r)
  <2>1. /\ step[r] = "store" /\ GoOn(r, "guard") /\ UNCHANGED <<asked, rows, held, targets>>
        /\ outdated' = outdated \ {r}
    BY <1>3 DEF Store
  <2>2. who[r] \in Users /\ held[r] \in Snapshots /\ account[who[r]] # "unborn"
    BY <1>0, <2>1 DEF Local, InOrder, Founded
  <2>3. OnlyRequest(r) /\ LocalTypes' /\ asked' \in 0..MaxWrites
    BY <1>0, <2>1 DEF GoOn, OnlyRequest, SameFields, TypeOK, LocalTypes, Steps
  <2>4. step'[r] = "guard" /\ who'[r] = who[r] /\ held'[r] = held[r] /\ account' = account
    BY <1>0, <2>1 DEF GoOn, TypeOK, rows, rights
  <2>5. Local(r)'
    BY <2>2, <2>4 DEF Local, InOrder, Founded, ListedOrNew, LoadIsFresh
  <2>6. CASE UNCHANGED <<cache, stale, missed>>
    <3>1. SharedTypes'
      BY <1>0, <2>1, <2>6 DEF TypeOK, SharedTypes, rows, rights
    <3>2. SnapshotExplained'
      BY <2>1, <2>3, <2>6, RowsRights, StillExplained DEF AuthorizationInv
    <3>3. \A u \in Users : cache'[u] # None => account[u] # "unborn"
      BY <2>6 DEF AuthorizationInv, Born
    <3> QED
      BY <2>1, <2>3, <2>5, <3>1, <3>2, <3>3, RowsRights, LocalStep
  <2>7. CASE /\ cache' = [cache EXCEPT ![who[r]] = held[r]]
             /\ stale' = IF r \in outdated THEN stale \cup {who[r]} ELSE stale \ {who[r]}
             /\ missed' = missed \ {who[r]}
    <3>1. SharedTypes'
      <4>1. stale' \subseteq Users /\ missed' \subseteq Users
        BY <1>0, <2>2, <2>7 DEF TypeOK
      <4>2. cache' \in [Users -> {None} \cup Snapshots]
        BY <1>0, <2>2, <2>7 DEF TypeOK
      <4> QED
        BY <1>0, <2>1, <4>1, <4>2 DEF TypeOK, SharedTypes, rows, rights
    <3>2. \A u \in Users : cache'[u] # None => account[u] # "unborn"
      BY <1>0, <2>2, <2>7 DEF AuthorizationInv, Born, TypeOK
    <3>3. SnapshotExplained'
      <4> SUFFICES ASSUME NEW u \in Users, cache'[u] \notin {None, Truth(u)'}
                   PROVE  \/ u \in stale' \cup missed'
                          \/ \E q \in Requests : step'[q] = "clear" /\ u \in targets'[q]
        BY DEF SnapshotExplained
      <4>1. Truth(u)' = Truth(u)
        BY <2>1, RowsRights, RowsDecide
      <4>2. CASE u = who[r]
        <5>1. cache'[u] = held[r]
          BY <1>0, <2>7, <4>2 DEF TypeOK
        <5>2. r \in outdated
          BY <1>0, <2>1, <4>1, <4>2, <5>1 DEF Local, LoadIsFresh
        <5> QED
          BY <2>7, <4>2, <5>2
      <4>3. CASE u # who[r]
        <5>1. cache'[u] = cache[u]
          BY <1>0, <2>7, <4>3 DEF TypeOK
        <5>2. \/ u \in stale \cup missed
              \/ \E q \in Requests : step[q] = "clear" /\ u \in targets[q]
          BY <4>1, <5>1 DEF AuthorizationInv, SnapshotExplained
        <5>3. \A q \in Requests :
                 step[q] = "clear" => step'[q] = "clear" /\ targets'[q] = targets[q]
          BY <2>1, <2>3 DEF OnlyRequest, SameFields
        <5>4. u \in stale \cup missed => u \in stale' \cup missed'
          BY <2>7, <4>3
        <5> QED
          BY <5>2, <5>3, <5>4
      <4> QED
        BY <4>2, <4>3
    <3> QED
      BY <2>1, <2>3, <2>5, <3>1, <3>2, <3>3, RowsRights, LocalStep
  <2> QED
    BY <1>3, <2>6, <2>7 DEF Store
<1> QED
  BY <1>1, <1>2, <1>3 DEF Load

LEMMA StartStep ==
    ASSUME AuthorizationInv, NEW r \in Requests, Start(r)
    PROVE  AuthorizationInv'
<1>0. TypeOK /\ Local(r)
  BY DEF AuthorizationInv
<1>1. PICK j \in Jobs : /\ job' = [job EXCEPT ![r] = j]
                        /\ step' = [step EXCEPT ![r] = FirstStep(j.op)]
  BY DEF Start
<1>2. /\ FirstStep(j.op) \in {"policy", "role", "list", "write"}
      /\ FirstStep(j.op) = "policy" => j.op \in UserOps \cup MemberOps
      /\ FirstStep(j.op) = "role" => j.op = "attach"
      /\ FirstStep(j.op) = "list" => j.op \in ListingOps \ {"attach"}
      /\ FirstStep(j.op) = "write" => j.op \notin UserOps \cup MemberOps \cup ListingOps
  BY DEF FirstStep, UserOps, MemberOps, GrantOps, ListingOps
<1>3. asked' \in 0..MaxWrites
  BY <1>0, AuthorizationConstants DEF Start, TypeOK
<1>4. OnlyRequest(r)
  BY <1>0, <1>1 DEF Start, OnlyRequest, SameFields, TypeOK
<1>5. LocalTypes'
  BY <1>0, <1>1, <1>2 DEF Start, TypeOK, LocalTypes, Steps
<1>6. /\ step[r] = "guard" /\ step'[r] = FirstStep(j.op) /\ job'[r] = j
      /\ who'[r] = who[r] /\ account' = account
  BY <1>0, <1>1 DEF Start, TypeOK, rows, rights
<1>7. InOrder(r)'
  BY <1>0, <1>2, <1>6 DEF Local, InOrder, UserOps, MemberOps
<1>8. Founded(r)'
  BY <1>0, <1>2, <1>6 DEF Local, Founded, MemberOps, ListingOps, GrantOps
<1>9. ListedOrNew(r)' /\ LoadIsFresh(r)'
  BY <1>2, <1>6 DEF ListedOrNew, LoadIsFresh
<1> QED
  BY <1>3, <1>4, <1>5, <1>6, <1>7, <1>8, <1>9, QuietStep DEF Start, Local

\* What goes on after a check that succeeds.
LEMMA GoesOn ==
    ASSUME TypeOK, NEW r \in Requests, NEW next \in Steps, GoOn(r, next), held' = held,
           NEW us \in SUBSET Users, targets' = [targets EXCEPT ![r] = us]
    PROVE  /\ OnlyRequest(r) /\ LocalTypes'
           /\ step'[r] = next /\ targets'[r] = us
           /\ who'[r] = who[r] /\ job'[r] = job[r] /\ newcomers'[r] = newcomers[r]
<1>1. step'[r] = next /\ targets'[r] = us /\ UNCHANGED <<who, job, newcomers>>
  BY DEF GoOn, TypeOK
<1>2. OnlyRequest(r)
  BY DEF GoOn, OnlyRequest, SameFields, TypeOK
<1>3. step' \in [Requests -> Steps] /\ targets' \in [Requests -> SUBSET Users]
  BY DEF GoOn, TypeOK
<1>4. LocalTypes'
  BY <1>1, <1>3 DEF TypeOK, LocalTypes
<1> QED
  BY <1>1, <1>2, <1>4

LEMMA CheckPolicyStep ==
    ASSUME AuthorizationInv, NEW r \in Requests, CheckPolicy(r)
    PROVE  AuthorizationInv'
<1>0. TypeOK /\ Local(r) /\ step[r] = "policy" /\ asked' \in 0..MaxWrites
  BY DEF AuthorizationInv, CheckPolicy, TypeOK
<1>1. job[r] \in Jobs /\ job[r].op \in UserOps \cup MemberOps /\ job[r].user \in Users
  BY <1>0, JobFields DEF Local, InOrder
<1>2. CASE MayChange(r, job[r].user)
  <2> DEFINE next == IF job[r].op = "assign" THEN "role" ELSE "write"
  <2>1. GoOn(r, next) /\ held' = held /\ targets' = [targets EXCEPT ![r] = {job[r].user}]
    BY <1>2 DEF CheckPolicy
  <2>2. next \in Steps /\ {job[r].user} \in SUBSET Users
    BY <1>1 DEF Steps
  <2>3. /\ OnlyRequest(r) /\ LocalTypes'
        /\ step'[r] = next /\ targets'[r] = {job[r].user}
        /\ who'[r] = who[r] /\ job'[r] = job[r]
    BY <1>0, <1>1, <2>1, <2>2, GoesOn
  <2>4. account' = account
    BY DEF CheckPolicy, rows, rights
  <2>5. job[r].user \in Roots => job[r].user = who[r]
    BY <1>2 DEF MayChange
  <2>6. InOrder(r)'
    BY <1>0, <1>1, <2>3, <2>5 DEF Local, InOrder, UserOps, MemberOps
  <2>7. Founded(r)' /\ ListedOrNew(r)' /\ LoadIsFresh(r)'
    BY <1>0, <1>1, <2>3, <2>4
    DEF Local, Founded, ListedOrNew, LoadIsFresh, UserOps, MemberOps, ListingOps, GrantOps
  <2> QED
    BY <1>0, <2>3, <2>6, <2>7, QuietStep DEF CheckPolicy, Local
<1>3. CASE ~MayChange(r, job[r].user)
  BY <1>0, <1>3, FinishStep DEF CheckPolicy
<1> QED
  BY <1>2, <1>3

LEMMA CheckRoleStep ==
    ASSUME AuthorizationInv, NEW r \in Requests, CheckRole(r)
    PROVE  AuthorizationInv'
<1>0. /\ TypeOK /\ Local(r) /\ step[r] = "role" /\ asked' \in 0..MaxWrites
      /\ targets[r] \in SUBSET Users
  BY DEF AuthorizationInv, CheckRole, TypeOK
<1>1. CASE role[job[r].role] = "alive"
  <2> DEFINE next == IF job[r].op = "assign" THEN "write" ELSE "permission"
  <2>1. GoOn(r, next) /\ held' = held /\ targets' = [targets EXCEPT ![r] = targets[r]]
    BY <1>0, <1>1 DEF CheckRole, TypeOK
  <2>2. next \in Steps
    BY DEF Steps
  <2>3. /\ OnlyRequest(r) /\ LocalTypes'
        /\ step'[r] = next /\ targets'[r] = targets[r]
        /\ who'[r] = who[r] /\ job'[r] = job[r]
    BY <1>0, <2>1, <2>2, GoesOn
  <2>4. account' = account /\ role' = role
    BY DEF CheckRole, rows, rights
  <2>5. InOrder(r)'
    BY <1>0, <2>3 DEF Local, InOrder, UserOps, MemberOps
  <2>6. Founded(r)'
    BY <1>0, <1>1, <2>3, <2>4 DEF Local, Founded, InOrder
  <2>7. ListedOrNew(r)' /\ LoadIsFresh(r)'
    BY <1>0, <2>3 DEF Local, InOrder, ListedOrNew, LoadIsFresh, ListingOps, GrantOps
  <2> QED
    BY <1>0, <2>3, <2>5, <2>6, <2>7, QuietStep DEF CheckRole, Local
<1>2. CASE role[job[r].role] # "alive"
  BY <1>0, <1>2, FinishStep DEF CheckRole
<1> QED
  BY <1>1, <1>2

LEMMA CheckPermissionStep ==
    ASSUME AuthorizationInv, NEW r \in Requests, CheckPermission(r)
    PROVE  AuthorizationInv'
<1>0. /\ TypeOK /\ Local(r) /\ step[r] = "permission" /\ asked' \in 0..MaxWrites
      /\ targets[r] \in SUBSET Users /\ "list" \in Steps
  BY DEF AuthorizationInv, CheckPermission, TypeOK, Steps
<1>1. CASE permission[job[r].permission] = "alive"
  <2>1. GoOn(r, "list") /\ held' = held /\ targets' = [targets EXCEPT ![r] = targets[r]]
    BY <1>0, <1>1 DEF CheckPermission, TypeOK
  <2>2. /\ OnlyRequest(r) /\ LocalTypes'
        /\ step'[r] = "list" /\ who'[r] = who[r] /\ job'[r] = job[r]
    BY <1>0, <2>1, GoesOn
  <2>3. account' = account /\ role' = role /\ permission' = permission
    BY DEF CheckPermission, rows, rights
  <2>4. InOrder(r)'
    BY <1>0, <2>2 DEF Local, InOrder, ListingOps, GrantOps
  <2>5. Founded(r)' /\ ListedOrNew(r)' /\ LoadIsFresh(r)'
    BY <1>0, <1>1, <2>2, <2>3 DEF Local, Founded, InOrder, ListedOrNew, LoadIsFresh
  <2> QED
    BY <1>0, <2>2, <2>4, <2>5, QuietStep DEF CheckPermission, Local
<1>2. CASE permission[job[r].permission] # "alive"
  BY <1>0, <1>2, FinishStep DEF CheckPermission
<1> QED
  BY <1>1, <1>2

LEMMA ListStep ==
    ASSUME AuthorizationInv, NEW r \in Requests, List(r)
    PROVE  AuthorizationInv'
<1>0. /\ TypeOK /\ Local(r) /\ step[r] = "list" /\ asked' \in 0..MaxWrites
      /\ "write" \in Steps
  BY DEF AuthorizationInv, List, TypeOK, Steps
<1>1. Affected(job[r]) \in SUBSET Users
  BY DEF Affected, HoldersOf, MembersOf
<1>2. /\ OnlyRequest(r) /\ LocalTypes'
      /\ step'[r] = "write" /\ targets'[r] = Affected(job[r])
      /\ who'[r] = who[r] /\ job'[r] = job[r] /\ newcomers'[r] = newcomers[r]
  BY <1>0, <1>1, GoesOn DEF List
<1>3. account' = account /\ role' = role /\ permission' = permission
  BY DEF List, rows, rights
<1>4. job[r].op \in ListingOps /\ job[r].op \notin UserOps \cup MemberOps
  BY <1>0 DEF Local, InOrder, ListingOps, GrantOps, UserOps, MemberOps
<1>5. InOrder(r)'
  BY <1>0, <1>2, <1>4 DEF Local, InOrder
<1>6. Founded(r)' /\ LoadIsFresh(r)'
  BY <1>0, <1>2, <1>3, <1>4 DEF Local, Founded, InOrder, LoadIsFresh, MemberOps
<1>7. ListedOrNew(r)'
  <2>1. Affected(job[r])' = Affected(job[r])
    BY <1>2 DEF List, rows, rights, Affected, HoldersOf, MembersOf
  <2> QED
    BY <1>2, <2>1 DEF ListedOrNew
<1> QED
  BY <1>0, <1>2, <1>5, <1>6, <1>7, QuietStep DEF List, Local

LEMMA PrepareStep ==
    ASSUME AuthorizationInv, NEW r \in Requests, Prepare(r)
    PROVE  AuthorizationInv'
BY CheckPolicyStep, CheckRoleStep, CheckPermissionStep, ListStep DEF Prepare

-----------------------------------------------------------------------------
(* The DEL and the TTL.                                                     *)

LEMMA ClearStep ==
    ASSUME AuthorizationInv, NEW r \in Requests, Clear(r)
    PROVE  AuthorizationInv'
<1>0. /\ TypeOK /\ step[r] = "clear" /\ asked' \in 0..MaxWrites
      /\ outdated' = outdated /\ UNCHANGED rows /\ targets[r] \subseteq Users
  BY DEF AuthorizationInv, Clear, TypeOK
<1>1. OnlyRequest(r) /\ LocalTypes' /\ Local(r)'
  BY <1>0, Finished DEF Clear
<1>2. /\ \A u \in Users : cache'[u] = cache[u] \/ (cache'[u] = None /\ u \in targets[r])
      /\ cache' \in [Users -> {None} \cup Snapshots]
  <2>1. CASE cache' = [u \in Users |-> IF u \in targets[r] THEN None ELSE cache[u]]
    BY <1>0, <2>1 DEF TypeOK
  <2>2. CASE cache' = cache
    BY <1>0, <2>2 DEF TypeOK
  <2> QED
    BY <2>1, <2>2 DEF Clear
<1>3. /\ stale' \subseteq Users /\ missed' \subseteq Users
      /\ \A u \in stale \cup missed : u \in targets[r] \/ u \in stale' \cup missed'
      /\ \A u \in targets[r] : cache'[u] = None \/ u \in stale'
  BY <1>0 DEF Clear, TypeOK
<1>4. SharedTypes'
  BY <1>0, <1>2, <1>3 DEF TypeOK, SharedTypes, rows, rights
<1>5. \A u \in Users : cache'[u] # None => account[u] # "unborn"
  BY <1>2 DEF AuthorizationInv, Born
<1>6. SnapshotExplained'
  <2> SUFFICES ASSUME NEW u \in Users, cache'[u] \notin {None, Truth(u)'}
               PROVE  \/ u \in stale' \cup missed'
                      \/ \E q \in Requests : step'[q] = "clear" /\ u \in targets'[q]
    BY DEF SnapshotExplained
  <2>1. CASE u \in targets[r]
    BY <1>3, <2>1
  <2>2. CASE u \notin targets[r]
    <3>1. cache[u] \notin {None, Truth(u)}
      BY <1>0, <1>2, <2>2, RowsRights, RowsDecide
    <3>2. \/ u \in stale \cup missed
          \/ \E q \in Requests : step[q] = "clear" /\ u \in targets[q]
      BY <3>1 DEF AuthorizationInv, SnapshotExplained
    <3>3. \A q \in Requests \ {r} : step'[q] = step[q] /\ targets'[q] = targets[q]
      BY <1>1 DEF OnlyRequest, SameFields
    <3> QED
      BY <1>3, <2>2, <3>2, <3>3
  <2> QED
    BY <2>1, <2>2
<1> QED
  BY <1>0, <1>1, <1>4, <1>5, <1>6, RowsRights, LocalStep

LEMMA ExpiryStep ==
    ASSUME AuthorizationInv, NEW u \in Users, CacheExpires(u)
    PROVE  AuthorizationInv'
<1>0. TypeOK /\ UNCHANGED <<asked, rows, step, who, held, job, targets, newcomers, outdated>>
  BY DEF AuthorizationInv, CacheExpires
<1>1. ASSUME NEW q \in Requests PROVE Local(q)'
  BY <1>0, RowsRights, LocalKept DEF AuthorizationInv, SameFields
<1>2. \A w \in Users : cache'[w] = IF w = u THEN None ELSE cache[w]
  BY <1>0 DEF CacheExpires, TypeOK
<1>3. TypeOK'
  <2>1. cache' \in [Users -> {None} \cup Snapshots]
    BY <1>0 DEF CacheExpires, TypeOK
  <2>2. stale' \subseteq Users /\ missed' \subseteq Users
    BY <1>0 DEF CacheExpires, TypeOK
  <2> QED
    BY <1>0, <2>1, <2>2 DEF TypeOK, rows, rights
<1>4. Born'
  BY <1>0, <1>2 DEF AuthorizationInv, Born, rows, rights
<1>5. SnapshotExplained'
  <2> SUFFICES ASSUME NEW w \in Users, cache'[w] \notin {None, Truth(w)'}
               PROVE  \/ w \in stale' \cup missed'
                      \/ \E q \in Requests : step[q] = "clear" /\ w \in targets[q]
    BY <1>0 DEF SnapshotExplained
  <2>1. w # u /\ cache[w] \notin {None, Truth(w)}
    BY <1>0, <1>2, RowsRights, RowsDecide
  <2>2. \/ w \in stale \cup missed
        \/ \E q \in Requests : step[q] = "clear" /\ w \in targets[q]
    BY <2>1 DEF AuthorizationInv, SnapshotExplained
  <2> QED
    BY <2>1, <2>2 DEF CacheExpires
<1> QED
  BY <1>1, <1>3, <1>4, <1>5 DEF AuthorizationInv

-----------------------------------------------------------------------------
(* What is created concerns nobody yet.                                     *)

LEMMA CreateStep ==
    ASSUME AuthorizationInv, NEW r \in Requests, Create(r)
    PROVE  AuthorizationInv'
<1>0. /\ TypeOK /\ Born /\ Local(r) /\ step[r] = "write" /\ asked' \in 0..MaxWrites
      /\ UNCHANGED <<profile, members, grants, cache, outdated, stale, missed>> /\ Finish(r)
  BY DEF AuthorizationInv, Create, CreateUser, CreateRole, CreatePermission, TypeOK,
     Asked
<1>1. OnlyRequest(r) /\ LocalTypes' /\ Local(r)'
  BY <1>0, Finished
<1>2. job[r] \in Jobs
  BY <1>0 DEF Local, InOrder
<1>3. /\ account' \in [Users -> {"unborn", "enabled", "disabled", "deleted"}]
      /\ role' \in [Roles -> RowStates] /\ permission' \in [Permissions -> RowStates]
  BY <1>0 DEF Create, CreateUser, CreateRole, CreatePermission, TypeOK, RowStates
<1>4. /\ \A u \in Users : account[u] # "unborn" => account'[u] = account[u]
      /\ \A g \in Roles : role[g] # "unborn" => role'[g] = role[g]
      /\ \A p \in Permissions : permission[p] # "unborn" => permission'[p] = permission[p]
  BY <1>0 DEF Create, CreateUser, CreateRole, CreatePermission, TypeOK
<1>5. ASSUME NEW u \in Users PROVE Rights(u)' = Rights(u)
  <2>1. \A m \in members : role'[m[2]] = role[m[2]]
    BY <1>0, <1>4 DEF Born, TypeOK
  <2>2. \A m \in grants : permission'[m[2]] = permission[m[2]]
    BY <1>0, <1>4 DEF Born, TypeOK
  <2>3. \A g, p : /\ <<u, g>> \in members => role'[g] = role[g]
                  /\ <<g, p>> \in grants => permission'[p] = permission[p]
    BY <2>1, <2>2
  <2> QED
    BY <1>0, <2>3 DEF Rights
<1>6. \A u \in Users : account[u] # "unborn" => Truth(u)' = Truth(u)
  BY <1>4, <1>5 DEF Truth
<1>7. TypeOK'
  BY <1>0, <1>1, <1>3 DEF TypeOK, LocalTypes
<1>8. Born'
  BY <1>0, <1>4, AuthorizationConstants DEF Born, TypeOK
<1>9. ASSUME NEW q \in Requests \ {r} PROVE Local(q)'
  <2>1. Local(q) /\ SameFields(q) /\ newcomers'[q] = newcomers[q]
    BY <1>1 DEF AuthorizationInv, OnlyRequest
  <2>2. InOrder(q)'
    BY <2>1 DEF Local, InOrder, SameFields
  <2>3. Founded(q)'
    <3>1. step[q] # "idle" => who[q] \in Users
      BY <2>1 DEF Local, InOrder
    <3>2. /\ step[q] \in {"list", "write", "permission"} => job[q] \in Jobs
          /\ step[q] = "permission" => job[q].op = "attach"
      BY <2>1 DEF Local, InOrder
    <3>3. /\ job[q] \in Jobs /\ job[q].op \in {"assign", "attach"} => job[q].role \in Roles
          /\ job[q] \in Jobs /\ job[q].op = "attach" => job[q].permission \in Permissions
      BY JobFields DEF MemberOps, GrantOps
    <3>4. step[q] # "idle" => account'[who[q]] # "unborn"
      BY <1>4, <2>1, <3>1 DEF Local, Founded
    <3>5. \/ step[q] = "write" /\ job[q].op \in {"assign", "attach"}
          \/ step[q] = "list" /\ job[q].op = "attach"
          \/ step[q] = "permission"
          => role'[job[q].role] # "unborn"
      BY <1>4, <2>1, <3>2, <3>3 DEF Local, Founded
    <3>6. step[q] \in {"list", "write"} /\ job[q].op = "attach"
          => permission'[job[q].permission] # "unborn"
      BY <1>4, <2>1, <3>2, <3>3 DEF Local, Founded
    <3> QED
      BY <2>1, <3>4, <3>5, <3>6 DEF Founded, SameFields
  <2>4. ListedOrNew(q)'
    <3>1. Affected(job[q])' = Affected(job[q])
      BY <1>0, <2>1 DEF SameFields, Affected, HoldersOf, MembersOf
    <3> QED
      BY <2>1, <3>1 DEF Local, ListedOrNew, SameFields
  <2>5. LoadIsFresh(q)'
    <3>1. step[q] # "idle" => who[q] \in Users /\ account[who[q]] # "unborn"
      BY <2>1 DEF Local, InOrder, Founded
    <3>2. step[q] # "idle" =>
             Truth(who[q])' = Truth(who[q]) /\ account'[who[q]] = account[who[q]]
      BY <1>4, <1>6, <2>1, <3>1 DEF SameFields, Truth, Rights
    <3> QED
      BY <1>0, <2>1, <3>2 DEF Local, LoadIsFresh, SameFields
  <2> QED
    BY <2>2, <2>3, <2>4, <2>5 DEF Local
<1>10. SnapshotExplained'
  <2> SUFFICES ASSUME NEW u \in Users, cache[u] \notin {None, Truth(u)'}
               PROVE  \/ u \in stale \cup missed
                      \/ \E q \in Requests : step'[q] = "clear" /\ u \in targets'[q]
    BY <1>0 DEF SnapshotExplained
  <2>1. cache[u] \notin {None, Truth(u)}
    BY <1>0, <1>6 DEF Born
  <2>2. \A q \in Requests : step[q] = "clear" => step'[q] = "clear" /\ targets'[q] = targets[q]
    BY <1>0, <1>1 DEF OnlyRequest, SameFields
  <2> QED
    BY <2>1, <2>2 DEF AuthorizationInv, SnapshotExplained
<1> QED
  BY <1>1, <1>7, <1>8, <1>9, <1>10 DEF AuthorizationInv

-----------------------------------------------------------------------------
(* A write that deletes snapshots.                                          *)

RowTypes ==
    /\ account \in [Users -> {"unborn", "enabled", "disabled", "deleted"}]
    /\ role \in [Roles -> RowStates]
    /\ permission \in [Permissions -> RowStates]
    /\ members \subseteq Users \X Roles
    /\ grants \subseteq Roles \X Permissions

\* What has been created stays created.
NothingUnborn ==
    /\ \A u \in Users : account[u] # "unborn" => account'[u] # "unborn"
    /\ \A g \in Roles : role[g] # "unborn" => role'[g] # "unborn"
    /\ \A p \in Permissions : permission[p] # "unborn" => permission'[p] # "unborn"

LEMMA WriteStep ==
    ASSUME AuthorizationInv, NEW r \in Requests, step[r] = "write",
           NEW late \in SUBSET Users, Committed(r, late), RowTypes', Born', NothingUnborn,
           \A u \in Users : Truth(u)' # Truth(u) => u \in targets[r] \cup newcomers[r],
           \A j \in Jobs : j.op \in ListingOps => Affected(j)' \subseteq Affected(j) \cup late
    PROVE  AuthorizationInv'
<1> DEFINE changed == {u \in Users : Truth(u)' # Truth(u)}
<1>0. /\ TypeOK /\ UNCHANGED <<profile, cache, who, held, job, targets, stale, asked>>
      /\ step' = [step EXCEPT ![r] = "clear"]
      /\ outdated' = outdated \cup
             {q \in Requests : \/ step[q] = "store" /\ who[q] \in changed
                               \/ step[q] = "rights" /\ account'[who[q]] # "enabled"}
      /\ newcomers' = [q \in Requests |->
             IF q # r /\ step[q] = "write" /\ job[q].op \in ListingOps
             THEN newcomers[q] \cup late ELSE newcomers[q]]
      /\ missed' = missed \cup ((changed \ targets[r]) \cap newcomers[r])
  BY DEF AuthorizationInv, Committed
<1>1. /\ step'[r] = "clear"
      /\ \A q \in Requests : q # r => step'[q] = step[q]
  BY <1>0 DEF TypeOK
<1>2. TypeOK'
  <2>1. step' \in [Requests -> Steps] /\ newcomers' \in [Requests -> SUBSET Users]
    BY <1>0 DEF TypeOK, Steps
  <2>2. outdated' \subseteq Requests /\ missed' \subseteq Users
    BY <1>0 DEF TypeOK
  <2> QED
    BY <1>0, <2>1, <2>2 DEF TypeOK, RowTypes
<1>3. ASSUME NEW q \in Requests PROVE Local(q)'
  <2>1. Local(q)
    BY DEF AuthorizationInv
  <2>2. step[q] # "idle" => who[q] \in Users
    BY <2>1 DEF Local, InOrder
  <2>3. /\ step[q] \in {"policy", "role", "permission", "list", "write", "clear"}
               => job[q] \in Jobs
        /\ step[q] = "permission" => job[q].op = "attach"
    BY <2>1 DEF Local, InOrder
  <2>4. InOrder(q)'
    BY <1>0, <1>1, <2>1, <2>2, <2>3 DEF Local, InOrder
  <2>5. Founded(q)'
    <3>1. /\ job[q] \in Jobs /\ job[q].op \in {"assign", "attach"} => job[q].role \in Roles
          /\ job[q] \in Jobs /\ job[q].op = "attach" => job[q].permission \in Permissions
      BY JobFields DEF MemberOps, GrantOps
    <3>2. step[q] # "idle" => account'[who[q]] # "unborn"
      BY <2>1, <2>2 DEF Local, Founded, NothingUnborn
    <3>3. \/ step[q] = "write" /\ job[q].op \in {"assign", "attach"}
          \/ step[q] = "list" /\ job[q].op = "attach"
          \/ step[q] = "permission"
          => role'[job[q].role] # "unborn"
      BY <2>1, <2>3, <3>1 DEF Local, Founded, NothingUnborn
    <3>4. step[q] \in {"list", "write"} /\ job[q].op = "attach"
          => permission'[job[q].permission] # "unborn"
      BY <2>1, <2>3, <3>1 DEF Local, Founded, NothingUnborn
    <3>5. step'[q] \in {"clear", step[q]} /\ (step'[q] # "idle" => step[q] # "idle")
      BY <1>1
    <3> QED
      BY <1>0, <3>2, <3>3, <3>4, <3>5 DEF Founded
  <2>6. ListedOrNew(q)'
    <3> SUFFICES ASSUME step'[q] = "write", job[q].op \in ListingOps
                 PROVE  Affected(job[q])' \subseteq targets[q] \cup newcomers'[q]
      BY <1>0 DEF ListedOrNew
    <3>1. q # r /\ step[q] = "write" /\ newcomers'[q] = newcomers[q] \cup late
      BY <1>0, <1>1
    <3>2. Affected(job[q]) \subseteq targets[q] \cup newcomers[q]
      BY <2>1, <3>1 DEF Local, ListedOrNew
    <3>3. Affected(job[q])' \subseteq Affected(job[q]) \cup late
      <4>1. job'[q] = job[q] /\ job[q] \in Jobs
        BY <1>0, <2>3, <3>1
      <4>2. \A j \in Jobs : j.op \in ListingOps => Affected(j)' \subseteq Affected(j) \cup late
        OBVIOUS
      <4> QED
        BY <4>1, <4>2 DEF Affected, HoldersOf, MembersOf
    <3> QED
      BY <3>1, <3>2, <3>3
  <2>7. LoadIsFresh(q)'
    <3> SUFFICES ASSUME q \notin outdated'
                 PROVE  /\ step'[q] = "rights" => account'[who[q]] = "enabled"
                        /\ step'[q] = "store" => (held[q] = Truth(who[q]))'
      BY <1>0 DEF LoadIsFresh
    <3>1. q \notin outdated
      BY <1>0
    <3>2. step'[q] = "rights" => account'[who[q]] = "enabled"
      BY <1>0, <1>1
    <3>3. ASSUME step'[q] = "store" PROVE (held[q] = Truth(who[q]))'
      <4>1. step[q] = "store" /\ who[q] \in Users
        BY <1>1, <2>2, <3>3
      <4>2. who[q] \notin changed
        BY <1>0, <4>1
      <4>3. held[q] = Truth(who[q])
        BY <2>1, <3>1, <4>1 DEF Local, LoadIsFresh
      <4>4. \A u \in Users : u \notin changed => Truth(u)' = Truth(u)
        OBVIOUS
      <4>5. held'[q] = held[q] /\ who'[q] = who[q]
        BY <1>0
      <4> QED
        BY <4>1, <4>2, <4>3, <4>4, <4>5 DEF Truth, Rights
    <3> QED
      BY <3>2, <3>3
  <2> QED
    BY <2>4, <2>5, <2>6, <2>7 DEF Local
<1>4. SnapshotExplained'
  <2> SUFFICES ASSUME NEW u \in Users, cache[u] \notin {None, Truth(u)'}
               PROVE  \/ u \in stale \cup missed'
                      \/ \E q \in Requests : step'[q] = "clear" /\ u \in targets[q]
    BY <1>0 DEF SnapshotExplained
  <2>1. CASE Truth(u)' # Truth(u)
    <3>1. u \in targets[r] \/ u \in missed'
      BY <1>0, <2>1
    <3> QED
      BY <1>1, <3>1
  <2>2. CASE Truth(u)' = Truth(u)
    <3>1. \/ u \in stale \cup missed
          \/ \E q \in Requests : step[q] = "clear" /\ u \in targets[q]
      BY <2>2 DEF AuthorizationInv, SnapshotExplained
    <3>2. missed \subseteq missed'
      BY <1>0
    <3> QED
      BY <1>1, <3>1, <3>2
  <2> QED
    BY <2>1, <2>2
<1> QED
  BY <1>2, <1>3, <1>4 DEF AuthorizationInv

\* What the writes have in common.
LEMMA Writer ==
    ASSUME AuthorizationInv, NEW r \in Requests, step[r] = "write"
    PROVE  /\ TypeOK /\ RowTypes /\ Born /\ job[r] \in Jobs
           /\ job[r].op \in UserOps \cup MemberOps => targets[r] = {job[r].user}
           /\ job[r].op \in ListingOps => Affected(job[r]) \subseteq targets[r] \cup newcomers[r]
           /\ job[r].op \in {"assign", "attach"} => role[job[r].role] # "unborn"
           /\ job[r].op = "attach" => permission[job[r].permission] # "unborn"
BY DEF AuthorizationInv, TypeOK, RowTypes, Local, InOrder, Founded, ListedOrNew

LEMMA AccountStep ==
    ASSUME AuthorizationInv, NEW r \in Requests, RemoveUser(r) \/ SetEnabled(r)
    PROVE  AuthorizationInv'
<1>0. /\ step[r] = "write" /\ job[r].op \in UserOps /\ Exists(job[r].user)
      /\ UNCHANGED <<role, permission, members, grants>> /\ Committed(r, {})
  BY DEF RemoveUser, SetEnabled, Asked, UserOps
<1>1. TypeOK /\ RowTypes /\ Born /\ targets[r] = {job[r].user} /\ job[r].user \in Users
  BY <1>0, Writer, JobFields
<1>2. \E s \in {"enabled", "disabled", "deleted"} :
         account' = [account EXCEPT ![job[r].user] = s]
  BY DEF RemoveUser, SetEnabled
<1>3. RowTypes' /\ NothingUnborn /\ \A u \in Users \ {job[r].user} : account'[u] = account[u]
  BY <1>0, <1>1, <1>2 DEF RowTypes, NothingUnborn
<1>4. Born'
  BY <1>0, <1>1, <1>3, AuthorizationConstants DEF Born, NothingUnborn, Committed
<1>5. \A u \in Users : Truth(u)' # Truth(u) => u \in targets[r] \cup newcomers[r]
  BY <1>0, <1>1, <1>3 DEF Truth, Rights
<1>6. \A j \in Jobs : Affected(j)' \subseteq Affected(j) \cup {}
  BY <1>0 DEF Affected, MembersOf, HoldersOf
<1> QED
  BY <1>0, <1>3, <1>4, <1>5, <1>6, WriteStep

\* Only the user named gains or loses rights.
LEMMA MemberStep ==
    ASSUME AuthorizationInv, NEW r \in Requests, AssignRole(r) \/ UnassignRole(r)
    PROVE  AuthorizationInv'
<1> DEFINE m == <<job[r].user, job[r].role>>
<1>0. /\ step[r] = "write" /\ job[r].op \in MemberOps
      /\ UNCHANGED <<account, role, permission, grants>>
  BY DEF AssignRole, UnassignRole, Asked, MemberOps
<1>1. /\ TypeOK /\ RowTypes /\ Born /\ targets[r] = {job[r].user}
      /\ job[r].user \in Users /\ job[r].role \in Roles
  BY <1>0, Writer, JobFields
<1>2. /\ members' \subseteq members \cup {m} /\ members \ {m} \subseteq members'
      /\ members' \subseteq members \/ role[job[r].role] # "unborn"
  BY <1>0, Writer DEF AssignRole, UnassignRole, Asked
<1>3. RowTypes' /\ NothingUnborn
  BY <1>0, <1>1, <1>2 DEF RowTypes, NothingUnborn
<1>4. cache' = cache
  BY DEF AssignRole, UnassignRole, Committed
<1>5. Born'
  BY <1>0, <1>1, <1>2, <1>4 DEF Born
<1>6. \A u \in Users : Truth(u)' # Truth(u) => u \in targets[r] \cup newcomers[r]
  <2>1. \A u \in Users \ {job[r].user}, g \in Roles : <<u, g>> \in members' <=> <<u, g>> \in members
    BY <1>2
  <2>2. \A u \in Users \ {job[r].user} : Rights(u)' = Rights(u)
    BY <1>0, <2>1 DEF Rights
  <2> QED
    BY <1>0, <1>1, <2>2 DEF Truth
<1>7. ASSUME NEW late \in SUBSET Users, members' \subseteq members \/ job[r].user \in late
      PROVE  \A j \in Jobs : Affected(j)' \subseteq Affected(j) \cup late
  <2>1. \A u, g : <<u, g>> \in members' => <<u, g>> \in members \/ u \in late
    BY <1>2, <1>7
  <2> QED
    BY <1>0, <2>1 DEF Affected, MembersOf, HoldersOf
<1>8. CASE AssignRole(r)
  <2>1. Committed(r, {job[r].user}) /\ {job[r].user} \in SUBSET Users
    BY <1>1, <1>8 DEF AssignRole
  <2> QED
    BY <1>0, <1>3, <1>5, <1>6, <1>7, <2>1, WriteStep
<1>9. CASE UnassignRole(r)
  <2>1. Committed(r, {}) /\ members' \subseteq members
    BY <1>9 DEF UnassignRole
  <2> QED
    BY <1>0, <1>3, <1>5, <1>6, <1>7, <2>1, WriteStep
<1> QED
  BY <1>8, <1>9

\* Only the members of the role named gain or lose rights.
LEMMA GrantStep ==
    ASSUME AuthorizationInv, NEW r \in Requests, AttachPermission(r) \/ DetachPermission(r)
    PROVE  AuthorizationInv'
<1> DEFINE m == <<job[r].role, job[r].permission>>
<1>0. /\ step[r] = "write" /\ job[r].op \in GrantOps /\ job[r].op # "deletePermission"
      /\ UNCHANGED <<account, role, permission, members>>
  BY DEF AttachPermission, DetachPermission, Asked, GrantOps
<1>1. /\ TypeOK /\ RowTypes /\ Born /\ job[r].role \in Roles /\ job[r].permission \in Permissions
      /\ MembersOf(job[r].role) \subseteq targets[r] \cup newcomers[r]
  BY <1>0, Writer, JobFields DEF Affected, ListingOps
<1>2. /\ grants' \subseteq grants \cup {m} /\ grants \ {m} \subseteq grants'
      /\ \/ grants' \subseteq grants
         \/ role[job[r].role] # "unborn" /\ permission[job[r].permission] # "unborn"
  BY <1>0, Writer DEF AttachPermission, DetachPermission, Asked
<1>3. RowTypes' /\ NothingUnborn
  BY <1>0, <1>1, <1>2 DEF RowTypes, NothingUnborn
<1>4. cache' = cache
  BY DEF AttachPermission, DetachPermission, Committed
<1>5. Born'
  BY <1>0, <1>1, <1>2, <1>4 DEF Born
<1>6. \A u \in Users : Truth(u)' # Truth(u) => u \in targets[r] \cup newcomers[r]
  <2>1. \A g \in Roles \ {job[r].role}, p \in Permissions :
           <<g, p>> \in grants' <=> <<g, p>> \in grants
    BY <1>2
  <2>2. \A u \in Users : <<u, job[r].role>> \notin members => Rights(u)' = Rights(u)
    BY <1>0, <2>1 DEF Rights
  <2> QED
    BY <1>0, <1>1, <2>2 DEF Truth, MembersOf
<1>7. ASSUME NEW late \in SUBSET Users,
             grants' \subseteq grants \/ MembersOf(job[r].role) \subseteq late
      PROVE  \A j \in Jobs : Affected(j)' \subseteq Affected(j) \cup late
  <2>1. \A g, p : <<g, p>> \in grants' => \/ <<g, p>> \in grants
                                           \/ MembersOf(g) \subseteq late
    BY <1>2, <1>7
  <2>2. ASSUME NEW j \in Jobs PROVE Affected(j)' \subseteq Affected(j) \cup late
    <3>1. HoldersOf(j.permission)' \subseteq HoldersOf(j.permission) \cup late
      BY <1>0, <2>1 DEF HoldersOf, MembersOf
    <3>2. MembersOf(j.role)' = MembersOf(j.role)
      BY <1>0 DEF MembersOf
    <3> QED
      BY <3>1, <3>2 DEF Affected
  <2> QED
    BY <2>2
<1>8. CASE AttachPermission(r)
  <2>1. Committed(r, MembersOf(job[r].role)) /\ MembersOf(job[r].role) \in SUBSET Users
    BY <1>8 DEF AttachPermission, MembersOf
  <2> QED
    BY <1>0, <1>3, <1>5, <1>6, <1>7, <2>1, WriteStep
<1>9. CASE DetachPermission(r)
  <2>1. Committed(r, {}) /\ grants' \subseteq grants
    BY <1>9 DEF DetachPermission
  <2> QED
    BY <1>0, <1>3, <1>5, <1>6, <1>7, <2>1, WriteStep
<1> QED
  BY <1>8, <1>9

LEMMA DeleteRoleStep ==
    ASSUME AuthorizationInv, NEW r \in Requests, DeleteRole(r)
    PROVE  AuthorizationInv'
<1>0. /\ step[r] = "write" /\ job[r].op = "deleteRole" /\ job[r].op \in ListingOps
      /\ role' = [role EXCEPT ![job[r].role] = "deleted"] /\ Committed(r, {})
      /\ UNCHANGED <<account, permission, members, grants, cache>>
  BY DEF DeleteRole, Asked, ListingOps, Committed
<1>1. /\ TypeOK /\ RowTypes /\ Born /\ job[r].role \in Roles
      /\ MembersOf(job[r].role) \subseteq targets[r] \cup newcomers[r]
  BY <1>0, Writer, JobFields DEF Affected
<1>2. RowTypes' /\ NothingUnborn /\ \A g \in Roles \ {job[r].role} : role'[g] = role[g]
  BY <1>0, <1>1 DEF RowTypes, RowStates, NothingUnborn
<1>3. Born'
  BY <1>0, <1>1, <1>2 DEF Born, RowTypes, NothingUnborn
<1>4. \A u \in Users : Truth(u)' # Truth(u) => u \in targets[r] \cup newcomers[r]
  <2>1. \A u \in Users : <<u, job[r].role>> \notin members => Rights(u)' = Rights(u)
    BY <1>0, <1>2 DEF Rights
  <2> QED
    BY <1>0, <1>1, <2>1 DEF Truth, MembersOf
<1>5. \A j \in Jobs : Affected(j)' \subseteq Affected(j) \cup {}
  BY <1>0 DEF Affected, MembersOf, HoldersOf
<1> QED
  BY <1>0, <1>2, <1>3, <1>4, <1>5, WriteStep

LEMMA DeletePermissionStep ==
    ASSUME AuthorizationInv, NEW r \in Requests, DeletePermission(r)
    PROVE  AuthorizationInv'
<1>0. /\ step[r] = "write" /\ job[r].op = "deletePermission" /\ job[r].op \in ListingOps
      /\ permission' = [permission EXCEPT ![job[r].permission] = "deleted"]
      /\ Committed(r, {}) /\ UNCHANGED <<account, role, members, grants, cache>>
  BY DEF DeletePermission, Asked, ListingOps, Committed
<1>1. /\ TypeOK /\ RowTypes /\ Born /\ job[r].permission \in Permissions
      /\ HoldersOf(job[r].permission) \subseteq targets[r] \cup newcomers[r]
  BY <1>0, Writer, JobFields DEF Affected
<1>2. /\ RowTypes' /\ NothingUnborn
      /\ \A p \in Permissions \ {job[r].permission} : permission'[p] = permission[p]
  BY <1>0, <1>1 DEF RowTypes, RowStates, NothingUnborn
<1>3. Born'
  BY <1>0, <1>1, <1>2 DEF Born, RowTypes, NothingUnborn
<1>4. \A u \in Users : Truth(u)' # Truth(u) => u \in targets[r] \cup newcomers[r]
  <2>1. ASSUME NEW u \in Users, u \notin HoldersOf(job[r].permission)
        PROVE  Rights(u)' = Rights(u)
    <3>1. \A g \in Roles : <<u, g>> \in members => <<g, job[r].permission>> \notin grants
      BY <1>1, <2>1 DEF HoldersOf, RowTypes
    <3> QED
      BY <1>0, <1>2, <3>1 DEF Rights
  <2> QED
    BY <1>0, <1>1, <2>1 DEF Truth
<1>5. \A j \in Jobs : Affected(j)' \subseteq Affected(j) \cup {}
  BY <1>0 DEF Affected, MembersOf, HoldersOf
<1> QED
  BY <1>0, <1>2, <1>3, <1>4, <1>5, WriteStep

\* A profile or a password gives nobody any rights.
LEMMA EditStep ==
    ASSUME AuthorizationInv, NEW r \in Requests, EditUser(r)
    PROVE  AuthorizationInv'
<1>0. /\ TypeOK /\ Local(r) /\ step[r] = "write" /\ asked' \in 0..MaxWrites
      /\ UNCHANGED <<rights, cache, outdated, stale, missed>> /\ Finish(r)
  BY DEF AuthorizationInv, EditUser, Asked, TypeOK
<1>1. OnlyRequest(r) /\ LocalTypes' /\ Local(r)'
  BY <1>0, Finished
<1>2. who[r] \in Users
  BY <1>0 DEF Local, InOrder
<1>3. profile' \in [Users -> Users \cup {None}]
  BY <1>0, <1>2 DEF EditUser, TypeOK
<1>4. SharedTypes'
  BY <1>0, <1>3 DEF TypeOK, SharedTypes, rights
<1>5. SnapshotExplained'
  BY <1>0, <1>1, StillExplained DEF AuthorizationInv
<1>6. \A u \in Users : cache'[u] # None => account[u] # "unborn"
  BY <1>0 DEF AuthorizationInv, Born
<1> QED
  BY <1>0, <1>1, <1>4, <1>5, <1>6, LocalStep

LEMMA RequestStep ==
    ASSUME AuthorizationInv, NEW r \in Requests,
           Write(r) \/ Create(r) \/ EditUser(r) \/ WriteFinds(r) \/ Clear(r) \/ Answer(r)
    PROVE  AuthorizationInv'
<1>1. CASE Write(r)
  BY <1>1, AccountStep, MemberStep, GrantStep, DeleteRoleStep, DeletePermissionStep DEF Write
<1>2. CASE WriteFinds(r)
  BY <1>2, FinishStep DEF WriteFinds
<1>3. CASE Answer(r)
  BY <1>3, FinishStep DEF Answer
<1> QED
  BY <1>1, <1>2, <1>3, CreateStep, EditStep, ClearStep

-----------------------------------------------------------------------------
LEMMA InitInv == Init => AuthorizationInv
<1> SUFFICES ASSUME Init PROVE AuthorizationInv
  OBVIOUS
<1>1. TypeOK
  BY AuthorizationConstants DEF Init, TypeOK, Steps, RowStates
<1>2. Born
  BY AuthorizationConstants DEF Init, Born
<1>3. SnapshotExplained
  BY DEF Init, SnapshotExplained
<1>4. \A r \in Requests : Local(r)
  BY DEF Init, Local, InOrder, Founded, ListedOrNew, LoadIsFresh
<1> QED
  BY <1>1, <1>2, <1>3, <1>4 DEF AuthorizationInv

LEMMA NextInv == AuthorizationInv /\ [Next]_vars => AuthorizationInv'
<1> SUFFICES ASSUME AuthorizationInv, [Next]_vars PROVE AuthorizationInv'
  OBVIOUS
<1>1. ASSUME NEW r \in Requests, NEW u \in Users, Authenticate(r, u) PROVE AuthorizationInv'
  BY <1>1, AuthenticateStep
<1>2. ASSUME NEW r \in Requests, Load(r) \/ Start(r) \/ Prepare(r) PROVE AuthorizationInv'
  BY <1>2, LoadStep, StartStep, PrepareStep
<1>3. ASSUME NEW r \in Requests,
             Write(r) \/ Create(r) \/ EditUser(r) \/ WriteFinds(r) \/ Clear(r) \/ Answer(r)
      PROVE  AuthorizationInv'
  BY <1>3, RequestStep
<1>4. ASSUME NEW u \in Users, CacheExpires(u) PROVE AuthorizationInv'
  BY <1>4, ExpiryStep
<1>5. CASE UNCHANGED vars
  <2>1. TypeOK' /\ Born' /\ UNCHANGED rows
    BY <1>5 DEF AuthorizationInv, TypeOK, Born, vars, rows, rights
  <2>2. SnapshotExplained'
    BY <1>5, <2>1, RowsRights, RowsDecide DEF AuthorizationInv, SnapshotExplained, vars
  <2>3. ASSUME NEW q \in Requests PROVE Local(q)'
    BY <1>5, <2>1, RowsRights, LocalKept DEF AuthorizationInv, SameFields, vars
  <2> QED
    BY <2>1, <2>2, <2>3 DEF AuthorizationInv
<1> QED
  BY <1>1, <1>2, <1>3, <1>4, <1>5 DEF Next

\* What JwtStrategy, UserAuthorizationCacheService, RbacService and UsersService
\* keep between their steps.
THEOREM AuthorizationHolds == Spec => []AuthorizationInv
BY InitInv, NextInv, PTL DEF Spec

\* Every variable keeps its type.
THEOREM TypeCorrect == Spec => []TypeOK
<1>1. AuthorizationInv => TypeOK
  BY DEF AuthorizationInv
<1> QED
  BY <1>1, AuthorizationHolds, PTL

\* UserAuthorizationCacheService: a cached snapshot that is no longer true has one
\* of the causes the code leaves.
THEOREM SnapshotExplainedHolds == Spec => []SnapshotExplained
<1>1. AuthorizationInv => SnapshotExplained
  BY DEF AuthorizationInv
<1> QED
  BY <1>1, AuthorizationHolds, PTL

\* AdministratorAccountPolicyService: only a root himself changes his account.
THEOREM RootsUntouchedHolds == Spec => RootsUntouched
<1> DEFINE Touch ==
      \A x \in Roots : RootRow(x)' # RootRow(x) =>
          \E r \in Requests : step[r] = "write" /\ who[r] = x
<1>1. ASSUME AuthorizationInv, [Next]_vars PROVE [Touch]_vars
  <2> SUFFICES ASSUME NEW x \in Roots, RootRow(x)' # RootRow(x)
               PROVE  \E r \in Requests : step[r] = "write" /\ who[r] = x
    OBVIOUS
  <2>0. TypeOK /\ Born /\ x \in Users
    BY <1>1, AuthorizationConstants DEF AuthorizationInv
  <2>1. \/ account'[x] # account[x] \/ profile'[x] # profile[x]
        \/ {m \in members' : m[1] = x} # {m \in members : m[1] = x}
    BY DEF RootRow
  <2>2. ~UNCHANGED <<account, profile, members>>
    BY <2>1
  <2>3. PICK r \in Requests : Write(r) \/ Create(r) \/ EditUser(r)
    BY <1>1, <2>2 DEF Next, Authenticate, Load, LoadAccount, LoadRights, Store, Answer, Start,
       Prepare, CheckPolicy, CheckRole, CheckPermission, List, WriteFinds, Clear, CacheExpires,
       vars, rows, rights
  <2>4. /\ job[r] \in Jobs
        /\ step[r] = "write" /\ job[r].op \in UserOps \cup MemberOps /\ job[r].user = x
           => who[r] = x
    BY <1>1, <2>3, Writer
    DEF AuthorizationInv, Local, InOrder, Write, Create, CreateUser, CreateRole,
        CreatePermission, EditUser, RemoveUser, SetEnabled, AssignRole,
        UnassignRole, AttachPermission, DetachPermission, DeleteRole, DeletePermission, Asked
  <2>5. CASE RemoveUser(r) \/ SetEnabled(r)
    <3>1. step[r] = "write" /\ job[r].op \in UserOps /\ UNCHANGED <<members, profile>>
      BY <2>5 DEF RemoveUser, SetEnabled, Committed, Asked, UserOps
    <3>2. job[r].user = x
      BY <2>0, <2>1, <2>5, <3>1 DEF RemoveUser, SetEnabled, TypeOK
    <3> QED
      BY <2>4, <3>1, <3>2
  <2>6. CASE AssignRole(r) \/ UnassignRole(r)
    <3>1. step[r] = "write" /\ job[r].op \in MemberOps /\ UNCHANGED <<account, profile>>
      BY <2>6 DEF AssignRole, UnassignRole, Committed, Asked, MemberOps
    <3>2. /\ members' \subseteq members \cup {<<job[r].user, job[r].role>>}
          /\ members \ {<<job[r].user, job[r].role>>} \subseteq members'
      BY <2>6 DEF AssignRole, UnassignRole
    <3>3. job[r].user = x
      BY <2>1, <3>1, <3>2
    <3> QED
      BY <2>4, <3>1, <3>3
  <2>7. CASE Create(r)
    <3>1. UNCHANGED <<members, profile>> /\ account[x] # "unborn"
      BY <2>0, <2>7 DEF Create, Born
    <3>2. account'[x] = account[x]
      BY <2>0, <2>7, <3>1 DEF Create, CreateUser, CreateRole, CreatePermission, TypeOK
    <3> QED
      BY <2>1, <3>1, <3>2
  <2>8. CASE EditUser(r)
    <3>1. step[r] = "write" /\ job[r].op \in UserOps /\ UNCHANGED <<account, members>>
      BY <2>8 DEF EditUser, Asked, UserOps, rights
    <3>2. job[r].user = x
      BY <2>0, <2>1, <2>8, <3>1 DEF EditUser, TypeOK
    <3> QED
      BY <2>4, <3>1, <3>2
  <2>9. Write(r) => RemoveUser(r) \/ SetEnabled(r) \/ AssignRole(r) \/ UnassignRole(r)
    BY <2>2
    DEF Write, AttachPermission, DetachPermission, DeleteRole, DeletePermission, Committed
  <2> QED
    BY <2>3, <2>5, <2>6, <2>7, <2>8, <2>9
<1> QED
  BY <1>1, AuthorizationHolds, PTL DEF Spec, RootsUntouched

=============================================================================
