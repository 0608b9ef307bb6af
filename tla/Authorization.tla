--------------------------- MODULE Authorization ---------------------------
(***************************************************************************)
(* Authorization of administrators: JwtStrategy with the snapshot of a     *)
(* user's rights cached in Redis (UserAuthorizationCacheService), the      *)
(* permission and root guards, and the writes of RbacService and           *)
(* UsersService that change those rights and delete the snapshots of the   *)
(* users they affect.                                                      *)
(*                                                                         *)
(* A request slot serves one HTTP request after the other; a step is one   *)
(* query or Redis command with the synchronous code after it.  Ids are     *)
(* never used twice.  Names and descriptions decide nothing; of a password *)
(* counts who set it.                                                      *)
(***************************************************************************)
EXTENDS Naturals, FiniteSets

CONSTANTS
    Requests,    \* concurrent requests: a bound
    Users,
    Roots,       \* users with is_root, which no handler changes
    Roles,       \* the "permission groups"
    Permissions, \* records [action, subject]
    MaxWrites,   \* how many they are: a bound
    CacheFails,  \* whether a Redis command may reject
    None

ASSUME AuthorizationConstants ==
    /\ Roots \subseteq Users
    /\ None \notin Users \cup Roles \cup Permissions
    /\ \A s \in SUBSET Permissions : s # None
    /\ MaxWrites \in Nat
    /\ CacheFails \in BOOLEAN

VARIABLES
    account,     \* account[u]: the row of users
    profile,     \* profile[u]: who set its password or description last
    role,        \* role[g]: the row of roles
    permission,  \* permission[p]: the row of permissions
    members,     \* user_roles
    grants,      \* role_permissions
    cache,       \* cache[u]: the cached snapshot, or None
    step,        \* step[r]: the next thing request r does
    who,         \* who[r]: the user its JWT names
    held,        \* held[r]: the snapshot it decides on
    job,         \* job[r]: the write it asks for
    targets,     \* targets[r]: the users whose snapshots it will delete
    newcomers,   \* newcomers[r]: users its job concerns since it listed them
    outdated,    \* requests that hold what a later write has changed
    stale,       \* users whose snapshot was outdated, or whose DEL failed
    asked,       \* writes asked for so far
    missed       \* users whose rights changed by a job that missed them

rights == <<account, role, permission, members, grants>>
rows == <<rights, profile>>
vars == <<rows, cache, step, who, held, job, targets, newcomers, outdated,
          stale, missed, asked>>

-----------------------------------------------------------------------------
UserOps == {"remove", "enable", "disable", "edit"}
MemberOps == {"assign", "unassign"}
GrantOps == {"attach", "detach"}
ListingOps == GrantOps \cup {"deleteRole", "deletePermission"}
RootOps == MemberOps \cup ListingOps \cup {"createRole", "createPermission"}

Job(ops, us, gs, ps) == [op : ops, user : us, role : gs, permission : ps]

Jobs == Job(UserOps \cup {"createUser"}, Users, {None}, {None})
        \cup Job(MemberOps, Users, Roles, {None})
        \cup Job(GrantOps, {None}, Roles, Permissions)
        \cup Job({"deleteRole", "createRole"}, {None}, Roles, {None})
        \cup Job({"deletePermission", "createPermission"}, {None}, {None}, Permissions)

Steps == {"idle", "account", "rights", "store", "guard", "policy", "role",
          "permission", "list", "write", "clear"}
RowStates == {"unborn", "alive", "deleted"}
Snapshots == SUBSET Permissions

TypeOK ==
    /\ account \in [Users -> {"unborn", "enabled", "disabled", "deleted"}]
    /\ profile \in [Users -> Users \cup {None}]
    /\ role \in [Roles -> RowStates]
    /\ permission \in [Permissions -> RowStates]
    /\ members \subseteq Users \X Roles
    /\ grants \subseteq Roles \X Permissions
    /\ cache \in [Users -> {None} \cup Snapshots]
    /\ step \in [Requests -> Steps]
    /\ who \in [Requests -> Users \cup {None}]
    /\ held \in [Requests -> {None} \cup Snapshots]
    /\ job \in [Requests -> Jobs \cup {None}]
    /\ targets \in [Requests -> SUBSET Users]
    /\ newcomers \in [Requests -> SUBSET Users]
    /\ outdated \subseteq Requests
    /\ stale \subseteq Users
    /\ missed \subseteq Users
    /\ asked \in 0..MaxWrites

Init ==
    /\ account \in [Users -> {"unborn", "enabled"}]
    /\ \A u \in Roots : account[u] = "enabled"
    /\ profile = [u \in Users |-> None]
    /\ role \in [Roles -> {"unborn", "alive"}]
    /\ permission \in [Permissions -> {"unborn", "alive"}]
    /\ members \in SUBSET {m \in Users \X Roles :
                              m[1] \notin Roots /\ account[m[1]] = "enabled"
                              /\ role[m[2]] = "alive"}
    /\ grants \in SUBSET {m \in Roles \X Permissions :
                              role[m[1]] = "alive" /\ permission[m[2]] = "alive"}
    /\ cache = [u \in Users |-> None]
    /\ step = [r \in Requests |-> "idle"]
    /\ who = [r \in Requests |-> None]
    /\ held = [r \in Requests |-> None]
    /\ job = [r \in Requests |-> None]
    /\ targets = [r \in Requests |-> {}]
    /\ newcomers = [r \in Requests |-> {}]
    /\ outdated = {} /\ stale = {} /\ missed = {}
    /\ asked = 0

-----------------------------------------------------------------------------
(* Who may do what.                                                         *)

Exists(u) == account[u] \in {"enabled", "disabled"}

\* getUserPermissions: deleted roles and permissions do not count.
Rights(u) == {p \in Permissions :
                 /\ permission[p] = "alive"
                 /\ \E g \in Roles : /\ role[g] = "alive"
                                     /\ <<u, g>> \in members
                                     /\ <<g, p>> \in grants}

\* The snapshot a load would store; for a missing or disabled user it throws.
Truth(u) == IF account[u] = "enabled" THEN Rights(u) ELSE None

\* CASL takes "manage" for any action and "all" for any subject.
Can(snapshot, action, subject) ==
    \E p \in snapshot : p.subject \in {subject, "all"} /\ p.action \in {action, "manage"}

ActionOf == [remove |-> "delete", enable |-> "update", disable |-> "update",
             edit |-> "update", createUser |-> "create"]

\* PermissionGuard, and RootGuard in front of the writes of RbacController.
Allowed(r, j) ==
    \/ who[r] \in Roots
    \/ j.op \notin RootOps /\ Can(held[r], ActionOf[j.op], "user")

\* Slip: any administrator may change any account.
MayChangeAny(r, u) == Exists(u)

\* assertCanMutateUser: a root is changed by nobody but himself.
MayChange(r, u) == Exists(u) /\ (u \in Roots => u = who[r])

MembersOf(g) == {u \in Users : <<u, g>> \in members}
HoldersOf(p) == {u \in Users : \E g \in Roles : <<u, g>> \in members /\ <<g, p>> \in grants}

\* The request is answered.
Finish(r) ==
    /\ step' = [step EXCEPT ![r] = "idle"]
    /\ who' = [who EXCEPT ![r] = None]
    /\ held' = [held EXCEPT ![r] = None]
    /\ job' = [job EXCEPT ![r] = None]
    /\ targets' = [targets EXCEPT ![r] = {}]
    /\ newcomers' = [newcomers EXCEPT ![r] = {}]

GoOn(r, next) ==
    /\ step' = [step EXCEPT ![r] = next]
    /\ UNCHANGED <<who, job, newcomers>>

-----------------------------------------------------------------------------
(* JwtStrategy.validate.                                                    *)

\* A hit decides; a miss, or a GET that rejects, loads.
Authenticate(r, u) ==
    /\ step[r] = "idle"
    /\ account[u] # "unborn"
    /\ \/ /\ cache[u] # None
          /\ held' = [held EXCEPT ![r] = cache[u]]
          /\ step' = [step EXCEPT ![r] = "guard"]
       \/ /\ cache[u] = None \/ CacheFails
          /\ step' = [step EXCEPT ![r] = "account"]
          /\ UNCHANGED held
    /\ who' = [who EXCEPT ![r] = u]
    /\ UNCHANGED <<asked, rows, cache, job, targets, newcomers, outdated, stale, missed>>

\* findAuthUser; what it throws is not cached.
LoadAccount(r) ==
    /\ step[r] = "account"
    /\ IF account[who[r]] = "enabled"
       THEN GoOn(r, "rights") /\ UNCHANGED <<held, targets>>
       ELSE Finish(r)
    /\ UNCHANGED <<asked, rows, cache, outdated, stale, missed>>

LoadRights(r) ==
    /\ step[r] = "rights"
    /\ held' = [held EXCEPT ![r] = Rights(who[r])]
    /\ GoOn(r, "store")
    /\ UNCHANGED <<asked, rows, cache, targets, outdated, stale, missed>>

Store(r) ==
    /\ step[r] = "store"
    /\ \/ /\ cache' = [cache EXCEPT ![who[r]] = held[r]]
          /\ stale' = IF r \in outdated THEN stale \cup {who[r]} ELSE stale \ {who[r]}
          /\ missed' = missed \ {who[r]}
       \/ CacheFails /\ UNCHANGED <<cache, stale, missed>>
    /\ outdated' = outdated \ {r}
    /\ GoOn(r, "guard")
    /\ UNCHANGED <<asked, rows, held, targets>>

-----------------------------------------------------------------------------
(* The handlers up to their write.                                          *)

\* PermissionGuard or RootGuard refuses, or the request only reads.
Answer(r) ==
    /\ step[r] = "guard"
    /\ Finish(r)
    /\ UNCHANGED <<asked, rows, cache, outdated, stale, missed>>

FirstStep(op) ==
    CASE op \in UserOps \cup MemberOps -> "policy"
      [] op = "attach" -> "role"
      [] op \in ListingOps \ {"attach"} -> "list"
      [] OTHER -> "write"

Start(r) ==
    /\ step[r] = "guard"
    /\ \E j \in Jobs :
          /\ Allowed(r, j)
          /\ job' = [job EXCEPT ![r] = j]
          /\ step' = [step EXCEPT ![r] = FirstStep(j.op)]
    /\ asked < MaxWrites
    /\ asked' = asked + 1
    /\ held' = [held EXCEPT ![r] = None]
    /\ UNCHANGED <<rows, cache, who, targets, newcomers, outdated, stale, missed>>

CheckPolicy(r) ==
    /\ step[r] = "policy"
    /\ IF MayChange(r, job[r].user)
       THEN /\ targets' = [targets EXCEPT ![r] = {job[r].user}]
            /\ GoOn(r, IF job[r].op = "assign" THEN "role" ELSE "write")
            /\ UNCHANGED held
       ELSE Finish(r)
    /\ UNCHANGED <<asked, rows, cache, outdated, stale, missed>>

CheckRole(r) ==
    /\ step[r] = "role"
    /\ IF role[job[r].role] = "alive"
       THEN /\ GoOn(r, IF job[r].op = "assign" THEN "write" ELSE "permission")
            /\ UNCHANGED <<held, targets>>
       ELSE Finish(r)
    /\ UNCHANGED <<asked, rows, cache, outdated, stale, missed>>

CheckPermission(r) ==
    /\ step[r] = "permission"
    /\ IF permission[job[r].permission] = "alive"
       THEN GoOn(r, "list") /\ UNCHANGED <<held, targets>>
       ELSE Finish(r)
    /\ UNCHANGED <<asked, rows, cache, outdated, stale, missed>>

\* Slip: the holders of a permission are not looked up.
AffectedMembers(j) == IF j.op = "deletePermission" THEN {} ELSE MembersOf(j.role)

\* listRoleMemberUserIds, listPermissionHolderUserIds.
Affected(j) == IF j.op = "deletePermission" THEN HoldersOf(j.permission)
                                            ELSE MembersOf(j.role)

\* The affected users are listed before the write, outside of any transaction.
List(r) ==
    /\ step[r] = "list"
    /\ targets' = [targets EXCEPT ![r] = Affected(job[r])]
    /\ GoOn(r, "write")
    /\ UNCHANGED <<asked, rows, cache, held, outdated, stale, missed>>

-----------------------------------------------------------------------------
(* The writes.                                                              *)

Asked(r, op) == step[r] = "write" /\ job[r].op = op

\* r's write has committed, its DEL is to come; those in late have since become
\* somebody the jobs under way should have listed.
Committed(r, late) ==
    LET changed == {u \in Users : Truth(u)' # Truth(u)} IN
    /\ step' = [step EXCEPT ![r] = "clear"]
    /\ outdated' = outdated \cup
           {q \in Requests : \/ step[q] = "store" /\ who[q] \in changed
                             \/ step[q] = "rights" /\ account'[who[q]] # "enabled"}
    /\ newcomers' = [q \in Requests |->
           IF q # r /\ step[q] = "write" /\ job[q].op \in ListingOps
           THEN newcomers[q] \cup late ELSE newcomers[q]]
    /\ missed' = missed \cup ((changed \ targets[r]) \cap newcomers[r])
    /\ UNCHANGED <<profile, cache, who, held, job, targets, stale, asked>>

RemoveUser(r) ==
    /\ Asked(r, "remove")
    /\ Exists(job[r].user)
    /\ account' = [account EXCEPT ![job[r].user] = "deleted"]
    /\ UNCHANGED <<role, permission, members, grants>>
    /\ Committed(r, {})

SetEnabled(r) ==
    /\ Asked(r, "enable") \/ Asked(r, "disable")
    /\ Exists(job[r].user)
    /\ account' = [account EXCEPT ![job[r].user] =
                      IF job[r].op = "enable" THEN "enabled" ELSE "disabled"]
    /\ UNCHANGED <<role, permission, members, grants>>
    /\ Committed(r, {})

\* The foreign keys look at the rows, which a soft delete leaves in place.
AssignRole(r) ==
    LET m == <<job[r].user, job[r].role>> IN
    /\ Asked(r, "assign")
    /\ m \notin members
    /\ members' = members \cup {m}
    /\ UNCHANGED <<account, role, permission, grants>>
    /\ Committed(r, {job[r].user})

UnassignRole(r) ==
    LET m == <<job[r].user, job[r].role>> IN
    /\ Asked(r, "unassign")
    /\ m \in members
    /\ members' = members \ {m}
    /\ UNCHANGED <<account, role, permission, grants>>
    /\ Committed(r, {})

AttachPermission(r) ==
    LET m == <<job[r].role, job[r].permission>> IN
    /\ Asked(r, "attach")
    /\ m \notin grants
    /\ grants' = grants \cup {m}
    /\ UNCHANGED <<account, role, permission, members>>
    /\ Committed(r, MembersOf(job[r].role))

DetachPermission(r) ==
    LET m == <<job[r].role, job[r].permission>> IN
    /\ Asked(r, "detach")
    /\ m \in grants
    /\ grants' = grants \ {m}
    /\ UNCHANGED <<account, role, permission, members>>
    /\ Committed(r, {})

DeleteRole(r) ==
    /\ Asked(r, "deleteRole")
    /\ role[job[r].role] = "alive"
    /\ role' = [role EXCEPT ![job[r].role] = "deleted"]
    /\ UNCHANGED <<account, permission, members, grants>>
    /\ Committed(r, {})

DeletePermission(r) ==
    /\ Asked(r, "deletePermission")
    /\ permission[job[r].permission] = "alive"
    /\ permission' = [permission EXCEPT ![job[r].permission] = "deleted"]
    /\ UNCHANGED <<account, role, members, grants>>
    /\ Committed(r, {})

\* No snapshot depends on what is new.
CreateUser(r) ==
    /\ Asked(r, "createUser")
    /\ account[job[r].user] = "unborn"
    /\ account' = [account EXCEPT ![job[r].user] = "enabled"]
    /\ UNCHANGED <<role, permission>>

CreateRole(r) ==
    /\ Asked(r, "createRole")
    /\ role[job[r].role] = "unborn"
    /\ role' = [role EXCEPT ![job[r].role] = "alive"]
    /\ UNCHANGED <<account, permission>>

CreatePermission(r) ==
    /\ Asked(r, "createPermission")
    /\ permission[job[r].permission] = "unborn"
    /\ permission' = [permission EXCEPT ![job[r].permission] = "alive"]
    /\ UNCHANGED <<account, role>>

Create(r) ==
    /\ CreateUser(r) \/ CreateRole(r) \/ CreatePermission(r)
    /\ Finish(r)
    /\ UNCHANGED <<profile, members, grants, cache, outdated, stale, missed, asked>>

\* update and setPassword: nothing of a snapshot changes, and there is no DEL.
EditUser(r) ==
    /\ Asked(r, "edit")
    /\ Exists(job[r].user)
    /\ profile' = [profile EXCEPT ![job[r].user] = who[r]]
    /\ Finish(r)
    /\ UNCHANGED <<rights, cache, outdated, stale, missed, asked>>

Applies(j) ==
    CASE j.op \in UserOps -> Exists(j.user)
      [] j.op = "assign" -> <<j.user, j.role>> \notin members
      [] j.op = "unassign" -> <<j.user, j.role>> \in members
      [] j.op = "attach" -> <<j.role, j.permission>> \notin grants
      [] j.op = "detach" -> <<j.role, j.permission>> \in grants
      [] j.op = "deleteRole" -> role[j.role] = "alive"
      [] j.op = "deletePermission" -> permission[j.permission] = "alive"
      [] j.op = "createUser" -> account[j.user] = "unborn"
      [] j.op = "createRole" -> role[j.role] = "unborn"
      [] j.op = "createPermission" -> permission[j.permission] = "unborn"

\* No row came back: 404 or 409, and no DEL.
WriteFinds(r) ==
    /\ step[r] = "write"
    /\ ~Applies(job[r])
    /\ Finish(r)
    /\ UNCHANGED <<asked, rows, cache, outdated, stale, missed>>

\* One DEL for all keys; an error is only logged.
Clear(r) ==
    /\ step[r] = "clear"
    /\ \/ /\ cache' = [u \in Users |-> IF u \in targets[r] THEN None ELSE cache[u]]
          /\ stale' = stale \ targets[r]
          /\ missed' = missed \ targets[r]
       \/ CacheFails /\ stale' = stale \cup targets[r] /\ UNCHANGED <<cache, missed>>
    /\ Finish(r)
    /\ UNCHANGED <<asked, rows, outdated>>

\* Slip: an empty snapshot has no TTL.
ExpiresUnlessEmpty(u) ==
    /\ cache[u] \notin {None, {}}
    /\ cache' = [cache EXCEPT ![u] = None]
    /\ stale' = stale \ {u}
    /\ missed' = missed \ {u}
    /\ UNCHANGED <<asked, rows, step, who, held, job, targets, newcomers, outdated>>

\* authorizationCacheTtlSeconds.
CacheExpires(u) ==
    /\ cache[u] # None
    /\ cache' = [cache EXCEPT ![u] = None]
    /\ stale' = stale \ {u}
    /\ missed' = missed \ {u}
    /\ UNCHANGED <<asked, rows, step, who, held, job, targets, newcomers, outdated>>

-----------------------------------------------------------------------------
Load(r) == LoadAccount(r) \/ LoadRights(r) \/ Store(r)

Prepare(r) == CheckPolicy(r) \/ CheckRole(r) \/ CheckPermission(r) \/ List(r)

Write(r) ==
    \/ RemoveUser(r) \/ SetEnabled(r)
    \/ AssignRole(r) \/ UnassignRole(r)
    \/ AttachPermission(r) \/ DetachPermission(r)
    \/ DeleteRole(r) \/ DeletePermission(r)

Next ==
    \/ \E r \in Requests : \/ \E u \in Users : Authenticate(r, u)
                           \/ Load(r) \/ Answer(r) \/ Start(r) \/ Prepare(r)
                           \/ Write(r) \/ Create(r) \/ EditUser(r) \/ WriteFinds(r) \/ Clear(r)
    \/ \E u \in Users : CacheExpires(u)

\* A load that has begun goes on; a key with a TTL expires.
Fairness ==
    /\ \A r \in Requests : WF_vars(Load(r))
    /\ \A u \in Users : WF_vars(CacheExpires(u))

Spec == Init /\ [][Next]_vars
FairSpec == Spec /\ Fairness

-----------------------------------------------------------------------------
(* Properties.                                                              *)

\* A cached snapshot differs from the rows only while the DEL of a write that
\* lists the user is to come, or because a load overtaken by a write stored it, or
\* a DEL failed, or a write listed its users before this one came to be concerned
\* (deleteRole, deletePermission, attachPermission, detachPermission).
SnapshotExplained ==
    \A u \in Users :
        cache[u] \notin {None, Truth(u)} =>
            \/ u \in stale \cup missed
            \/ \E r \in Requests : step[r] = "clear" /\ u \in targets[r]

RootRow(x) == <<account[x], profile[x], {m \in members : m[1] = x}>>

\* Between the check of the policy and the write anything may happen, yet the
\* account, the password and the roles of a root change by a request of his own only
\* (AdministratorAccountPolicyService).
RootsUntouched ==
    [][\A x \in Roots :
          RootRow(x)' # RootRow(x) =>
              \E r \in Requests : step[r] = "write" /\ who[r] = x]_vars

\* Once a user is deleted the cache sooner or later has no snapshot of him for
\* good: what a load under way stores expires, and no load stores another.
DeletedForgotten ==
    \A u \in Users : [](account[u] = "deleted" => <>[](cache[u] = None))

-----------------------------------------------------------------------------
(* What the invariants rest on.                                             *)

\* A request's fields belong to the step it is about to take.
InOrder(r) ==
    /\ step[r] # "idle" => who[r] \in Users
    /\ step[r] \in {"store", "guard"} => held[r] \in Snapshots
    /\ step[r] \in {"policy", "role", "permission", "list", "write", "clear"}
           => job[r] \in Jobs
    /\ step[r] = "policy" => job[r].op \in UserOps \cup MemberOps
    /\ step[r] = "role" => job[r].op \in {"assign", "attach"}
    /\ step[r] = "permission" => job[r].op = "attach"
    /\ step[r] = "list" => job[r].op \in ListingOps
    /\ step[r] \in {"role", "write"} /\ job[r].op \in UserOps \cup MemberOps =>
           /\ targets[r] = {job[r].user}
           /\ job[r].user \in Roots => job[r].user = who[r]

\* A request is of a user and for rows that have been created.
Founded(r) ==
    /\ step[r] # "idle" => account[who[r]] # "unborn"
    /\ \/ step[r] = "write" /\ job[r].op \in {"assign", "attach"}
       \/ step[r] = "list" /\ job[r].op = "attach"
       \/ step[r] = "permission"
       => role[job[r].role] # "unborn"
    /\ step[r] \in {"list", "write"} /\ job[r].op = "attach"
       => permission[job[r].permission] # "unborn"

\* Whoever a write concerns was listed for it, or has come since.
ListedOrNew(r) ==
    step[r] = "write" /\ job[r].op \in ListingOps =>
        Affected(job[r]) \subseteq targets[r] \cup newcomers[r]

\* What a load has read is still so unless somebody has written since.
LoadIsFresh(r) ==
    r \notin outdated =>
        /\ step[r] = "rights" => account[who[r]] = "enabled"
        /\ step[r] = "store" => held[r] = Truth(who[r])

\* What is created later concerns nobody's rights.
Born ==
    /\ \A x \in Roots : account[x] # "unborn"
    /\ \A u \in Users : cache[u] # None => account[u] # "unborn"
    /\ \A m \in members : role[m[2]] # "unborn"
    /\ \A m \in grants : role[m[1]] # "unborn" /\ permission[m[2]] # "unborn"

Local(r) == InOrder(r) /\ Founded(r) /\ ListedOrNew(r) /\ LoadIsFresh(r)

AuthorizationInv ==
    TypeOK /\ Born /\ SnapshotExplained /\ \A r \in Requests : Local(r)
=============================================================================
