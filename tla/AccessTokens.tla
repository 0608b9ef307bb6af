---------------------------- MODULE AccessTokens ----------------------------
(***************************************************************************)
(* Admission of RPC calls by one access token: AccessTokenGuard with the   *)
(* record it caches in Redis (RedisCacheAsideService), the quota counted   *)
(* by AccessTokenService.consumeInvocation, the administration of the      *)
(* token and of the project the calls name, and RpcService.resolveProject. *)
(* Other tokens have other rows and other cache keys and never meet this   *)
(* one.                                                                     *)
(*                                                                         *)
(* A step is one query or Redis command and the synchronous code after it. *)
(* The calls name one project; Ids are the rows that may carry its name    *)
(* one after the other, Other is a project of another name.                *)
(***************************************************************************)
EXTENDS Naturals, FiniteSets

CONSTANTS
    Calls,      \* requests with this token: a bound
    Writers,    \* administrative requests, one write each: a bound
    Ids,        \* project rows that may carry the called name
    Other,      \* a project the calls do not name
    Limits,     \* values of maximumUsageCount other than null
    Policies,   \* the policies, [expiry, limit], the token may be given
    CacheFails, \* whether a Redis command may reject
    Missing,    \* the record of an unknown token, cached as null
    None

ASSUME AccessConstants ==
    /\ Limits \subseteq Nat \ {0}  \* access_tokens_maximum_usage_count_ck
    /\ Policies \subseteq [expiry : {"never", "soon"}, limit : Limits \cup {None}]
    /\ None \notin Limits \cup Ids \cup {Other, Missing}
    /\ Ids # {} /\ Other \notin Ids
    /\ CacheFails \in BOOLEAN

VARIABLES
    token,     \* the row of access_tokens
    scope,     \* its rows of access_token_projects
    passed,    \* clocks that are past the expiry date: database, host
    named,     \* the live project with the called name, or None
    enabled,   \* whether that project is enabled; TRUE if there is none
    unborn,    \* ids no project has had yet
    cache,     \* the cached record, Missing (cached as null), or None
    step,      \* step[c]: where call c stands, see CallSteps
    held,      \* held[c]: the record c decides on
    wstep,     \* wstep[w]: where request w stands
    chosen,    \* chosen[w]: the project ids w resolved
    counted,   \* calls counted against the quota
    outdated,  \* calls that hold a record read before a later write
    tainted,   \* whether the cached record was outdated, or its DEL failed
    eased,     \* calls the row itself may let through without counting them
    lateCalls  \* calls that began on a revoked or deleted token

policyVars == <<token, scope>>
projectVars == <<named, enabled, unborn>>
callVars == <<step, held, counted, eased, lateCalls>>
writerVars == <<wstep, chosen>>
vars == <<policyVars, passed, projectVars, cache, callVars, writerVars,
          outdated, tainted>>

-----------------------------------------------------------------------------
AllIds == Ids \cup {Other}

Rows == [alive : BOOLEAN, active : BOOLEAN, expiry : {"never", "soon"},
         limit : Limits \cup {None}, used : Nat]

\* What findByToken returns for a live row.
Records == [active : BOOLEAN, expiry : {"never", "soon"},
            limit : Limits \cup {None}, used : Nat, scope : SUBSET AllIds]

CallSteps == {"new", "row", "scope", "store", "project", "consume", "resolve",
              "clear", "invoke", "invoked", "refused"}
WriterSteps == {"new", "write", "clear", "done"}

TypeOK ==
    /\ token \in Rows
    /\ scope \in (SUBSET AllIds) \ {{}}
    /\ passed \subseteq {"database", "host"}
    /\ named \in Ids \cup {None}
    /\ enabled \in BOOLEAN
    /\ unborn \subseteq Ids
    /\ cache \in Records \cup {Missing, None}
    /\ step \in [Calls -> CallSteps]
    /\ held \in [Calls -> Records \cup {Missing, None}]
    /\ wstep \in [Writers -> WriterSteps]
    /\ chosen \in [Writers -> SUBSET AllIds]
    /\ counted \subseteq Calls
    /\ outdated \subseteq Calls
    /\ tainted \in BOOLEAN
    /\ eased \subseteq Calls
    /\ lateCalls \subseteq Calls

Record(s) == [active |-> token.active, expiry |-> token.expiry,
              limit |-> token.limit, used |-> token.used, scope |-> s]

Truth == IF token.alive THEN Record(scope) ELSE Missing

Init ==
    /\ \E p \in Policies :
           token = [alive |-> TRUE, active |-> TRUE, expiry |-> p.expiry,
                    limit |-> p.limit, used |-> 0]
    /\ LET first == CHOOSE p \in Ids : TRUE IN
           scope = {first} /\ named \in {first, None} /\ unborn = Ids \ {first}
    /\ passed = {}
    /\ enabled = TRUE
    /\ cache = None
    /\ step = [c \in Calls |-> "new"]
    /\ held = [c \in Calls |-> None]
    /\ wstep = [w \in Writers |-> "new"]
    /\ chosen = [w \in Writers |-> {}]
    /\ counted = {} /\ outdated = {} /\ eased = {} /\ lateCalls = {}
    /\ tainted = FALSE

-----------------------------------------------------------------------------
(* The guard of one call.                                                   *)

Dead == ~token.alive \/ ~token.active

ExpiredOn(clock, r) == r.expiry = "soon" /\ clock \in passed
Exhausted(r) == r.limit # None /\ r.used >= r.limit

\* assertTokenIsUsable, on the host's clock.
Usable(r) == /\ r # Missing
             /\ ~ExpiredOn("host", r)
             /\ r.active
             /\ ~Exhausted(r)

\* The request is answered; the call's record is gone with it.
End(c, outcome) ==
    /\ step' = [step EXCEPT ![c] = outcome]
    /\ held' = [held EXCEPT ![c] = None]
    /\ counted' = counted \ {c}
    /\ eased' = eased \ {c}
    /\ lateCalls' = lateCalls \ {c}

\* Call c goes on to the project with record r, or is refused.
Decide(c, r) ==
    /\ step' = [step EXCEPT ![c] = IF Usable(r) THEN "project" ELSE "refused"]
    /\ held' = [held EXCEPT ![c] = IF Usable(r) THEN r ELSE None]

\* getOrLoad: a hit decides at once; a miss, or a GET that rejects, loads.
ReadCache(c) ==
    /\ step[c] = "new"
    /\ \/ /\ cache # None
          /\ Decide(c, cache)
          /\ lateCalls' = IF Dead /\ Usable(cache) THEN lateCalls \cup {c} ELSE lateCalls
       \/ /\ cache = None \/ CacheFails
          /\ step' = [step EXCEPT ![c] = "row"]
          /\ lateCalls' = IF Dead THEN lateCalls \cup {c} ELSE lateCalls
          /\ UNCHANGED held
    /\ UNCHANGED <<policyVars, passed, projectVars, cache, counted, eased,
                   writerVars, outdated, tainted>>

\* findByToken reads the token first ...
LoadRow(c) ==
    /\ step[c] = "row"
    /\ IF token.alive
       THEN /\ held' = [held EXCEPT ![c] = Record({})]
            /\ step' = [step EXCEPT ![c] = "scope"]
       ELSE /\ held' = [held EXCEPT ![c] = Missing]
            /\ step' = [step EXCEPT ![c] = "store"]
    /\ UNCHANGED <<policyVars, passed, projectVars, cache, counted, eased,
                   lateCalls, writerVars, outdated, tainted>>

\* ... and its projects in a second query.
LoadScope(c) ==
    /\ step[c] = "scope"
    /\ held' = [held EXCEPT ![c].scope = scope]
    /\ step' = [step EXCEPT ![c] = "store"]
    /\ UNCHANGED <<policyVars, passed, projectVars, cache, counted, eased,
                   lateCalls, writerVars, outdated, tainted>>

\* SET with a TTL; an error is only logged.  The call decides on what it read.
Store(c) ==
    /\ step[c] = "store"
    /\ \/ /\ cache' = held[c]
          /\ tainted' = (c \in outdated)
       \/ CacheFails /\ UNCHANGED <<cache, tainted>>
    /\ Decide(c, held[c])
    /\ lateCalls' = IF Usable(held[c]) THEN lateCalls ELSE lateCalls \ {c}
    /\ outdated' = outdated \ {c}
    /\ UNCHANGED <<policyVars, passed, projectVars, counted, eased, writerVars>>

\* idByName, uncached; then invoke counts only what the record says is limited.
CheckProject(c) ==
    /\ step[c] = "project"
    /\ IF named # None /\ named \in held[c].scope
       THEN /\ step' = [step EXCEPT ![c] =
                   IF held[c].limit = None THEN "invoke" ELSE "consume"]
            /\ UNCHANGED <<held, counted, eased, lateCalls>>
       ELSE End(c, "refused")
    /\ UNCHANGED <<policyVars, passed, projectVars, cache, writerVars, outdated,
                   tainted>>

-----------------------------------------------------------------------------
(* consumeInvocation and the call itself.                                   *)

\* Everybody who has read the token before this change holds an outdated record.
Outdate == outdated' = {c \in Calls : step[c] \in {"scope", "store"}}

\* Slip: the UPDATE does not look at the status.
ConsumableAnyStatus == /\ token.alive
                       /\ ~Exhausted(token)
                       /\ ~ExpiredOn("database", token)

\* The WHERE of the conditional UPDATE, on the database's clock.
Consumable == /\ token.alive
              /\ token.active
              /\ ~Exhausted(token)
              /\ ~ExpiredOn("database", token)

\* The database has seen the expiry date pass, the host has not.
ClocksDisagree == ExpiredOn("database", token) /\ ~ExpiredOn("host", token)

Consume(c) ==
    /\ step[c] = "consume"
    /\ IF Consumable
       THEN /\ step' = [step EXCEPT ![c] = "clear"]
            /\ IF token.limit # None
               THEN /\ token' = [token EXCEPT !.used = @ + 1]
                    /\ counted' = counted \cup {c}
                    /\ Outdate
                    /\ UNCHANGED eased
               ELSE /\ eased' = eased \cup {c}
                    /\ UNCHANGED <<token, counted, outdated>>
       ELSE /\ step' = [step EXCEPT ![c] = "resolve"]
            /\ eased' = IF ClocksDisagree THEN eased \cup {c} ELSE eased
            /\ UNCHANGED <<token, counted, outdated>>
    /\ UNCHANGED <<scope, passed, projectVars, cache, held, lateCalls, writerVars,
                   tainted>>

\* Slip: the second look does not compare the count with the limit.
RefusesUnlessExhausted == Dead \/ ExpiredOn("host", token)

\* resolveUnconsumedToken, on the host's clock.
Refuses == Dead \/ ExpiredOn("host", token) \/ Exhausted(token)

\* It reads the row again to tell why: it may find nothing wrong any more.
Resolve(c) ==
    /\ step[c] = "resolve"
    /\ IF Refuses
       THEN End(c, "refused")
       ELSE /\ step' = [step EXCEPT ![c] = "clear"]
            /\ UNCHANGED <<held, counted, eased, lateCalls>>
    /\ UNCHANGED <<policyVars, passed, projectVars, cache, writerVars, outdated,
                   tainted>>

\* Slip: the key is left alone.
KeepKey == UNCHANGED <<cache, tainted>>

\* DEL of the cached record; an error is only logged.
DeleteKey ==
    \/ cache' = None /\ tainted' = FALSE
    \/ CacheFails /\ tainted' = TRUE /\ UNCHANGED cache

ClearAfterConsume(c) ==
    /\ step[c] = "clear"
    /\ DeleteKey
    /\ step' = [step EXCEPT ![c] = "invoke"]
    /\ UNCHANGED <<policyVars, passed, projectVars, held, counted, eased,
                   lateCalls, writerVars, outdated>>

\* RpcService.resolveProject reads the project by name again.
Invoke(c) ==
    /\ step[c] = "invoke"
    /\ End(c, IF named # None /\ enabled THEN "invoked" ELSE "refused")
    /\ UNCHANGED <<policyVars, passed, projectVars, cache, writerVars, outdated,
                   tainted>>

-----------------------------------------------------------------------------
(* Administration of the token.                                             *)

\* resolveProjectSelection, before the transaction; the empty one is refused.
Select(w) ==
    /\ wstep[w] = "new"
    /\ \E P \in SUBSET ((IF named = None THEN {} ELSE {named}) \cup {Other}) :
           P # {} /\ chosen' = [chosen EXCEPT ![w] = P]
    /\ wstep' = [wstep EXCEPT ![w] = "write"]
    /\ UNCHANGED <<policyVars, passed, projectVars, cache, callVars, outdated,
                   tainted>>

\* A write has committed and its DEL is still to come.
Committed(w) ==
    /\ wstep' = [wstep EXCEPT ![w] = "clear"]
    /\ Outdate
    /\ eased' = eased \cup {c \in Calls : step[c] = "resolve"}
    /\ UNCHANGED <<passed, projectVars, cache, step, held, counted, lateCalls,
                   chosen, tainted>>

\* update: the fields given, and the projects if w has resolved some.
Update(w) ==
    /\ wstep[w] \in {"new", "write"}
    /\ token.alive
    /\ \E p \in Policies \cup {[expiry |-> token.expiry, limit |-> token.limit]} :
           token' = [alive |-> TRUE, active |-> token.active, expiry |-> p.expiry,
                     limit |-> p.limit, used |-> token.used]
    /\ scope' = IF wstep[w] = "write" THEN chosen[w] ELSE scope
    /\ Committed(w)

\* revoke: WHERE id only, a deleted row is revoked as well.
Revoke(w) ==
    /\ wstep[w] = "new"
    /\ token' = [token EXCEPT !.active = FALSE]
    /\ UNCHANGED scope
    /\ Committed(w)

ResetUsage(w) ==
    /\ wstep[w] = "new"
    /\ token.alive
    /\ token' = [token EXCEPT !.used = 0]
    /\ UNCHANGED scope
    /\ Committed(w)

Delete(w) ==
    /\ wstep[w] = "new"
    /\ token.alive
    /\ token' = [token EXCEPT !.alive = FALSE]
    /\ UNCHANGED scope
    /\ Committed(w)

\* The rest of writeAndInvalidate.
ClearAfterWrite(w) ==
    /\ wstep[w] = "clear"
    /\ DeleteKey
    /\ wstep' = [wstep EXCEPT ![w] = "done"]
    /\ UNCHANGED <<policyVars, passed, projectVars, callVars, chosen, outdated>>

-----------------------------------------------------------------------------
(* Projects, clocks and TTLs.                                               *)

ProjectWrite(w) ==
    /\ wstep[w] = "new"
    /\ wstep' = [wstep EXCEPT ![w] = "done"]
    /\ UNCHANGED <<policyVars, passed, cache, callVars, chosen, outdated, tainted>>

\* remove is a soft delete: the token keeps the id in its scope.
RemoveProject(w) ==
    /\ ProjectWrite(w)
    /\ named # None
    /\ named' = None
    /\ enabled' = TRUE
    /\ UNCHANGED unborn

CreateProject(w, p) ==
    /\ ProjectWrite(w)
    /\ named = None
    /\ p \in unborn
    /\ named' = p
    /\ unborn' = unborn \ {p}
    /\ UNCHANGED enabled

SetEnabled(w) ==
    /\ ProjectWrite(w)
    /\ named # None
    /\ enabled' = ~enabled
    /\ UNCHANGED <<named, unborn>>

\* The expiry date passes on one clock before the other.
ClockPasses(k) ==
    /\ k \notin passed
    /\ passed' = passed \cup {k}
    /\ UNCHANGED <<policyVars, projectVars, cache, callVars, writerVars, outdated,
                   tainted>>

\* Slip: only the record of a missing token has a TTL.
CacheExpiresIfMissing ==
    /\ cache = Missing
    /\ cache' = None
    /\ tainted' = FALSE
    /\ UNCHANGED <<policyVars, passed, projectVars, callVars, writerVars, outdated>>

\* 60 s for a record, 10 s for null.
CacheExpires ==
    /\ cache # None
    /\ cache' = None
    /\ tainted' = FALSE
    /\ UNCHANGED <<policyVars, passed, projectVars, callVars, writerVars, outdated>>

-----------------------------------------------------------------------------
CallStep(c) ==
    \/ LoadRow(c) \/ LoadScope(c) \/ Store(c) \/ CheckProject(c)
    \/ Consume(c) \/ Resolve(c) \/ ClearAfterConsume(c) \/ Invoke(c)

Write(w) ==
    \/ Select(w) \/ Update(w) \/ Revoke(w) \/ ResetUsage(w) \/ Delete(w)
    \/ RemoveProject(w) \/ SetEnabled(w) \/ \E p \in Ids : CreateProject(w, p)

Done ==
    /\ \A c \in Calls : step[c] \in {"invoked", "refused"}
    /\ UNCHANGED vars

Next ==
    \/ \E c \in Calls : ReadCache(c) \/ CallStep(c)
    \/ \E w \in Writers : Write(w) \/ ClearAfterWrite(w)
    \/ \E k \in {"database", "host"} : ClockPasses(k)
    \/ CacheExpires
    \/ Done

\* A request that has begun goes on; a key with a TTL expires.
Fairness ==
    /\ \A c \in Calls : WF_vars(CallStep(c))
    /\ WF_vars(CacheExpires)

Spec == Init /\ [][Next]_vars
FairSpec == Spec /\ Fairness

-----------------------------------------------------------------------------
(* Properties.                                                              *)

\* The cached record differs from the rows only while somebody who changed them
\* has his DEL to come, or because the record was stored by a request that had
\* read them before a change, or because a DEL failed (writeAndInvalidate,
\* getOrLoad).
CacheExplained ==
    cache \notin {None, Truth} =>
        \/ tainted
        \/ \E w \in Writers : wstep[w] = "clear"
        \/ \E c \in Calls : step[c] = "clear"

PastTheQuota == {"clear", "invoke"}

\* A call gets past the quota without being counted only if the record it
\* decided on has no limit, or if the row itself was changed, or has no limit any
\* more, or has expired on one clock only, while the call was consuming.
UncountedExplained ==
    \A c \in Calls :
        step[c] \in PastTheQuota /\ c \notin counted =>
            c \in eased \/ held[c].limit = None

\* Whatever the cache still holds, a call that begins after the token was revoked
\* or deleted does not get past the quota: only a record without a limit, which
\* nobody looks at again, may let it run (consumeInvocation).
LimitedRechecked ==
    \A c \in lateCalls : step[c] \in PastTheQuota => held[c].limit = None

Grants == cache \notin {None, Missing} /\ cache.active

\* Once a token is revoked or deleted, the cache sooner or later stops saying
\* otherwise, for good: every entry expires and new ones are loaded.
DeadIsForgotten == [](Dead => <>[]~Grants)

-----------------------------------------------------------------------------
(* What the invariants rest on.                                             *)

\* A request about to write its projects has selected some.
Selected == \A w \in Writers : wstep[w] = "write" => chosen[w] # {}

HeldInOrder ==
    \A c \in Calls :
        /\ step[c] = "store" => held[c] \in Records \cup {Missing}
        /\ step[c] \in {"scope", "project", "consume", "resolve", "clear", "invoke"}
               => held[c] \in Records
        /\ step[c] \in {"consume", "resolve", "clear"} => held[c].limit # None

\* What a request has read is still true unless somebody has written since.
ReadIsFresh ==
    \A c \in Calls \ outdated :
        /\ step[c] = "scope" => token.alive /\ held[c] = Record({})
        /\ step[c] = "store" => held[c] = Truth

\* The second look refuses what the conditional UPDATE refused.
RefusedTwice ==
    \A c \in Calls \ eased : step[c] = "resolve" => Refuses

LateIsDead ==
    \A c \in lateCalls : Dead /\ step[c] # "clear"

AdmissionInv ==
    /\ TypeOK
    /\ Selected
    /\ HeldInOrder
    /\ ReadIsFresh
    /\ RefusedTwice
    /\ LateIsDead
    /\ CacheExplained
    /\ UncountedExplained
    /\ LimitedRechecked
=============================================================================
