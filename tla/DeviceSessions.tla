--------------------------- MODULE DeviceSessions ---------------------------
(***************************************************************************)
(* The connections of one device: WsGateway.handleConnection and           *)
(* handleDisconnect on every instance, the Redis keys they write           *)
(* (client:session, presence, project:clients), the device's row in        *)
(* PostgreSQL, and the processes that clean these up: listOnline, the      *)
(* stale and idle sweeps of the worker, TTLs.  Its device token is here    *)
(* too: the row, the cached record validateForConnect reads, and the       *)
(* requests that edit its scope or revoke it.  The keys of two clientIds   *)
(* never meet, so the module follows one clientId and all the sockets it   *)
(* opens.                                                                   *)
(*                                                                         *)
(* handleConnection and handleDisconnect of one socket are two concurrent  *)
(* handlers: a socket may close while its registration is still running.   *)
(* A step is one awaited command and the synchronous code after it.        *)
(***************************************************************************)
EXTENDS Naturals, FiniteSets

CONSTANTS
    Connections,  \* the sockets the device ever opens
    Instances,    \* API instances; a restarted one counts as the same
    Scopes,       \* project sets its device token may be given
    Writers,      \* requests that edit, revoke or delete the device token
    Cleaners,     \* who else cleans up: a subset of CleanerKinds
    Faults,       \* what goes wrong: a subset of FaultKinds
    None

Projects == UNION Scopes

\* listOnline of a caller, the worker's stale sweep and its idle sweep.
CleanerKinds == {"list", "stale", "idle"}

\* A command rejects, a key expires under a live device, an instance dies.
FaultKinds == {"command", "expiry", "crash"}

ASSUME SessionsConstants ==
    /\ {} \notin Scopes  \* resolveProjectSelection refuses the empty selection
    /\ None \notin Connections \cup Instances \cup Scopes \cup {{}}
    /\ Cleaners \subseteq CleanerKinds
    /\ Faults \subseteq FaultKinds

VARIABLES
    open,       \* sockets that are open
    closing,    \* those of them the server has asked to close
    on,         \* on[c]: the instance that accepted socket c
    up,         \* up[c]: next step of handleConnection, see UpSteps
    down,       \* down[c]: next step of handleDisconnect, see DownSteps
    scope,      \* scope[c]: socket._projects
    joining,    \* joining[c]: projects presence.online has yet to SADD
    leaving,    \* leaving[c]: projects presence.offline has yet to SREM
    found,      \* found[c]: what registerOnline's SELECT returned
    mapped,     \* mapped[i]: the device's socket in the sockets map of i
    session,    \* the connection whose token is in client:session, or None
    presence,   \* whether the presence key exists
    listed,     \* projects whose project:clients set holds the device
    purging,    \* projects whose listOnline is about to SREM the device
    row,        \* the device's row: absent, online, offline or stale
    deleted,    \* whether that row is soft-deleted
    sweep,      \* markStaleOffline's progress on the device
    tokenScope, \* scope of the device token, {} once revoked or deleted
    cached,     \* the token's cached record: a tokenScope, or None
    write,      \* write[w]: next step of w, see WriteSteps
    notices,    \* notices[i]: writers whose event instance i has yet to handle
    overtaken,  \* open connections since whose Attach somebody cleaned up
    unowned,    \* connections cleaning up that had found no session
    unheard,    \* open connections a scope-changed event may have missed
    leftBehind  \* projects the device is listed in by an unfinished clean-up

handlerVars == <<up, down, scope, joining, leaving, found>>
keyVars == <<session, presence, listed>>
rowVars == <<row, deleted>>
writerVars == <<tokenScope, write, notices>>
tokenVars == <<cached, writerVars>>
history == <<overtaken, unowned, unheard, leftBehind>>
vars == <<open, closing, on, handlerVars, mapped, keyVars, purging, rowVars, sweep,
          tokenVars, history>>

-----------------------------------------------------------------------------
UpSteps == {"none", "auth", "load", "store", "attach", "session", "find", "write", "presence",
            "join", "finish", "ready", "rejected", "failed"}
WriteSteps == {"new", "clear", "publish", "revoke", "done"}
Records == Scopes \cup {{}}
DownSteps == {"none", "claim", "presence", "leave", "row", "done"}

TypeOK ==
    /\ open \subseteq Connections
    /\ closing \subseteq open
    /\ on \in [Connections -> Instances \cup {None}]
    /\ up \in [Connections -> UpSteps]
    /\ down \in [Connections -> DownSteps]
    /\ scope \in [Connections -> Records]
    /\ joining \in [Connections -> SUBSET Projects]
    /\ leaving \in [Connections -> SUBSET Projects]
    /\ found \in [Connections -> {"none", "absent", "alive", "deleted"}]
    /\ mapped \in [Instances -> Connections \cup {None}]
    /\ session \in Connections \cup {None}
    /\ presence \in BOOLEAN
    /\ listed \subseteq Projects
    /\ purging \subseteq Projects
    /\ row \in {"absent", "online", "offline", "stale"}
    /\ deleted \in BOOLEAN
    /\ sweep \in {"idle", "selected", "missing"}
    /\ tokenScope \in Records
    /\ cached \in Records \cup {None}
    /\ write \in [Writers -> WriteSteps]
    /\ notices \in [Instances -> SUBSET Writers]
    /\ overtaken \subseteq open
    /\ unowned \subseteq Connections
    /\ unheard \subseteq open
    /\ leftBehind \subseteq Projects

Init ==
    /\ open = {}
    /\ closing = {}
    /\ on = [c \in Connections |-> None]
    /\ up = [c \in Connections |-> "none"]
    /\ down = [c \in Connections |-> "none"]
    /\ scope = [c \in Connections |-> {}]
    /\ joining = [c \in Connections |-> {}]
    /\ leaving = [c \in Connections |-> {}]
    /\ found = [c \in Connections |-> "none"]
    /\ mapped = [i \in Instances |-> None]
    /\ session = None
    /\ presence = FALSE
    /\ listed = {}
    /\ purging = {}
    /\ row = "absent"
    /\ deleted = FALSE
    /\ sweep = "idle"
    /\ tokenScope \in Scopes
    /\ cached = None
    /\ write = [w \in Writers |-> "new"]
    /\ notices = [i \in Instances |-> {}]
    /\ overtaken = {}
    /\ unowned = {}
    /\ unheard = {}
    /\ leftBehind = {}

\* Connections that hold a token record: registered in the sockets map, or not
\* yet in it.
Attached(c) == up[c] \notin {"none", "auth", "load", "store", "attach", "rejected"}
Arriving(c) == up[c] \in {"store", "attach"}

\* An edit has committed whose event is still to reach instance i.
EventToCome(i) ==
    \E w \in Writers : write[w] \in {"clear", "publish"} \/ w \in notices[i]

\* The projects c's disconnect is still going to take the device out of, unless
\* it finds that c does not own the session.
Leaves(c) ==
    IF down[c] \in {"none", "claim", "presence"} THEN scope[c] ELSE leaving[c]

\* Whoever cleans up after c (or on its own) overtakes the other connections.
Overtakes(c) == overtaken' = overtaken \cup {n \in open \ {c} : Attached(n)}

-----------------------------------------------------------------------------
(* handleConnection.                                                        *)

Accept(c, i) ==
    /\ up[c] = "none"
    /\ open' = open \cup {c}
    /\ on' = [on EXCEPT ![c] = i]
    /\ up' = [up EXCEPT ![c] = "auth"]
    /\ UNCHANGED <<closing, down, scope, joining, leaving, found, mapped, keyVars,
                   purging, rowVars, sweep, tokenVars, history>>

\* validateForConnect: the cached record, or (a GET that fails too) the rows.
ReadCachedRecord(c) ==
    /\ up[c] = "auth"
    /\ \/ /\ cached \notin {None, {}}
          /\ scope' = [scope EXCEPT ![c] = cached]
          /\ up' = [up EXCEPT ![c] = "attach"]
          /\ unheard' = IF cached = tokenScope \/ EventToCome(on[c]) THEN unheard
                        ELSE unheard \cup ({c} \cap open)
       \/ /\ cached = None \/ "command" \in Faults
          /\ up' = [up EXCEPT ![c] = "load"]
          /\ UNCHANGED <<scope, unheard>>
    /\ UNCHANGED <<open, closing, on, down, joining, leaving, found, mapped, keyVars,
                   purging, rowVars, sweep, tokenVars, overtaken, unowned,
                   leftBehind>>

\* findByToken, up to its second query, which reads the projects.
LoadRecord(c) ==
    /\ up[c] = "load"
    /\ scope' = [scope EXCEPT ![c] = tokenScope]
    /\ up' = [up EXCEPT ![c] = "store"]
    /\ UNCHANGED <<open, closing, on, down, joining, leaving, found, mapped, keyVars,
                   purging, rowVars, sweep, tokenVars, history>>

\* SET with a TTL, an error is only logged; a usable token goes on.
StoreRecord(c) ==
    /\ up[c] = "store"
    /\ cached' = scope[c] \/ ("command" \in Faults /\ UNCHANGED cached)
    /\ IF scope[c] = {}
       THEN /\ up' = [up EXCEPT ![c] = "rejected"]
            /\ closing' = closing \cup ({c} \cap open)
       ELSE /\ up' = [up EXCEPT ![c] = "attach"]
            /\ UNCHANGED closing
    /\ UNCHANGED <<open, on, down, scope, joining, leaving, found, mapped, keyVars,
                   purging, rowVars, sweep, writerVars, history>>

\* authenticate returned: attachConnectionContext, and register up to the SET.
\* The commands of one instance reach Redis in the order they were issued.
Attach(c) ==
    /\ up[c] = "attach"
    /\ \A n \in Connections : on[n] = on[c] => up[n] # "session"
    /\ mapped' = [mapped EXCEPT ![on[c]] = c]
    /\ up' = [up EXCEPT ![c] = "session"]
    /\ unheard' = unheard \cup {n \in open \ {c} : on[n] = on[c] /\ Attached(n)}
    /\ UNCHANGED <<open, closing, on, down, scope, joining, leaving, found, keyVars,
                   purging, rowVars, sweep, tokenVars, overtaken, unowned,
                   leftBehind>>

SetSession(c) ==
    /\ up[c] = "session"
    /\ session' = c
    /\ up' = [up EXCEPT ![c] = "find"]
    /\ UNCHANGED <<open, closing, on, down, scope, joining, leaving, found, mapped,
                   presence, listed, purging, rowVars, sweep, tokenVars,
                   history>>

\* registerOnline: the live row first, otherwise the soft-deleted one.
FindRow(c) ==
    /\ up[c] = "find"
    /\ found' = [found EXCEPT ![c] =
           IF row = "absent" THEN "absent"
           ELSE IF deleted THEN "deleted" ELSE "alive"]
    /\ up' = [up EXCEPT ![c] = "write"]
    /\ UNCHANGED <<open, closing, on, down, scope, joining, leaving, mapped, keyVars,
                   purging, rowVars, sweep, tokenVars, history>>

\* An INSERT that finds a live row by then violates devices_client_id_uq.
Clash(c) == found[c] = "absent" /\ row # "absent" /\ ~deleted

\* Slip: a soft-deleted row is updated without being revived.
RowKeptDeleted(c) == row' = "online" /\ UNCHANGED deleted

\* INSERT, or an UPDATE that clears deletedAt only if the SELECT saw it set.
RowWritten(c) == row' = "online" /\ deleted' = (deleted /\ found[c] = "alive")

WriteRow(c) ==
    /\ up[c] = "write"
    /\ ~Clash(c)
    /\ RowWritten(c)
    /\ found' = [found EXCEPT ![c] = "none"]
    /\ up' = [up EXCEPT ![c] = "presence"]
    /\ UNCHANGED <<open, closing, on, down, scope, joining, leaving, mapped,
                   keyVars, purging, sweep, tokenVars, history>>

SetPresence(c) ==
    /\ up[c] = "presence"
    /\ presence' = TRUE
    /\ joining' = [joining EXCEPT ![c] = scope[c]]
    /\ up' = [up EXCEPT ![c] = "join"]
    /\ UNCHANGED <<open, closing, on, down, scope, leaving, found, mapped, session,
                   listed, purging, rowVars, sweep, tokenVars, history>>

Join(c) ==
    /\ up[c] = "join"
    /\ \E p \in joining[c] :
        /\ listed' = listed \cup {p}
        /\ joining' = [joining EXCEPT ![c] = @ \ {p}]
        /\ up' = [up EXCEPT ![c] = IF joining[c] = {p} THEN "finish" ELSE "join"]
        /\ leftBehind' = leftBehind \cup ({p} \ Leaves(c))
    /\ UNCHANGED <<open, closing, on, down, scope, leaving, found, mapped, session,
                   presence, purging, rowVars, sweep, tokenVars, overtaken, unowned,
                   unheard>>

\* setMaxInFlight and resetInFlight (InFlightSlots), then the message handler,
\* the welcome frame and the heartbeat, even on a socket closed meanwhile.
FinishRegistration(c) ==
    /\ up[c] = "finish"
    /\ up' = [up EXCEPT ![c] = "ready"]
    /\ UNCHANGED <<open, closing, on, down, scope, joining, leaving, found, mapped,
                   keyVars, purging, rowVars, sweep, tokenVars, history>>

\* The record does not validate, or a query rejects: close 4001.
RejectConnection(c) ==
    /\ up[c] \in {"auth", "load"}
    /\ up' = [up EXCEPT ![c] = "rejected"]
    /\ closing' = closing \cup ({c} \cap open)
    /\ UNCHANGED <<open, on, down, scope, joining, leaving, found, mapped,
                   keyVars, purging, rowVars, sweep, tokenVars, history>>

\* A command of registerConnection rejects, applied or not: close 4503.
RegistrationFails(c) ==
    /\ "command" \in Faults \/ (up[c] = "write" /\ Clash(c))
    /\ up' = [up EXCEPT ![c] = "failed"]
    /\ found' = [found EXCEPT ![c] = "none"]
    /\ joining' = [joining EXCEPT ![c] = {}]
    /\ closing' = closing \cup ({c} \cap open)
    /\ \/ /\ up[c] = "session"
          /\ session' \in {session, c}
          /\ UNCHANGED <<presence, listed, rowVars, leftBehind>>
       \/ /\ up[c] = "write"
          /\ UNCHANGED rowVars \/ (~Clash(c) /\ RowWritten(c))
          /\ UNCHANGED <<keyVars, leftBehind>>
       \/ /\ up[c] = "presence"
          /\ presence' \in {presence, TRUE}
          /\ UNCHANGED <<session, listed, rowVars, leftBehind>>
       \/ /\ up[c] = "join"
          /\ \E P \in SUBSET joining[c] :
                 /\ Cardinality(P) <= 1
                 /\ listed' = listed \cup P
                 /\ leftBehind' = leftBehind \cup (P \ Leaves(c))
          /\ UNCHANGED <<session, presence, rowVars>>
       \/ /\ up[c] \in {"find", "finish"}
          /\ UNCHANGED <<keyVars, rowVars, leftBehind>>
    /\ UNCHANGED <<open, on, down, scope, leaving, mapped,
                   purging, sweep, tokenVars, overtaken, unowned, unheard>>

-----------------------------------------------------------------------------
(* handleDisconnect.                                                        *)

\* Slip: the map entry is deleted whoever it names.
MapWithoutDevice(c) == [mapped EXCEPT ![on[c]] = None]

\* The socket is taken out of the map, unless the entry is a newer one.
MapWithout(c) == [mapped EXCEPT ![on[c]] = IF @ = c THEN None ELSE @]

\* The socket's close event: unregister up to the compare-and-delete.
SocketCloses(c) ==
    /\ c \in open
    /\ open' = open \ {c}
    /\ closing' = closing \ {c}
    /\ overtaken' = overtaken \ {c}
    /\ unheard' = unheard \ {c}
    /\ IF Attached(c)
       THEN /\ mapped' = MapWithout(c)
            /\ down' = [down EXCEPT ![c] = "claim"]
       ELSE /\ down' = [down EXCEPT ![c] = "done"]
            /\ UNCHANGED mapped
    /\ UNCHANGED <<on, up, scope, joining, leaving, found, keyVars, purging,
                   rowVars, sweep, tokenVars, unowned, leftBehind>>

\* Slip: the session key is deleted whoever owns it.
ClaimsAnySession(c) == TRUE

\* COMPARE_AND_DELETE_SCRIPT: c's own token, or no session at all.
OwnsSession(c) == session \in {c, None}

\* Issued after c's own SET on the same Redis connection.
Claim(c) ==
    /\ down[c] = "claim"
    /\ up[c] # "session"
    /\ \/ /\ OwnsSession(c)
          /\ session' = None
          /\ down' = [down EXCEPT ![c] = "presence"]
          /\ Overtakes(c)
          /\ unowned' = IF session = None THEN unowned \cup {c} ELSE unowned
          /\ UNCHANGED leftBehind
       \/ /\ ~OwnsSession(c)
          /\ down' = [down EXCEPT ![c] = "done"]
          /\ leftBehind' = leftBehind \cup (scope[c] \cap listed)
          /\ UNCHANGED <<session, overtaken, unowned>>
    /\ UNCHANGED <<open, closing, on, up, scope, joining, leaving, found, mapped,
                   presence, listed, purging, rowVars, sweep, tokenVars, unheard>>

\* Slip: the device leaves the projects of its token, not those it had joined.
LeavesCurrentScope(c) == tokenScope

\* socket._projects, as read when the socket was accepted.
LeavesOwnScope(c) == scope[c]

\* offline: DEL presence and the two in-flight keys (InFlightSlots).
DeletePresence(c) ==
    /\ down[c] = "presence"
    /\ presence' = FALSE
    /\ leaving' = [leaving EXCEPT ![c] = LeavesOwnScope(c)]
    /\ down' = [down EXCEPT ![c] = "leave"]
    /\ Overtakes(c)
    /\ UNCHANGED <<open, closing, on, up, scope, joining, found, mapped, session,
                   listed, purging, rowVars, sweep, tokenVars, unowned, unheard,
                   leftBehind>>

Leave(c) ==
    /\ down[c] = "leave"
    /\ \E p \in leaving[c] :
        /\ listed' = listed \ {p}
        /\ leftBehind' = leftBehind \ {p}
        /\ leaving' = [leaving EXCEPT ![c] = @ \ {p}]
        /\ down' = [down EXCEPT ![c] = IF leaving[c] = {p} THEN "row" ELSE "leave"]
    /\ Overtakes(c)
    /\ UNCHANGED <<open, closing, on, up, scope, joining, found, mapped, session,
                   presence, purging, rowVars, sweep, tokenVars, unowned, unheard>>

\* UPDATE of the live row of the clientId.
MarkOffline(c) ==
    /\ down[c] = "row"
    /\ row' = IF row = "absent" \/ deleted THEN row ELSE "offline"
    /\ down' = [down EXCEPT ![c] = "done"]
    /\ Overtakes(c)
    /\ unowned' = unowned \ {c}
    /\ UNCHANGED <<open, closing, on, up, scope, joining, leaving, found, mapped,
                   keyVars, purging, deleted, sweep, tokenVars, unheard, leftBehind>>

\* A command of handleDisconnect rejects, applied or not: the rest is skipped.
CleanUpFails(c) ==
    /\ "command" \in Faults
    /\ \/ /\ down[c] = "claim" /\ up[c] # "session"
          /\ session' \in {session, IF OwnsSession(c) THEN None ELSE session}
          /\ UNCHANGED <<presence, listed, row>>
       \/ /\ down[c] = "presence"
          /\ presence' \in {presence, FALSE}
          /\ UNCHANGED <<session, listed, row>>
       \/ /\ down[c] = "leave"
          /\ \E P \in SUBSET leaving[c] :
                 Cardinality(P) <= 1 /\ listed' = listed \ P
          /\ UNCHANGED <<session, presence, row>>
       \/ /\ down[c] = "row"
          /\ row' \in {row, IF row = "absent" \/ deleted THEN row ELSE "offline"}
          /\ UNCHANGED keyVars
    /\ down' = [down EXCEPT ![c] = "done"]
    /\ leaving' = [leaving EXCEPT ![c] = {}]
    /\ leftBehind' = leftBehind \cup (scope[c] \cap listed')
    /\ Overtakes(c)
    /\ unowned' = unowned \ {c}
    /\ UNCHANGED <<open, closing, on, up, scope, joining, found, mapped,
                   purging, deleted, sweep, tokenVars, unheard>>

-----------------------------------------------------------------------------
(* Everybody else who changes the device's state.                           *)

OthersUnchanged == UNCHANGED <<open, closing, on, handlerVars, mapped>>
OvertakesAll ==
    /\ overtaken' = {n \in open : Attached(n)}
    /\ UNCHANGED <<unowned, unheard, leftBehind>>

\* listOnline of any caller sees the member but no presence, then SREMs it.
ListMissing(p) ==
    /\ "list" \in Cleaners
    /\ p \in listed \ purging
    /\ ~presence
    /\ purging' = purging \cup {p}
    /\ OthersUnchanged
    /\ UNCHANGED <<keyVars, rowVars, sweep, tokenVars, history>>

Purge(p) ==
    /\ p \in purging
    /\ purging' = purging \ {p}
    /\ listed' = listed \ {p}
    /\ overtaken' = {n \in open : Attached(n)}
    /\ leftBehind' = leftBehind \ {p}
    /\ OthersUnchanged
    /\ UNCHANGED <<session, presence, rowVars, sweep, tokenVars, unowned, unheard>>

\* markStaleOffline, scheduled on the worker every minute.
SweepSelect ==
    /\ "stale" \in Cleaners
    /\ sweep = "idle"
    /\ row = "online" /\ ~deleted
    /\ sweep' = "selected"
    /\ OthersUnchanged
    /\ UNCHANGED <<keyVars, purging, rowVars, tokenVars, history>>

SweepCheck ==
    /\ sweep = "selected"
    /\ sweep' = IF presence THEN "idle" ELSE "missing"
    /\ OthersUnchanged
    /\ UNCHANGED <<keyVars, purging, rowVars, tokenVars, history>>

\* Slip: the UPDATE is not guarded by online = true.
SweepMarkUnguarded ==
    /\ sweep = "missing"
    /\ sweep' = "idle"
    /\ row' = "stale"
    /\ OvertakesAll
    /\ OthersUnchanged
    /\ UNCHANGED <<keyVars, purging, deleted, tokenVars>>

SweepMark ==
    /\ sweep = "missing"
    /\ sweep' = "idle"
    /\ row' = IF row = "online" /\ ~deleted THEN "stale" ELSE row
    /\ OvertakesAll
    /\ OthersUnchanged
    /\ UNCHANGED <<keyVars, purging, deleted, tokenVars>>

\* softDeleteIdle: not online and not seen for idleDays.
IdleSweep ==
    /\ "idle" \in Cleaners
    /\ row \in {"offline", "stale"} /\ ~deleted
    /\ deleted' = TRUE
    /\ OvertakesAll
    /\ OthersUnchanged
    /\ UNCHANGED <<keyVars, purging, row, sweep, tokenVars>>

\* A ready connection's heartbeats extend both keys (EXPIRE, never SET); a
\* running registration has just written them.
KeptAlive ==
    \E c \in Connections :
        \/ c \in open /\ up[c] = "ready"
        \/ up[c] \in {"find", "write", "presence", "join", "finish"}

SessionExpires ==
    /\ session # None
    /\ "expiry" \in Faults \/ ~KeptAlive
    /\ session' = None
    /\ OvertakesAll
    /\ OthersUnchanged
    /\ UNCHANGED <<presence, listed, purging, rowVars, sweep, tokenVars>>

\* Slip: presence is written without EX and never expires.
PresenceWithoutTtl == FALSE /\ UNCHANGED vars

PresenceExpires ==
    /\ presence
    /\ "expiry" \in Faults \/ ~KeptAlive
    /\ presence' = FALSE
    /\ OvertakesAll
    /\ OthersUnchanged
    /\ UNCHANGED <<session, listed, purging, rowVars, sweep, tokenVars>>

\* updateProjects: its transaction; a revoked token may be edited too.
EditScope(w) ==
    /\ write[w] = "new"
    /\ tokenScope' \in IF tokenScope = {} THEN {{}} ELSE Scopes
    /\ write' = [write EXCEPT ![w] = "clear"]
    /\ OthersUnchanged
    /\ UNCHANGED <<keyVars, purging, rowVars, sweep, cached, notices, history>>

\* revoke and delete, which publish nothing.
RevokeToken(w) ==
    /\ write[w] = "new"
    /\ tokenScope' = {}
    /\ write' = [write EXCEPT ![w] = "revoke"]
    /\ OthersUnchanged
    /\ UNCHANGED <<keyVars, purging, rowVars, sweep, cached, notices, history>>

\* writeAndInvalidate: the DEL of the cached record; an error is only logged.
ClearRecord(w) ==
    /\ write[w] \in {"clear", "revoke"}
    /\ cached' = None \/ ("command" \in Faults /\ UNCHANGED cached)
    /\ write' = [write EXCEPT ![w] = IF @ = "clear" THEN "publish" ELSE "done"]
    /\ OthersUnchanged
    /\ UNCHANGED <<keyVars, purging, rowVars, sweep, tokenScope, notices, history>>

\* No event of this edit comes to the instances outside I.
KeepsFrom(I) ==
    unheard' = unheard \cup {n \in open : on[n] \notin I /\ (Attached(n) \/ Arriving(n))}

\* notifyScopeChanged: PUBLISH reaches the instances subscribed at that time.
PublishScope(w) ==
    /\ write[w] = "publish"
    /\ write' = [write EXCEPT ![w] = "done"]
    /\ \E I \in IF "command" \in Faults THEN SUBSET Instances ELSE {Instances} :
        /\ notices' = [i \in Instances |->
               IF i \in I THEN notices[i] \cup {w} ELSE notices[i]]
        /\ KeepsFrom(I)
    /\ OthersUnchanged
    /\ UNCHANGED <<keyVars, purging, rowVars, sweep, tokenScope, cached, overtaken,
                   unowned, leftBehind>>

\* The process that handles w dies after the commit.
WriterDies(w) ==
    /\ "crash" \in Faults
    /\ write[w] \in {"clear", "publish", "revoke"}
    /\ write' = [write EXCEPT ![w] = "done"]
    /\ IF write[w] = "revoke" THEN UNCHANGED unheard ELSE KeepsFrom({})
    /\ OthersUnchanged
    /\ UNCHANGED <<keyVars, purging, rowVars, sweep, tokenScope, cached, notices,
                   overtaken, unowned, leftBehind>>

RecordExpires ==
    /\ cached # None
    /\ cached' = None
    /\ OthersUnchanged
    /\ UNCHANGED <<keyVars, purging, rowVars, sweep, writerVars, history>>

\* disconnectLocalDeviceTokenSessions: the socket in the map, if it is open.
LocalSession(i) == {mapped[i]} \cap open

\* A socket still on its way into the map is passed over.
HandleNotice(i, w) ==
    /\ w \in notices[i]
    /\ notices' = [notices EXCEPT ![i] = @ \ {w}]
    /\ closing' = closing \cup LocalSession(i)
    /\ unheard' = unheard \cup {n \in open : on[n] = i /\ Arriving(n)}
    /\ UNCHANGED <<open, on, handlerVars, mapped, keyVars, purging, rowVars, sweep,
                   tokenScope, cached, write, overtaken, unowned, leftBehind>>

\* The process dies with its handlers and its map.
Crash(i) ==
    LET dead == {c \in Connections : on[c] = i /\ up[c] # "none"} IN
    /\ "crash" \in Faults
    /\ \E c \in dead : up[c] # "failed" \/ down[c] # "done"
    /\ open' = open \ dead
    /\ closing' = closing \ dead
    /\ up' = [c \in Connections |-> IF c \in dead THEN "failed" ELSE up[c]]
    /\ down' = [c \in Connections |-> IF c \in dead THEN "done" ELSE down[c]]
    /\ joining' = [c \in Connections |-> IF c \in dead THEN {} ELSE joining[c]]
    /\ leaving' = [c \in Connections |-> IF c \in dead THEN {} ELSE leaving[c]]
    /\ found' = [c \in Connections |-> IF c \in dead THEN "none" ELSE found[c]]
    /\ mapped' = [mapped EXCEPT ![i] = None]
    /\ overtaken' = overtaken \ dead
    /\ unowned' = unowned \ dead
    /\ unheard' = unheard \ dead
    /\ leftBehind' = leftBehind \cup {p \in listed : \E c \in dead : p \in scope[c]}
    /\ notices' = [notices EXCEPT ![i] = {}]
    /\ UNCHANGED <<on, scope, keyVars, purging,
                   rowVars, sweep, tokenScope, cached, write>>

-----------------------------------------------------------------------------
Registration(c) ==
    \/ ReadCachedRecord(c) \/ LoadRecord(c) \/ StoreRecord(c) \/ RejectConnection(c)
    \/ Attach(c) \/ SetSession(c) \/ FindRow(c) \/ WriteRow(c)
    \/ SetPresence(c) \/ Join(c) \/ FinishRegistration(c) \/ RegistrationFails(c)

CleanUp(c) ==
    Claim(c) \/ DeletePresence(c) \/ Leave(c) \/ MarkOffline(c) \/ CleanUpFails(c)

Sweep == SweepSelect \/ SweepCheck \/ SweepMark

TokenWrite(w) ==
    EditScope(w) \/ RevokeToken(w) \/ ClearRecord(w) \/ PublishScope(w) \/ WriterDies(w)

Next ==
    \/ \E c \in Connections :
        \/ \E i \in Instances : Accept(c, i)
        \/ Registration(c) \/ SocketCloses(c) \/ CleanUp(c)
    \/ \E p \in Projects : ListMissing(p) \/ Purge(p)
    \/ Sweep \/ IdleSweep
    \/ SessionExpires \/ PresenceExpires \/ RecordExpires
    \/ \E w \in Writers : TokenWrite(w) \/ \E i \in Instances : HandleNotice(i, w)
    \/ \E i \in Instances : Crash(i)

Spec == Init /\ [][Next]_vars

\* Handlers go on, the worker's schedule fires, TTLs end.
FairSpec ==
    /\ Spec
    /\ \A c \in Connections : WF_vars(Registration(c)) /\ WF_vars(CleanUp(c))
    /\ WF_vars(Sweep) /\ WF_vars(SessionExpires) /\ WF_vars(PresenceExpires)

-----------------------------------------------------------------------------
(* Correctness.                                                             *)

\* An open connection's session key is never taken from it: it is overwritten
\* by a newer registration or its TTL ends, but no other connection's delayed
\* disconnect deletes it (connection.registry.ts:103).
SessionLostOnlyByOwner ==
    [][session # None /\ session' = None => session \notin open \/ SessionExpires]_vars

\* A connection that finished its registration is routable, online and listed
\* in all its projects, and its row is live and online, unless somebody cleaned
\* up after it had started: interleaved registrations, failed commands and
\* reused rows alone never leave a connected device half registered.
OnlineUnlessOvertaken ==
    \A c \in open \ overtaken :
        up[c] = "ready" =>
            /\ session # None /\ presence
            /\ scope[c] \subseteq listed
            /\ row = "online" /\ ~deleted

\* A registered connection has the token's scope, or an event is to come, or it is
\* being closed.  A token that is revoked or deleted is not edited.
Follows(c) ==
    Attached(c) /\ tokenScope \notin {scope[c], {}} => EventToCome(on[c]) \/ c \in closing

\* backend/README.md:179-181 and docs/design-conventions.md:122-125: after a scope
\* edit every instance closes the token's connections with 4002, and a device that
\* comes back has the new scope.  TLC breaks it without any fault
\* (DeviceSessions_edit.cfg).
ScopeEditCloses == \A c \in open : Follows(c)

\* What is left of it: the closing of old connections after a scope edit
\* (updateProjects, then disconnectLocalDeviceTokenSessions) misses a registered
\* connection only if the event never reached its instance, or found the connection
\* on its way into the sockets map, or a later socket of the device has taken its
\* place there, or if the connection was then given an old cached record.
ScopeEditReaches == \A c \in open \ unheard : Follows(c)

\* The device is listed in a project, also in one its token has lost since, only
\* while a connection that joined it there, or is about to leave it, is not done,
\* unless a clean-up was skipped because the session was a newer connection's,
\* failed or died, or the connection joined after its own clean-up: a device that
\* comes back with a new scope never stays listed for the old one by itself
\* (PresenceService.offline with socket._projects).
ListedWhileHeld ==
    \A p \in listed \ leftBehind :
        \E c \in Connections :
            up[c] \in {"join", "finish", "ready", "failed"} /\ p \in Leaves(c)

\* The sweep never turns a graceful "offline" into "stale", although the device
\* may have disconnected between its SELECT and its UPDATE
\* (devices.service.ts:103).
StaleNeverHidesOffline ==
    [][row = "offline" => row' # "stale"]_vars

\* A device whose sockets are all gone is eventually gone everywhere: no
\* session to route to, no presence to be selected by, no live row online,
\* whatever half of a clean-up was skipped.
DeviceForgotten ==
    <>[](open = {}) => <>[](session = None /\ ~presence /\ (row = "online" => deleted))

\* A disconnect that finds no session may clean up, because there is no newer
\* session to harm (connection.registry.ts:28-31): it does not delete the
\* presence of a connected device that owns the session by then.
NewerSessionUnharmed ==
    [][\A c \in unowned, n \in open :
           DeletePresence(c) => ~(up[n] = "ready" /\ session = n)]_vars

(* The inductive invariant behind the theorems of DeviceSessions_proofs.    *)

\* A socket is accepted, open, closed and cleaned up after, in this order.
HandlersInOrder ==
    \A c \in Connections :
        /\ c \in open => up[c] # "none" /\ down[c] = "none"
        /\ up[c] = "none" => down[c] = "none"
        /\ up[c] # "none" => on[c] \in Instances

RowLive == row = "online" /\ ~deleted

\* What each step of a registration leaves for the next one, as long as nobody
\* has cleaned up since the connection was attached.
SoFar(c) ==
    /\ up[c] \in {"find", "write", "presence", "join", "finish", "ready"} =>
           session # None
    /\ up[c] = "write" /\ found[c] = "alive" => row # "absent" /\ ~deleted
    /\ up[c] \in {"presence", "join", "finish", "ready"} => RowLive
    /\ up[c] \in {"join", "finish", "ready"} => presence
    /\ up[c] = "join" => scope[c] \ joining[c] \subseteq listed
    /\ up[c] \in {"finish", "ready"} => scope[c] \subseteq listed

RegisteredSoFar == \A c \in open \ overtaken : SoFar(c)

ConnInv == TypeOK /\ HandlersInOrder /\ RegisteredSoFar

\* The sockets map holds the latest socket of the device, and a connection that
\* has read an old scope will meet an event there.
InTheMap(c) == Attached(c) => mapped[on[c]] = c
WillHear(c) ==
    tokenScope \notin {scope[c], {}} =>
        /\ Arriving(c) => EventToCome(on[c])
        /\ Attached(c) => EventToCome(on[c]) \/ c \in closing

ScopeSoFar == \A c \in open \ unheard : InTheMap(c) /\ WillHear(c)

ScopeInv == ConnInv /\ ScopeSoFar

\* A disconnect takes the device out of projects of its own connection only.
LeavesItsOwn ==
    \A c \in Connections :
        /\ down[c] \in {"claim", "presence", "leave", "row"} => Attached(c)
        /\ leaving[c] # {} => down[c] = "leave"
        /\ leaving[c] \subseteq scope[c]

ListedInv == ConnInv /\ LeavesItsOwn /\ ListedWhileHeld

=============================================================================
