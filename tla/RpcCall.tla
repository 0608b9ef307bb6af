------------------------------ MODULE RpcCall ------------------------------
(***************************************************************************)
(* What RpcService.invoke promises its caller, with no Redis, no instance  *)
(* and no socket in sight: a call addresses one device, it is answered at  *)
(* most once and for good, and an answer that carries a device's result    *)
(* carries a result of the addressed device.  A call whose API process     *)
(* dies is lost; nobody answers it afterwards.  RpcRelay implements this.  *)
(***************************************************************************)
CONSTANTS Requests,   \* the calls, one generated requestId each
          Devices,    \* the clientIds a call may address
          None        \* "no device"

VARIABLES call,       \* call[r]: idle, open, answered or lost
          addressee,  \* addressee[r]: the device the call addresses
          answerer    \* answerer[r]: whose result the answer carries, if any

callVars == <<call, addressee, answerer>>

Init ==
    /\ call = [r \in Requests |-> "idle"]
    /\ addressee = [r \in Requests |-> None]
    /\ answerer = [r \in Requests |-> None]

\* The device is chosen once, when the call is made.
Open(r, d) ==
    /\ call[r] = "idle"
    /\ call' = [call EXCEPT ![r] = "open"]
    /\ addressee' = [addressee EXCEPT ![r] = d]
    /\ UNCHANGED answerer

\* The answer carries a result of the addressed device, or a failure.
Answer(r) ==
    /\ call[r] = "open"
    /\ call' = [call EXCEPT ![r] = "answered"]
    /\ answerer' \in {answerer, [answerer EXCEPT ![r] = addressee[r]]}
    /\ UNCHANGED addressee

\* The process serving these calls dies: they end together, unanswered.
Lose(R) ==
    /\ R # {}
    /\ \A r \in R : call[r] = "open"
    /\ call' = [r \in Requests |-> IF r \in R THEN "lost" ELSE call[r]]
    /\ UNCHANGED <<addressee, answerer>>

Next ==
    \/ \E r \in Requests :
        \/ \E d \in Devices : Open(r, d)
        \/ Answer(r)
    \/ \E R \in SUBSET Requests : Lose(R)

Spec == Init /\ [][Next]_callVars
=============================================================================
