----------------------------- MODULE RpcPromise -----------------------------
(***************************************************************************)
(* What ZNL promises of one RPC call (slave.DEALER(payload), or            *)
(* master.ROUTER(id, payload)), whatever happens to sockets, queues and    *)
(* timers: the promise given to the caller settles at most once, the peer  *)
(* handles only calls that were made, and a call is resolved only once the *)
(* peer has handled that very call.  RpcChannel and Dispatch implement     *)
(* this specification.                                                     *)
(***************************************************************************)
CONSTANT Calls      \* the calls an application makes; each has its own requestId

VARIABLES
    call,           \* call[r]: "idle", "waiting", "ok" or "failed"
    served          \* the calls whose handler has run on the peer

vars == <<call, served>>

Init ==
    /\ call = [r \in Calls |-> "idle"]
    /\ served = {}

Issue(r) ==
    /\ call[r] = "idle"
    /\ call' = [call EXCEPT ![r] = "waiting"]
    /\ UNCHANGED served

Refuse(r) ==
    /\ call[r] = "idle"
    /\ call' = [call EXCEPT ![r] = "failed"]
    /\ UNCHANGED served

Serve(r) ==
    /\ call[r] # "idle"
    /\ r \notin served
    /\ served' = served \cup {r}
    /\ UNCHANGED call

Resolve(r) ==
    /\ call[r] = "waiting"
    /\ r \in served
    /\ call' = [call EXCEPT ![r] = "ok"]
    /\ UNCHANGED served

\* Calls fail one by one (a timeout, a failed send) or together (rejectAll).
Fail(S) ==
    /\ \A r \in S : call[r] = "waiting"
    /\ call' = [r \in Calls |-> IF r \in S THEN "failed" ELSE call[r]]
    /\ UNCHANGED served

Next ==
    \/ \E r \in Calls : Issue(r) \/ Refuse(r) \/ Serve(r) \/ Resolve(r)
    \/ \E S \in SUBSET Calls : Fail(S)

Spec == Init /\ [][Next]_vars
=============================================================================
