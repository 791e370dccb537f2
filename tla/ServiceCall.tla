----------------------------- MODULE ServiceCall -----------------------------
(***************************************************************************)
(* One operation of an application at a Redfish service, as the modules     *)
(* that EXTEND this one have them: what its requests return to it under a   *)
(* context that may end, and what they did at the service, which is not the *)
(* same when an answer is lost or cannot be used.                           *)
(***************************************************************************)
EXTENDS Naturals

VARIABLES
    op,        \* the operation
    opc,       \* its next step: "idle", "get", "send" or "done"
    res,       \* what it returned: "nil", an error worth a retry, or another one
    ctx,       \* its context is live, canceled or past its deadline
    took,      \* how often it took effect at the service
    lost,      \* of these, how often the answer never arrived
    unusable   \* and how often the answer was no use

call == <<op, opc, res, ctx, took, lost, unusable>>

CallInit ==
    /\ opc = "idle" /\ res = "nil"
    /\ ctx \in {"live", "canceled", "expired"}
    /\ took = 0 /\ lost = 0 /\ unusable = 0

(* The errors of a request that nobody answered.  isRetryableError takes    *)
(* context.DeadlineExceeded and timeouts for worth a retry, a canceled      *)
(* context and most others not.                                             *)
Failures ==
    IF ctx = "live" THEN {"retryable", "final"}
    ELSE IF ctx = "expired" THEN {"retryable"} ELSE {"final"}

Finish(result) == opc' = "done" /\ res' = result

NoEffect == UNCHANGED <<op, ctx, took, lost, unusable>>

(* The service did what the request asked for; an answer that is no use     *)
(* ends the operation with an error of the caller's own.                    *)
Effect(reply, own) ==
    /\ ctx = "live"
    /\ took' = took + 1
    /\ lost' = IF reply = "lost" THEN lost + 1 ELSE lost
    /\ unusable' = IF reply = "unusable" THEN unusable + 1 ELSE unusable
    /\ \/ reply = "ok" /\ Finish("nil")
       \/ reply = "lost" /\ \E e \in Failures : Finish(e)
       \/ reply = "unusable" /\ Finish(own)
    /\ UNCHANGED <<op, ctx>>

(* The request did not reach the service, or was refused by it. *)
NotTaken ==
    /\ \E e \in Failures : Finish(e)
    /\ NoEffect

ContextDies ==
    /\ ctx = "live"
    /\ ctx' \in {"canceled", "expired"}
    /\ UNCHANGED <<op, opc, res, took, lost, unusable>>
=============================================================================
