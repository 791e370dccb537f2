-------------------------- MODULE RetriedOperations --------------------------
(***************************************************************************)
(* Operations that write at the service, repeated by the loops of RetryLoop *)
(* when they fail: an application that subscribes, or updates settings,     *)
(* through the iDRAC monitor, and the test events of ZT.  An operation that *)
(* failed may have taken effect, and the loop does not know.                *)
(***************************************************************************)
EXTENDS RetryLoop, Subscriptions, FreshTagWrites, FiniteSets

allVars == <<call, loop, subscriptions, writes>>

Operations == {"subscribe", "ztSubscribe", "unsubscribe", "testEvent", "account"} \cup Settings

Init ==
    /\ CallInit /\ LoopInit /\ SubscriptionsInit /\ WritesInit
    /\ op \in Operations
    /\ monitor.loop = "zt" <=> op = "testEvent"

Loop == Looping /\ UNCHANGED <<call, subscriptions, writes>>

(* The loop calls the operation. *)
Call ==
    /\ rpc = "op" /\ opc = "idle"
    /\ opc' = FirstStep
    /\ UNCHANGED <<op, res, ctx, took, lost, unusable, loop, subscriptions, writes>>

Step ==
    \/ Subscribing /\ UNCHANGED <<loop, writes>>
    \/ Writing /\ UNCHANGED <<loop, subscriptions>>

Returns ==
    /\ opc = "done"
    /\ OperationReturns
    /\ opc' = "idle"
    /\ UNCHANGED <<op, res, ctx, took, lost, unusable, subscriptions, writes>>

Next ==
    \/ Loop \/ Call \/ Step \/ Returns
    \/ ContextDies /\ UNCHANGED <<loop, subscriptions, writes>>
    \/ OtherWriter /\ UNCHANGED <<call, loop, subscriptions>>

(* The loop runs on, and an operation whose context is done returns.  That  *)
(* this context is the loop's is an assumption about the application: the   *)
(* monitor's loop takes an operation without a context.                     *)
Fairness ==
    /\ WF_allVars(Loop) /\ WF_allVars(Call) /\ WF_allVars(Returns)
    /\ WF_allVars(ctx # "live" /\ Step)

Spec == Init /\ [][Next]_allVars /\ Fairness

-----------------------------------------------------------------------------
(* Nothing was asked for: there were no attempts, or nothing differed. *)
NothingToDo == monitor.retries < 0 \/ (op \in Settings /\ Payload = {})

(* What the application is told is what happened: when the loop has         *)
(* returned, the operation took effect once if the result is nil, and       *)
(* besides only where an answer was lost or of no use.                      *)
OutcomeIsAccounted ==
    rpc = "returned" =>
        took = lost + unusable + (IF ret = "nil" /\ ~NothingToDo THEN 1 ELSE 0)

(* An update of settings that reports success leaves every attribute it was *)
(* asked for at its value in the settings object, unless another client has *)
(* written since.  An attribute that was not different when the application *)
(* read it is the exception: a change of it that is pending stays pending.  *)
SettingsTaken ==
    rpc = "returned" /\ ret = "nil" /\ monitor.retries >= 0 /\ op \in Settings =>
        \A a \in DOMAIN want :
            \/ pending[a] = want[a]
            \/ a \in unseen
            \/ op = "bios" /\ a \notin Ordered /\ raw[a] = want[a]

(* Where the service has ETags, no attempt writes over what another client  *)
(* wrote after that attempt's GET.                                          *)
OthersKept ==
    [][took' > took /\ tags /\ (op \in Settings \/ (op = "account" /\ matching)) => unseen = {}]_allVars

(* A subscription at the service that the application has no link to is one *)
(* whose answer was lost or of no use.                                      *)
SubscriptionHasOwner == Cardinality(subs \ links) <= lost + unusable

(* A loop tries no oftener than it was told to, so that an operation that   *)
(* fails after it took effect does not take effect again without end.       *)
Attempts == IF monitor.retries < 0 THEN 0 ELSE monitor.retries + 1

EffectsBounded == took <= Attempts

(* A context that is done ends the loop, whatever the service does, when    *)
(* the operation uses it too: at the next wait, or after the attempts left. *)
DeadContextEnds == ctx # "live" ~> rpc = "returned"
=============================================================================
