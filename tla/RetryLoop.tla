----------------------------- MODULE RetryLoop -----------------------------
(***************************************************************************)
(* The two loops of the vendor extensions that repeat a failed operation:   *)
(* ExecuteWithRetry of the iDRAC monitor (oem/dell/idrac_monitor.go) and    *)
(* SubmitTestEvent of the ZT event service (oem/zt/eventservice.go).  The   *)
(* health check of the monitor only looks at the Manager it was given, so   *)
(* its outcome is a constant of the monitor.                                *)
(* ExecuteWithRetry takes the operation as a func() error, without the      *)
(* context of the loop: that the operation uses that context is up to the   *)
(* caller, and assumed where the two are composed.                          *)
(***************************************************************************)
EXTENDS ServiceCall, Integers

CONSTANT MaxRetries  \* bound on the retries that are configured; ZT has five

ASSUME RetriesAssumption == MaxRetries \in Nat

VARIABLES
    monitor,   \* the loop and its configuration
    rpc,       \* "head", "op", "wait" or "returned"
    attempt,   \* the attempt, from 0
    lastErr,   \* the error of the last one
    ret,       \* what the loop returned
    resets     \* how often a reset of the iDRAC was asked for

loop == <<monitor, rpc, attempt, lastErr, ret, resets>>

Monitors ==
    [loop : {"idrac"}, retries : -1..MaxRetries, manager : {"known", "no ID", "nil"}, reset : BOOLEAN]
    \cup [loop : {"zt"}, retries : {MaxRetries}, manager : {"nil"}, reset : {FALSE}]

LoopInit ==
    /\ monitor \in Monitors
    /\ rpc = "head" /\ attempt = 0 /\ lastErr = "nil" /\ ret = "none" /\ resets = 0

Return(err) == rpc' = "returned" /\ ret' = err

(* CheckHealth, which only ExecuteWithRetry calls. *)
Healthy == monitor.loop = "zt" \/ monitor.manager = "known"

(* Deviation: after the last attempt it begins again. *)
LoopEnds_Never ==
    /\ rpc = "head" /\ attempt > monitor.retries
    /\ attempt' = 0 /\ lastErr' = "nil"
    /\ UNCHANGED <<monitor, rpc, ret, resets>>

(* Past the last attempt the error of that one is returned: none, when the   *)
(* number of retries is negative and there was no attempt.                   *)
LoopEnds ==
    /\ rpc = "head" /\ attempt > monitor.retries
    /\ Return(lastErr)
    /\ UNCHANGED <<monitor, attempt, lastErr, resets>>

TryIt ==
    /\ rpc = "head" /\ attempt <= monitor.retries /\ Healthy
    /\ rpc' = "op"
    /\ UNCHANGED <<monitor, attempt, lastErr, ret, resets>>

(* The check failed: wait for the next attempt, or give up on the last one,  *)
(* with or without a reset.  The reset is a call on the same Manager.        *)
Unhealthy ==
    /\ rpc = "head" /\ attempt <= monitor.retries /\ ~Healthy
    /\ IF attempt < monitor.retries
       THEN rpc' = "wait" /\ UNCHANGED <<ret, resets>>
       ELSE IF ~monitor.reset THEN Return("final") /\ UNCHANGED resets
       ELSE IF monitor.manager = "nil" THEN Return("panic") /\ UNCHANGED resets
       ELSE Return("final") /\ resets' = resets + 1
    /\ UNCHANGED <<monitor, attempt, lastErr>>

(* The time before the next attempt is over, or the context is done. *)
WaitEnds ==
    /\ rpc = "wait"
    /\ \/ rpc' = "head" /\ attempt' = attempt + 1 /\ UNCHANGED ret
       \/ ctx # "live" /\ Return("final") /\ UNCHANGED attempt
    /\ UNCHANGED <<monitor, lastErr, resets>>

(* ExecuteWithRetry repeats an operation at once, and only after an error    *)
(* worth a retry; ZT waits after any error of the client, unless the context *)
(* is done.                                                                  *)
OperationReturns ==
    /\ rpc = "op"
    /\ CASE res = "nil" -> Return("nil") /\ UNCHANGED <<attempt, lastErr>>
         [] monitor.loop = "idrac" /\ res = "retryable" ->
              rpc' = "head" /\ attempt' = attempt + 1 /\ lastErr' = res /\ UNCHANGED ret
         [] monitor.loop = "zt" /\ res \in Failures /\ ctx = "live" ->
              rpc' = "wait" /\ lastErr' = res /\ UNCHANGED <<attempt, ret>>
         [] OTHER -> Return(res) /\ UNCHANGED <<attempt, lastErr>>
    /\ UNCHANGED <<monitor, resets>>

Looping == LoopEnds \/ TryIt \/ Unhealthy \/ WaitEnds
=============================================================================
