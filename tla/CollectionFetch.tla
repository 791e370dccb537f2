-------------------------- MODULE CollectionFetch ---------------------------
(***************************************************************************)
(* The members of a collection fetched through one client: CollectPool     *)
(* with APIClient in the place of its abstract fetches.  A goroutine holds *)
(* a slot of the limiter while its request waits for one of the client's   *)
(* permits, for which requests made elsewhere with the same client (Others, *)
(* under contexts of their own) compete.                                   *)
(*                                                                         *)
(* The client is used without a dump writer and over plain HTTP here; what *)
(* these add is in APIClient.                                              *)
(***************************************************************************)
EXTENDS CollectPool, Integers

CONSTANTS
    Others,                 \* the requests made elsewhere
    MaxConcurrentRequests,  \* as in APIClient
    NoCert

ASSUME FetchAssumption ==
    Others \cap Members = {} /\ MaxConcurrentRequests \in Int

VARIABLES   \* those of APIClient; dead is its ctxDone
    sem, pc, method, dead, dumping, certHash, monitoring, peer, body

clientVars == <<sem, pc, method, dead, dumping, certHash, monitoring, peer, body>>
fetchVars == <<vars, clientVars>>

Client == INSTANCE APIClient WITH
              Requests <- Members \cup Others, Certs <- {}, ctxDone <- dead

FetchInit ==
    /\ Init
    /\ Client!Init
    /\ dumping = FALSE /\ monitoring = FALSE
    /\ method = [r \in Members \cup Others |-> "OTHER"]
    /\ ~ctxDone

(* The steps that only one of the two takes. *)
LocalStep ==
    /\ \/ Dispatch
       \/ \E i \in Members : \/ kind[i] # "link" /\ GetBegin(i)
                             \/ FreeSlot(i) \/ Done(i)
    /\ UNCHANGED clientVars

Pipeline(r) ==
    /\ \/ Client!Acquire(r) \/ Client!GiveUp(r) \/ Client!Answer(r) \/ Client!DoError(r)
       \/ Client!Release(r) \/ Client!Inspect(r) \/ Client!Drain(r)
    /\ UNCHANGED vars

(* Elsewhere a request is made, its response read, its context ended. *)
OtherStep(r) ==
    /\ Client!Build(r) \/ Client!Cleanup(r) \/ (r \notin dead /\ Client!Cancel({r}))
    /\ UNCHANGED vars

(* GetObjectWithContext: the call enters the pipeline ... *)
FetchBegin(i) == kind[i] = "link" /\ GetBegin(i) /\ Client!Build(i)

(* ... and ends with the object, whose body is closed once decoded, ...     *)
FetchOk(i) == GetObject(i) /\ Client!Cleanup(i)

(* Deviation: a body that does not decode is not closed. *)
FetchBad_LeavesBody(i) ==
    /\ GetFails(i)
    /\ pc[i] \in {"returned", "failed"} /\ UNCHANGED clientVars

(* ... with a body that does not decode, or without a response.            *)
FetchBad(i) ==
    /\ GetFails(i)
    /\ \/ Client!Cleanup(i)
       \/ pc[i] = "failed" /\ UNCHANGED clientVars

(* Deviation: the requests are made under another context. *)
CancelFetches_NotPassedOn == Cancel /\ UNCHANGED clientVars

(* The context of the collection is that of every member's request. *)
CancelFetches == Cancel /\ Client!Cancel(Members)

MemberStep(i) == FetchBegin(i) \/ FetchOk(i) \/ FetchBad(i)

FetchNext ==
    \/ LocalStep \/ CancelFetches
    \/ \E r \in Members \cup Others : Pipeline(r)
    \/ \E r \in Others : OtherStep(r)
    \/ \E i \in Members : MemberStep(i)

(* The goroutines of the collection keep running.  An exchange, or the read *)
(* of a body, need not end before its context is done; of the requests made *)
(* elsewhere nothing is assumed, so they may hold their permits for ever.   *)
FetchFairness ==
    /\ WF_fetchVars(Dispatch /\ UNCHANGED clientVars)
    /\ \A i \in Members :
        /\ WF_fetchVars(LocalStep /\ thread'[i] # thread[i])
        /\ WF_fetchVars(FetchBegin(i))
        /\ WF_fetchVars(ctxDone /\ (Pipeline(i) \/ FetchOk(i) \/ FetchBad(i)))

FetchSpec == FetchInit /\ [][FetchNext]_fetchVars /\ FetchFairness

-----------------------------------------------------------------------------
(* Properties. *)

InPipeline == {"queued", "doing", "answered", "inspecting", "draining"}

(* The two bounds hold together: the collection keeps at most LimiterCap    *)
(* requests in the pipeline, one more once its context is dead, and of all  *)
(* requests at most as many as the client has permits are in an exchange.   *)
BothBounds ==
    /\ Cardinality({i \in Members : pc[i] \in InPipeline}) <=
           LimiterCap + (IF ctxDone THEN 1 ELSE 0)
    /\ Client!PermitsConserved

(* Nothing of a collection outlives its call: when it has returned, no      *)
(* request of a member is in the pipeline or holds a permit, and no body of *)
(* a member is open.                                                        *)
NothingLeftBehind == dpc = "returned" =>
    \A i \in Members : pc[i] \notin InPipeline /\ body[i] # "open"

(* What nobody but the service keeps from the next step of a request: one   *)
(* in the queue waits for a permit or the end of its context, and the get   *)
(* of a member for its response.                                            *)
RequestMoves(r) ==
    \/ pc[r] = "queued" /\ (r \in dead \/ sem < Client!Permits)
    \/ pc[r] = "inspecting" /\ body[r] # "closed"
    \/ pc[r] \in {"doing", "answered", "draining"}

FetchMoves(i) ==
    \/ thread[i] = "called" /\ kind[i] = "link" /\ pc[i] = "idle"
    \/ thread[i] = "fetching" /\ pc[i] = "returned" /\ body[i] = "open"
    \/ thread[i] = "fetching" /\ pc[i] = "failed"

(* Slots of the limiter and permits of the client are never waited for in a *)
(* circle: until the call returns its dispatcher, a goroutine or a request  *)
(* of it, or a request that holds a permit it waits for has a step to take. *)
NoCircle == dpc # "returned" =>
    \/ DispatcherMoves
    \/ \E i \in Members :
           \/ MemberMoves(i) /\ ~(thread[i] = "called" /\ kind[i] = "link")
           \/ FetchMoves(i)
    \/ \E r \in Members \cup Client!Holders : RequestMoves(r)

(* When every exchange ends, those of the requests made elsewhere included, *)
(* the call does return.                                                    *)
ServiceAnswers ==
    /\ \A r \in Members \cup Others : WF_fetchVars(Pipeline(r))
    /\ \A i \in Members : WF_fetchVars(FetchOk(i) \/ FetchBad(i))
AnsweredCallReturns == ServiceAnswers => <>(dpc = "returned")

(* What CollectPool assumes of a fetch, that it ends once the context is    *)
(* done, the pipeline keeps: the composition implements CollectPool with    *)
(* its fairness.                                                            *)
ImplementsPool == Spec
=============================================================================
