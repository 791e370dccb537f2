---------------------------- MODULE ObjectsFetch ----------------------------
(***************************************************************************)
(* The two users of the pool in CollectPool.  GetCollectionObjects hands    *)
(* the results slice of the pool to its caller.  GetObjectsWithContext      *)
(* (common/entity.go) fetches the objects behind a list of links: a         *)
(* goroutine runs the pool and closes an unbuffered channel at its end; get *)
(* fetches the object and sends what it got on that channel; the caller     *)
(* ranges over the channel until it is closed, and has the results in the   *)
(* order in which it received them.  Every member of the pool is a link     *)
(* then, and the entries of the slice stand for what has been received.     *)
(***************************************************************************)
EXTENDS CollectPool

VARIABLES
    pending,    \* what a call of get is about to send, Zero before the fetch ends
    received,   \* what the caller received, in order
    chan,       \* the channel is open or closed; "none" in GetCollectionObjects
    caller      \* the caller ranges over the channel or has returned; "pool" runs the pool itself

rendezvous == <<pending, received, chan, caller>>
objectsVars == <<vars, rendezvous>>

ObjectsInit ==
    /\ Init
    /\ \/ chan = "none" /\ caller = "pool"
       \/ chan = "open" /\ caller = "range" /\ kind = [i \in Members |-> "link"]
    /\ pending = [i \in Members |-> Zero]
    /\ received = <<>>

(* GetObjectWithContext returns; with an error when the context is done. *)
FetchEnds(i) ==
    /\ chan # "none"
    /\ thread[i] = "fetching" /\ pending[i] = Zero
    /\ \E ok \in BOOLEAN :
        /\ ok => ~ctxDone
        /\ pending' = [pending EXCEPT ![i] = IF ok THEN Item(i) ELSE Failed(i)]
    /\ UNCHANGED <<vars, received, chan, caller>>

(* The send of a get and the receive of the caller, in one step since the   *)
(* channel has no buffer; get is back.                                      *)
Receive(i) ==
    /\ thread[i] = "fetching" /\ pending[i] # Zero
    /\ caller = "range"
    /\ received' = Append(received, pending[i])
    /\ Goto(i, "got")
    /\ Store(i, pending[i])
    /\ UNCHANGED <<kind, ctxDone, dispatch, limiter, wg, calls, out, pending, chan, caller>>

(* Deviation: the channel is closed when the last get has been started. *)
CloseChannel_AtDispatchEnd ==
    /\ dpc = "wait" /\ chan = "open"
    /\ chan' = "closed"
    /\ UNCHANGED <<vars, pending, received, caller>>

(* close(ch), once CollectCollectionWithContext has returned. *)
CloseChannel ==
    /\ dpc = "returned" /\ chan = "open"
    /\ chan' = "closed"
    /\ UNCHANGED <<vars, pending, received, caller>>

(* Deviation: the caller returns at the first error it receives. *)
RangeEnds_AtFirstError ==
    /\ caller = "range"
    /\ \/ chan = "closed"
       \/ received # <<>> /\ ~received[Len(received)].ok
    /\ caller' = "returned"
    /\ UNCHANGED <<vars, pending, received, chan>>

(* The range ends when the channel is closed. *)
RangeEnds ==
    /\ caller = "range" /\ chan = "closed"
    /\ caller' = "returned"
    /\ UNCHANGED <<vars, pending, received, chan>>

PoolStep ==
    /\ \/ Dispatch \/ Cancel
       \/ \E i \in Members : GetBegin(i) \/ FreeSlot(i) \/ Done(i)
       \/ chan = "none" /\ \E i \in Members : Fetched(i)
    /\ UNCHANGED rendezvous

ObjectsNext ==
    \/ PoolStep \/ CloseChannel \/ RangeEnds
    \/ \E i \in Members : FetchEnds(i) \/ Receive(i)

(* Goroutines and caller keep running; a fetch ends when its context does. *)
ObjectsFairness ==
    /\ WF_objectsVars(Dispatch /\ UNCHANGED rendezvous)
    /\ WF_objectsVars(CloseChannel)
    /\ WF_objectsVars(RangeEnds)
    /\ \A i \in Members :
        /\ WF_objectsVars((GetBegin(i) \/ FreeSlot(i) \/ Done(i)) /\ UNCHANGED rendezvous)
        /\ WF_objectsVars(Receive(i))
        /\ WF_objectsVars(ctxDone /\ FetchEnds(i))
        /\ WF_objectsVars(chan = "none" /\ ctxDone /\ GetFails(i) /\ UNCHANGED rendezvous)

ObjectsSpec == ObjectsInit /\ [][ObjectsNext]_objectsVars /\ ObjectsFairness

-----------------------------------------------------------------------------
(* Properties. *)

(* The caller has received exactly one outcome per link when it returns,    *)
(* and no goroutine is left that would send on the channel.                 *)
EveryLinkReceived == caller = "returned" =>
    /\ Len(received) = N
    /\ \A i \in Members : \E k \in 1..N : received[k] \in {Item(i), Failed(i)}
    /\ \A i \in Members : thread[i] = "exited"

(* Slots, wait group and channel are never waited for in a circle: until    *)
(* the call is over somebody has a step to take, if only to wait for the    *)
(* service to answer a fetch.  A get that has its object cannot go on       *)
(* without a reader.                                                        *)
NeverStuck ==
    \/ dpc = "returned" /\ (chan = "none" \/ caller = "returned")
    \/ dpc = "returned" /\ chan = "open"
    \/ caller = "range" /\ chan = "closed"
    \/ DispatcherMoves
    \/ \E i \in Members : \/ MemberMoves(i)
                          \/ thread[i] = "fetching" /\ (pending[i] = Zero \/ caller = "range")

(* A dead context ends the call and its goroutines, even when the service   *)
(* never answers another fetch: no sender stays blocked because nobody      *)
(* receives any more, and no member waits for a slot that nobody gives back. *)
CancelEndsAll == ctxDone ~> (caller \in {"returned", "pool"} /\ dpc = "returned")
=============================================================================
