---------------------------- MODULE CollectPool -----------------------------
(***************************************************************************)
(* CollectResourceCollectionWithContext and the assembly that              *)
(* GetCollectionObjectsWithContext puts around it (common/collection.go):  *)
(* resolve the members of a collection concurrently, a bounded number at a *)
(* time, and return them in the order the service listed them.             *)
(*                                                                         *)
(* A dispatcher walks over the members, takes a slot of the limiter for    *)
(* each and starts a goroutine that calls get, frees the slot and reports  *)
(* to a wait group.  When the context dies the dispatcher stops starting   *)
(* goroutines and calls get for the remaining members itself.              *)
(*                                                                         *)
(* Fetching a member (GetObjectWithContext) is abstract here: it ends with *)
(* the object or an error, and with an error once the context is done.     *)
(* CollectionFetch puts the request pipeline in its place.                 *)
(***************************************************************************)
EXTENDS Naturals, FiniteSets, Sequences

CONSTANTS
    N,          \* the number of members the collection lists
    LimiterCap, \* the capacity of the limiter, 3 in the code
    Kinds       \* the kinds of members to consider, a subset of AllKinds

(* What the service put at a position: null, an expanded object, one that   *)
(* carries extended info and so reports an error, a link, or neither an Id *)
(* nor an @odata.id.                                                       *)
AllKinds == {"null", "expanded", "expandedError", "link", "blank"}

ASSUME PoolAssumption ==
    N \in Nat /\ LimiterCap \in Nat \ {0} /\ Kinds \subseteq AllKinds

Members == 1..N

VARIABLES
    kind,       \* what each member is
    ctxDone,    \* whether the context of the call is done
    dpc,        \* where the dispatcher is
    next,       \* the member it is at
    canceled,   \* the member at which it saw the context done, 0 when it did not
    limiter,    \* how many tokens are in the limiter channel
    wg,         \* the counter of the wait group
    thread,     \* how far the call of get for each member is
    results,    \* the results slice
    calls,      \* history: how often get was called for each member
    out         \* what the caller gets

dispatch == <<dpc, next, canceled>>
vars == <<kind, ctxDone, dispatch, limiter, wg, thread, results, calls, out>>

(* An entry of results: the zero value, the object of a member, or the     *)
(* error its fetch ended with.                                             *)
Zero == [of |-> 0, ok |-> FALSE]
Item(i) == [of |-> i, ok |-> TRUE]
Failed(i) == [of |-> i, ok |-> FALSE]
Entries == [of : Members \cup {0}, ok : BOOLEAN]

NoOutput == [items |-> <<>>, failures |-> {}]

TypeOK ==
    /\ kind \in [Members -> Kinds]
    /\ ctxDone \in BOOLEAN
    /\ dpc \in {"loop", "select", "sync", "wait", "returned"}
    /\ next \in 1..(N + 1)
    /\ canceled \in 0..N
    /\ limiter \in Nat
    /\ wg \in Nat
    /\ thread \in [Members -> {"none", "called", "fetching", "got", "released", "exited"}]
    /\ results \in [Members -> Entries]
    /\ calls \in [Members -> Nat]
    /\ out.failures \in SUBSET Members

Init ==
    /\ kind \in [Members -> Kinds]
    /\ ctxDone \in BOOLEAN
    /\ dpc = "loop" /\ next = 1 /\ canceled = 0
    /\ limiter = 0 /\ wg = 0
    /\ thread = [i \in Members |-> "none"]
    /\ results = [i \in Members |-> Zero]
    /\ calls = [i \in Members |-> 0]
    /\ out = NoOutput

Goto(i, to) == thread' = [thread EXCEPT ![i] = to]

-----------------------------------------------------------------------------
(* The dispatcher. *)

(* The head of the loop: past the last member, or ctx.Err() is looked at. *)
Loop ==
    /\ dpc = "loop"
    /\ \/ next > N /\ dpc' = "wait" /\ UNCHANGED canceled
       \/ next <= N /\ ctxDone /\ dpc' = "sync" /\ canceled' = next
       \/ next <= N /\ ~ctxDone /\ dpc' = "select" /\ UNCHANGED canceled
    /\ UNCHANGED <<kind, ctxDone, next, limiter, wg, thread, results, calls, out>>

(* Deviation: the members after the one in hand are handled. *)
SelectDone_SkipsMember ==
    /\ dpc = "select"
    /\ ctxDone
    /\ dpc' = "sync" /\ canceled' = next /\ next' = next + 1
    /\ UNCHANGED <<kind, ctxDone, limiter, wg, thread, results, calls, out>>

(* The two branches of the select. *)
SelectDone ==
    /\ dpc = "select"
    /\ ctxDone
    /\ dpc' = "sync" /\ canceled' = next
    /\ UNCHANGED <<kind, ctxDone, next, limiter, wg, thread, results, calls, out>>

(* Deviation: the limiter never blocks. *)
SelectSlot_Unbounded ==
    /\ dpc = "select"
    /\ limiter' = limiter + 1
    /\ wg' = wg + 1
    /\ Goto(next, "called")
    /\ dpc' = "loop" /\ next' = next + 1
    /\ UNCHANGED <<kind, ctxDone, canceled, results, calls, out>>

SelectSlot ==
    /\ dpc = "select"
    /\ limiter < LimiterCap
    /\ limiter' = limiter + 1
    /\ wg' = wg + 1
    /\ Goto(next, "called")
    /\ dpc' = "loop" /\ next' = next + 1
    /\ UNCHANGED <<kind, ctxDone, canceled, results, calls, out>>

(* The remaining members, from the one at which the context was found done: *)
(* the dispatcher calls get itself and goes on when the call is back.       *)
SyncCall ==
    /\ dpc = "sync" /\ next <= N
    /\ thread[next] = "none"
    /\ Goto(next, "called")
    /\ UNCHANGED <<kind, ctxDone, dispatch, limiter, wg, results, calls, out>>

SyncReturn ==
    /\ dpc = "sync" /\ next <= N
    /\ thread[next] = "got"
    /\ Goto(next, "exited")
    /\ next' = next + 1
    /\ UNCHANGED <<kind, ctxDone, dpc, canceled, limiter, wg, results, calls, out>>

SyncEnd ==
    /\ dpc = "sync" /\ next > N
    /\ dpc' = "wait"
    /\ UNCHANGED <<kind, ctxDone, next, canceled, limiter, wg, thread, results, calls, out>>

-----------------------------------------------------------------------------
(* get, whoever calls it: on the goroutine of the member or on the         *)
(* dispatcher.                                                             *)

(* Deviation: results are appended as the fetches end. *)
Store_InCompletionOrder(i, e) ==
    LET free == CHOOSE k \in Members :
                    /\ results[k] = Zero
                    /\ \A j \in Members : results[j] = Zero => k <= j
    IN  results' = [results EXCEPT ![free] = e]

(* memberIndex gives the position at which the service listed the member. *)
Store(i, e) == results' = [results EXCEPT ![i] = e]

(* A member that came with the collection is delivered without I/O, or      *)
(* counted as an error when it carries extended info; null and blank ones  *)
(* leave no trace; a link has to be fetched.                               *)
GetBegin(i) ==
    /\ thread[i] = "called"
    /\ calls' = [calls EXCEPT ![i] = @ + 1]
    /\ \/ kind[i] = "link" /\ Goto(i, "fetching") /\ UNCHANGED results
       \/ kind[i] = "expanded" /\ Goto(i, "got") /\ Store(i, Item(i))
       \/ kind[i] = "expandedError" /\ Goto(i, "got") /\ Store(i, Failed(i))
       \/ kind[i] \in {"null", "blank"} /\ Goto(i, "got") /\ UNCHANGED results
    /\ UNCHANGED <<kind, ctxDone, dispatch, limiter, wg, out>>

(* The fetch ends well, which a dead context does not let it. *)
GetObject(i) ==
    /\ thread[i] = "fetching" /\ ~ctxDone
    /\ Goto(i, "got")
    /\ Store(i, Item(i))
    /\ UNCHANGED <<kind, ctxDone, dispatch, limiter, wg, calls, out>>

GetFails(i) ==
    /\ thread[i] = "fetching"
    /\ Goto(i, "got")
    /\ Store(i, Failed(i))
    /\ UNCHANGED <<kind, ctxDone, dispatch, limiter, wg, calls, out>>

-----------------------------------------------------------------------------
(* The end of a member's goroutine, and of the whole call. *)

(* The member was started by the loop, so it runs on a goroutine. *)
Spawned(i) == i < next /\ (canceled = 0 \/ i < canceled)

(* Deviation: a failed fetch returns before its slot is freed. *)
FreeSlot_SkipsErrors(i) ==
    /\ Spawned(i) /\ thread[i] = "got"
    /\ limiter' = IF results[i] = Failed(i) THEN limiter ELSE limiter - 1
    /\ Goto(i, "released")
    /\ UNCHANGED <<kind, ctxDone, dispatch, wg, results, calls, out>>

FreeSlot(i) ==
    /\ Spawned(i) /\ thread[i] = "got"
    /\ limiter' = limiter - 1
    /\ Goto(i, "released")
    /\ UNCHANGED <<kind, ctxDone, dispatch, wg, results, calls, out>>

Done(i) ==
    /\ thread[i] = "released"
    /\ wg' = wg - 1
    /\ Goto(i, "exited")
    /\ UNCHANGED <<kind, ctxDone, dispatch, limiter, results, calls, out>>

(* What the loop over the results has collected after k of them: the object *)
(* of an entry that holds no error goes to the end.                         *)
Objects(res) ==
    LET objects[k \in 0..N] ==
            IF k = 0 THEN <<>>
            ELSE IF res[k].ok THEN Append(objects[k - 1], res[k].of) ELSE objects[k - 1]
    IN  objects

(* The objects, and the members whose entry holds an error: the error is    *)
(* looked at first, since a failed fetch may come with what it decoded.     *)
Assemble(res) == [items |-> Objects(res)[N],
                  failures |-> {i \in Members : \E k \in Members : res[k] = Failed(i)}]

(* Deviation: a dead context returns without waiting. *)
Wait_NotWhenCanceled ==
    /\ dpc = "wait" /\ (wg = 0 \/ ctxDone)
    /\ dpc' = "returned"
    /\ out' = Assemble(results)
    /\ UNCHANGED <<kind, ctxDone, next, canceled, limiter, wg, thread, results, calls>>

(* wg.Wait returns when the counter is zero; the caller gets the outcome. *)
Wait ==
    /\ dpc = "wait" /\ wg = 0
    /\ dpc' = "returned"
    /\ out' = Assemble(results)
    /\ UNCHANGED <<kind, ctxDone, next, canceled, limiter, wg, thread, results, calls>>

Cancel ==
    /\ ~ctxDone
    /\ ctxDone' = TRUE
    /\ UNCHANGED <<kind, dispatch, limiter, wg, thread, results, calls, out>>

Dispatch ==
    Loop \/ SelectDone \/ SelectSlot \/ SyncCall \/ SyncReturn \/ SyncEnd \/ Wait

Fetched(i) == GetObject(i) \/ GetFails(i)

Thread(i) == GetBegin(i) \/ Fetched(i) \/ FreeSlot(i) \/ Done(i)

Next == Dispatch \/ Cancel \/ \E i \in Members : Thread(i)

(* The dispatcher and the goroutines keep running; of a fetch it is only    *)
(* assumed that it ends once its context is done.                          *)
Fairness ==
    /\ WF_vars(Dispatch)
    /\ \A i \in Members :
        /\ WF_vars(GetBegin(i) \/ FreeSlot(i) \/ Done(i))
        /\ WF_vars(ctxDone /\ GetFails(i))

Spec == Init /\ [][Next]_vars /\ Fairness

-----------------------------------------------------------------------------
(* Properties. *)

SlotHolders == {i \in Members : Spawned(i) /\ thread[i] \in {"called", "fetching", "got"}}
Running == {i \in Members : Spawned(i) /\ thread[i] # "exited"}

(* The limiter and the wait group count what they are meant to count, on    *)
(* every path through the dispatcher and the goroutines.                    *)
CountersExact ==
    /\ limiter = Cardinality(SlotHolders) /\ limiter <= LimiterCap
    /\ wg = Cardinality(Running)

(* "Only allow three concurrent requests": while the context is alive no    *)
(* more fetches are under way than the limiter has slots, and after its     *)
(* death the dispatcher adds at most its own, which fails fast.             *)
FetchBound ==
    LET fetching == {i \in Members : thread[i] = "fetching"} IN
    /\ Cardinality(fetching) <= LimiterCap + 1
    /\ ~ctxDone => Cardinality(fetching) <= LimiterCap

(* What nobody but the scheduler keeps from its next step: the dispatcher   *)
(* in each of its positions, and the goroutine of a member.                *)
DispatcherMoves ==
    \/ dpc = "loop"
    \/ dpc = "select" /\ (ctxDone \/ limiter < LimiterCap)
    \/ dpc = "sync" /\ (next > N \/ thread[next] \in {"none", "got"})
    \/ dpc = "wait" /\ wg = 0

MemberMoves(i) ==
    \/ thread[i] \in {"called", "released"}
    \/ Spawned(i) /\ thread[i] = "got"

(* Every member is accounted for: when the call returns, get was called     *)
(* exactly once for each, no call of it is still running, and the entry of  *)
(* each member with an Id or a link holds its own object or its own error.  *)
EveryMemberOnce == dpc = "returned" =>
    \A i \in Members :
        /\ calls[i] = 1
        /\ thread[i] = "exited"
        /\ IF kind[i] \in {"null", "blank"} THEN results[i] = Zero
           ELSE results[i] \in {Item(i), Failed(i)}

(* The caller gets each of those members either as an object or as a        *)
(* failure, and the objects in the order in which the service listed them,  *)
(* regardless of the order in which the fetches ended.                      *)
OrderedOutcome ==
    /\ \A j, k \in 1..Len(out.items) : j < k => out.items[j] < out.items[k]
    /\ dpc = "returned" => \A i \in Members :
           kind[i] \notin {"null", "blank"} =>
               (i \in out.failures) # (\E k \in 1..Len(out.items) : out.items[k] = i)

(* What was returned is final: no goroutine left behind writes into the     *)
(* results after the caller has them.                                       *)
NoLateResult == [][dpc = "returned" => UNCHANGED <<results, calls, out>>]_vars

(* The limiter is a counting semaphore over the goroutines. *)
Slot == INSTANCE BoundedSlots WITH
            Users <- Members, Slots <- LimiterCap, holding <- SlotHolders
ImplementsSlots == Slot!Spec
=============================================================================
