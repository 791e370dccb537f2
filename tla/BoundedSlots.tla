---------------------------- MODULE BoundedSlots ----------------------------
(***************************************************************************)
(* What a Go channel used as a counting semaphore promises: a user takes a *)
(* slot, later gives it back, and at most Slots users hold one.            *)
(* gofish uses the idiom twice: APIClient.sem (client.go) around every     *)
(* HTTP exchange, and the limiter of CollectResourceCollectionWithContext  *)
(* (common/collection.go) around every member fetch.  Both detailed        *)
(* specifications are shown to implement this one.                         *)
(***************************************************************************)
EXTENDS Naturals, FiniteSets

CONSTANTS Users, Slots

VARIABLE holding    \* the users that hold a slot

Init == holding = {}

(* A send on the channel: it blocks while the buffer is full. *)
Take(u) ==
    /\ u \notin holding
    /\ Cardinality(holding) < Slots
    /\ holding' = holding \cup {u}

(* A receive from the channel, by the user that sent. *)
Give(u) ==
    /\ u \in holding
    /\ holding' = holding \ {u}

Next == \E u \in Users : Take(u) \/ Give(u)

Spec == Init /\ [][Next]_holding

-----------------------------------------------------------------------------

(* No more users than slots: the bound that MaxConcurrentRequests and the  *)
(* limiter's capacity are meant to impose.                                 *)
SlotBound == IsFiniteSet(holding) /\ Cardinality(holding) <= Slots
=============================================================================
