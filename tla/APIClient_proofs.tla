-------------------------- MODULE APIClient_proofs --------------------------
(***************************************************************************)
(* Proofs about the request pipeline, for any set of calls, any setting of *)
(* MaxConcurrentRequests and any certificates.                             *)
(***************************************************************************)
EXTENDS APIClient, FiniteSetTheorems, TLAPS

USE DEF settings

(* Whatever MaxConcurrentRequests was set to, there is a permit to take. *)
LEMMA PermitsPositive == Permits \in Nat \ {0}
  BY RequestAssumption DEF Permits

LEMMA TypeInit == Init => TypeOK
  BY DEF Init, TypeOK

LEMMA TypeStep == TypeOK /\ PermitsConserved /\ [Next]_vars => TypeOK'
<1> SUFFICES ASSUME TypeOK, PermitsConserved, [Next]_vars PROVE TypeOK'
  OBVIOUS
<1> USE DEF TypeOK, Goto, CloseIt, Ended
<1>1. CASE UNCHANGED vars
  BY <1>1 DEF vars
<1>2. ASSUME NEW r \in Requests, Build(r) PROVE TypeOK'
  BY <1>2 DEF Build
<1>3. ASSUME NEW r \in Requests, Acquire(r) \/ GiveUp(r) PROVE TypeOK'
  BY <1>3 DEF Acquire, GiveUp
<1>4. ASSUME NEW r \in Requests, Answer(r) \/ DoError(r) PROVE TypeOK'
  BY <1>4 DEF Answer, DoError
<1>5. ASSUME NEW r \in Requests, Release(r) PROVE TypeOK'
  <2>1. sem # 0
    <3>1. r \in Holders
      BY <1>5 DEF Release, Holders
    <3> QED
      BY <3>1, FS_EmptySet DEF PermitsConserved
  <2> QED
    BY <1>5, <2>1 DEF Release
<1>6. ASSUME NEW r \in Requests, Inspect(r) PROVE TypeOK'
  BY <1>6 DEF Inspect, NoResponse, RejectPeer, DumpFails, Deliver, ErrorStatus
<1>7. ASSUME NEW r \in Requests, Drain(r) \/ Cleanup(r) PROVE TypeOK'
  BY <1>7 DEF Drain, Cleanup
<1>8. ASSUME NEW r \in Requests, Cancel({r}) PROVE TypeOK'
  BY <1>8 DEF Cancel
<1>9. CASE SetDumpWriter
  BY <1>9 DEF SetDumpWriter
<1> QED
  BY <1>1, <1>2, <1>3, <1>4, <1>5, <1>6, <1>7, <1>8, <1>9 DEF Next, Step

(* What a step does to the set of calls that hold a permit: one joins, one  *)
(* leaves, or nothing changes.                                              *)
LEMMA HoldersStep ==
    ASSUME TypeOK, [Next]_vars
    PROVE  \/ \E r \in Requests : /\ r \notin Holders /\ Holders' = Holders \cup {r}
                                  /\ sem < Permits /\ sem' = sem + 1
           \/ \E r \in Requests : /\ r \in Holders /\ Holders' = Holders \ {r}
                                  /\ sem' = sem - 1
           \/ Holders' = Holders /\ sem' = sem
<1> USE DEF TypeOK, Goto, CloseIt, Holders
<1>1. CASE UNCHANGED vars
  BY <1>1 DEF vars
<1>2. ASSUME NEW r \in Requests, Acquire(r)
      PROVE  /\ r \notin Holders /\ Holders' = Holders \cup {r}
             /\ sem < Permits /\ sem' = sem + 1
  BY <1>2 DEF Acquire
<1>3. ASSUME NEW r \in Requests, Release(r)
      PROVE  r \in Holders /\ Holders' = Holders \ {r} /\ sem' = sem - 1
  BY <1>3 DEF Release
<1>4. ASSUME NEW r \in Requests,
             \/ Build(r) \/ GiveUp(r) \/ Answer(r) \/ DoError(r)
             \/ Inspect(r) \/ Drain(r) \/ Cleanup(r) \/ Cancel({r})
      PROVE  Holders' = Holders /\ sem' = sem
  BY <1>4 DEF Build, GiveUp, Answer, DoError, Inspect, NoResponse, RejectPeer,
              DumpFails, Deliver, ErrorStatus, Drain, Cleanup, Cancel
<1>5. CASE SetDumpWriter
  BY <1>5 DEF SetDumpWriter
<1> QED
  BY <1>1, <1>2, <1>3, <1>4, <1>5 DEF Next, Step

LEMMA PermitsStep ==
    TypeOK /\ PermitsConserved /\ [Next]_vars => PermitsConserved'
<1> SUFFICES ASSUME TypeOK, PermitsConserved, [Next]_vars PROVE PermitsConserved'
  OBVIOUS
<1> USE PermitsPositive DEF PermitsConserved
<1>1. ASSUME NEW r \in Requests, r \notin Holders, Holders' = Holders \cup {r},
             sem < Permits, sem' = sem + 1
      PROVE  PermitsConserved'
  BY <1>1, FS_AddElement, FS_CardinalityType
<1>2. ASSUME NEW r \in Requests, r \in Holders, Holders' = Holders \ {r}, sem' = sem - 1
      PROVE  PermitsConserved'
  BY <1>2, FS_RemoveElement, FS_CardinalityType
<1>3. CASE Holders' = Holders /\ sem' = sem
  BY <1>3
<1> QED
  BY <1>1, <1>2, <1>3, HoldersStep

LEMMA PermitsInit == Init => PermitsConserved
  BY PermitsPositive, FS_EmptySet DEF Init, PermitsConserved, Holders

(* The channel holds one token for each call in an exchange and never more  *)
(* than its capacity, however calls fail, panic or are cancelled.           *)
THEOREM PermitsAreConserved == Spec => [](TypeOK /\ PermitsConserved)
  BY TypeInit, TypeStep, PermitsInit, PermitsStep, PTL DEF Spec

(* The pipeline implements the counting semaphore: each of its steps takes  *)
(* a slot, gives one back or leaves them alone.                             *)
THEOREM ClientImplementsSlots == Spec => ImplementsSlots
<1>1. Init => Slot!Init
  BY DEF Init, Slot!Init, Holders
<1>2. Slot!Cardinality(Holders) = Cardinality(Holders)
  BY DEF Slot!Cardinality, Cardinality
<1>3. TypeOK /\ PermitsConserved /\ [Next]_vars => [Slot!Next]_Holders
  BY <1>2, HoldersStep DEF PermitsConserved, Slot!Next, Slot!Take, Slot!Give
<1> QED
  BY <1>1, <1>3, PermitsAreConserved, PTL DEF Spec, ImplementsSlots, Slot!Spec

(* A call that its caller gets no response from leaves no body open. *)
THEOREM BodiesAreClosed == Spec => []BodyDiscipline
<1>1. Init => BodyDiscipline
  BY DEF Init, BodyDiscipline
<1>2. TypeOK /\ BodyDiscipline /\ [Next]_vars => BodyDiscipline'
  <2> SUFFICES ASSUME TypeOK, BodyDiscipline, [Next]_vars PROVE BodyDiscipline'
    OBVIOUS
  <2> USE DEF TypeOK, BodyDiscipline, Goto, CloseIt
  <2>1. CASE UNCHANGED vars
    BY <2>1 DEF vars
  <2>2. ASSUME NEW r \in Requests, Build(r) \/ Acquire(r) \/ GiveUp(r)
        PROVE  BodyDiscipline'
    BY <2>2 DEF Build, Acquire, GiveUp
  <2>3. ASSUME NEW r \in Requests, Answer(r) \/ DoError(r) \/ Release(r)
        PROVE  BodyDiscipline'
    BY <2>3 DEF Answer, DoError, Release
  <2>4. ASSUME NEW r \in Requests, Inspect(r) PROVE BodyDiscipline'
    BY <2>4 DEF Inspect, NoResponse, RejectPeer, DumpFails, Deliver, ErrorStatus
  <2>5. ASSUME NEW r \in Requests, Drain(r) \/ Cleanup(r) \/ Cancel({r})
        PROVE  BodyDiscipline'
    BY <2>5 DEF Drain, Cleanup, Cancel
  <2>6. CASE SetDumpWriter
    BY <2>6 DEF SetDumpWriter
  <2> QED
    BY <2>1, <2>2, <2>3, <2>4, <2>5, <2>6 DEF Next, Step
<1> QED
  BY <1>1, <1>2, PermitsAreConserved, PTL DEF Spec

(* With monitoring on, no body that came with another certificate than the  *)
(* pinned one is read, by the caller or into an error.                      *)
THEOREM OnlyPinnedPeers == Spec => []PinnedPeer
<1>1. Init => PinnedPeer
  BY DEF Init, PinnedPeer
<1>2. TypeOK /\ PinnedPeer /\ [Next]_vars => PinnedPeer'
  <2> SUFFICES ASSUME TypeOK, PinnedPeer, [Next]_vars PROVE PinnedPeer'
    OBVIOUS
  <2> USE DEF TypeOK, PinnedPeer, Mismatch, Goto, CloseIt
  <2>1. CASE UNCHANGED vars
    BY <2>1 DEF vars
  <2>2. ASSUME NEW r \in Requests, Build(r) \/ Acquire(r) \/ GiveUp(r)
        PROVE  PinnedPeer'
    BY <2>2 DEF Build, Acquire, GiveUp
  <2>3. ASSUME NEW r \in Requests, Answer(r) \/ DoError(r) \/ Release(r)
        PROVE  PinnedPeer'
    BY <2>3 DEF Answer, DoError, Release
  <2>4. ASSUME NEW r \in Requests, Inspect(r) PROVE PinnedPeer'
    BY <2>4 DEF Inspect, NoResponse, RejectPeer, DumpFails, Deliver, ErrorStatus
  <2>5. ASSUME NEW r \in Requests, Drain(r) \/ Cleanup(r) \/ Cancel({r})
        PROVE  PinnedPeer'
    BY <2>5 DEF Drain, Cleanup, Cancel
  <2>6. CASE SetDumpWriter
    BY <2>6 DEF SetDumpWriter
  <2> QED
    BY <2>1, <2>2, <2>3, <2>4, <2>5, <2>6 DEF Next, Step
<1> QED
  BY <1>1, <1>2, PermitsAreConserved, PTL DEF Spec

-----------------------------------------------------------------------------
(* A response comes with its body open or not at all, up to its inspection. *)
Unread == \A r \in Requests :
    /\ pc[r] \in {"idle", "queued", "doing"} => body[r] = "none"
    /\ pc[r] \in {"answered", "inspecting"} => body[r] \in {"none", "open"}

LEMMA UnreadStep == TypeOK /\ Unread /\ [Next]_vars => Unread'
<1> SUFFICES ASSUME TypeOK, Unread, [Next]_vars PROVE Unread'
  OBVIOUS
<1> USE DEF TypeOK, Unread, Goto, CloseIt
<1>1. CASE UNCHANGED vars
  BY <1>1 DEF vars
<1>2. ASSUME NEW r \in Requests, Build(r) \/ Acquire(r) \/ GiveUp(r) PROVE Unread'
  BY <1>2 DEF Build, Acquire, GiveUp
<1>3. ASSUME NEW r \in Requests, Answer(r) \/ DoError(r) \/ Release(r) PROVE Unread'
  BY <1>3 DEF Answer, DoError, Release
<1>4. ASSUME NEW r \in Requests, Inspect(r) PROVE Unread'
  BY <1>4 DEF Inspect, NoResponse, RejectPeer, DumpFails, Deliver, ErrorStatus
<1>5. ASSUME NEW r \in Requests, Drain(r) \/ Cleanup(r) \/ Cancel({r}) PROVE Unread'
  BY <1>5 DEF Drain, Cleanup, Cancel
<1>6. CASE SetDumpWriter
  BY <1>6 DEF SetDumpWriter
<1> QED BY <1>1, <1>2, <1>3, <1>4, <1>5, <1>6 DEF Next, Step

(* The steps of a call that are left, with the closing of its response.     *)
StepsLeft(r) ==
    CASE pc[r] = "idle" -> 7 [] pc[r] = "queued" -> 6 [] pc[r] = "doing" -> 5
      [] pc[r] = "answered" -> 4 [] pc[r] = "inspecting" -> 3 [] pc[r] = "draining" -> 2
      [] pc[r] = "returned" /\ body[r] = "open" -> 1
      [] OTHER -> 0

LEMMA CallShortens ==
    ASSUME TypeOK, NEW r \in Requests, Step(r)
    PROVE  /\ StepsLeft(r)' < StepsLeft(r)
           /\ \A s \in Requests \ {r} : pc'[s] = pc[s] /\ body'[s] = body[s]
<1> USE DEF TypeOK, Goto, CloseIt
<1>1. CASE Build(r)
  BY <1>1 DEF Build, StepsLeft
<1>2. CASE Acquire(r) \/ GiveUp(r)
  BY <1>2 DEF Acquire, GiveUp, StepsLeft
<1>3. CASE Answer(r) \/ DoError(r) \/ Release(r)
  BY <1>3 DEF Answer, DoError, Release, StepsLeft
<1>4. CASE Inspect(r)
  <2>1. pc[r] = "inspecting" /\ pc'[r] \in {"failed", "panicked", "returned", "draining"}
    BY <1>4 DEF Inspect, NoResponse, RejectPeer, DumpFails, Deliver, ErrorStatus
  <2>2. \A s \in Requests \ {r} : pc'[s] = pc[s] /\ body'[s] = body[s]
    BY <1>4 DEF Inspect, NoResponse, RejectPeer, DumpFails, Deliver, ErrorStatus
  <2> QED BY <2>1, <2>2 DEF StepsLeft
<1>5. CASE Drain(r) \/ Cleanup(r)
  BY <1>5 DEF Drain, Cleanup, StepsLeft
<1> QED BY <1>1, <1>2, <1>3, <1>4, <1>5 DEF Step

(* A call is at most seven steps, each of which is one less that is left to *)
(* it and takes nothing from the others; it waits for a permit only while   *)
(* some other call is in an exchange, which no full channel outlives; and   *)
(* what it inspects is a response that was not read before, or none.        *)
THEOREM RequestsGetShorter ==
    Spec => /\ [](sem = Permits => Holders # {})
            /\ []Unread
            /\ [][\A r \in Requests : /\ Step(r) => StepsLeft(r)' < StepsLeft(r)
                                      /\ StepsLeft(r)' <= StepsLeft(r)]_vars
<1>1. PermitsConserved => (sem = Permits => Holders # {})
  BY PermitsPositive, FS_EmptySet DEF PermitsConserved
<1>2. Init => Unread
  BY DEF Init, Unread
<1>3. TypeOK /\ [Next]_vars =>
        [\A r \in Requests : /\ Step(r) => StepsLeft(r)' < StepsLeft(r)
                             /\ StepsLeft(r)' <= StepsLeft(r)]_vars
  <2> SUFFICES ASSUME TypeOK, Next, NEW r \in Requests
               PROVE  /\ Step(r) => StepsLeft(r)' < StepsLeft(r)
                      /\ StepsLeft(r)' <= StepsLeft(r)
    OBVIOUS
  <2>1. StepsLeft(r) \in Nat
    BY DEF StepsLeft
  <2>2. CASE pc'[r] = pc[r] /\ body'[r] = body[r] /\ ~Step(r)
    BY <2>1, <2>2 DEF StepsLeft
  <2>3. CASE Step(r)
    BY <2>3, CallShortens, <2>1 DEF StepsLeft
  <2>4. ASSUME NEW s \in Requests, Step(s), s # r PROVE pc'[r] = pc[r] /\ body'[r] = body[r]
    BY <2>4, CallShortens
  <2>5. ASSUME SetDumpWriter \/ \E s \in Requests : Cancel({s})
        PROVE  pc'[r] = pc[r] /\ body'[r] = body[r]
    BY <2>5 DEF SetDumpWriter, Cancel
  <2> QED BY <2>2, <2>3, <2>4, <2>5 DEF Next
<1> QED BY <1>1, <1>2, <1>3, UnreadStep, PermitsAreConserved, PTL DEF Spec
=============================================================================
