------------------------- MODULE CollectPool_proofs -------------------------
(***************************************************************************)
(* Proofs about CollectPool and about its users, ObjectsFetch and          *)
(* CollectionFetch, for any number of members, any capacity of the         *)
(* limiter, any mixture of kinds and any moment at which the context dies. *)
(***************************************************************************)
EXTENDS ObjectsFetch, CollectionFetch, FiniteSetTheorems, TLAPS

USE PoolAssumption DEF Members, dispatch

(* A fetch ends.  Unlike GetObject this may deliver an object although the  *)
(* context is done: ObjectsFetch does so with one that had arrived before.  *)
Delivered(i) ==
    /\ thread[i] = "fetching"
    /\ Goto(i, "got")
    /\ Store(i, Item(i)) \/ Store(i, Failed(i))
    /\ UNCHANGED <<kind, ctxDone, dispatch, limiter, wg, calls, out>>

(* The steps of the pool, alone and in ObjectsFetch. *)
Step == Dispatch \/ Cancel \/ \E i \in Members : GetBegin(i) \/ Delivered(i) \/ FreeSlot(i) \/ Done(i)

(* How far the call of get for a member is follows from where the           *)
(* dispatcher is and from where it saw the context done.                    *)
Phases ==
    /\ dpc \in {"loop", "select"} => canceled = 0
    /\ dpc = "select" => next <= N
    /\ dpc = "sync" => canceled # 0
    /\ dpc \in {"wait", "returned"} => next = N + 1
    /\ canceled # 0 => ctxDone /\ canceled <= next
    /\ \A i \in Members :
        /\ i > next => thread[i] = "none"
        /\ i = next => IF dpc = "sync" THEN thread[i] \in {"none", "called", "fetching", "got"}
                                       ELSE thread[i] = "none"
        /\ i < next => IF Spawned(i) THEN thread[i] # "none" ELSE thread[i] = "exited"

(* What the history and the results hold of a member at each stage. *)
Outcomes == \A i \in Members :
    IF thread[i] \in {"none", "called", "fetching"}
    THEN /\ calls[i] = IF thread[i] = "fetching" THEN 1 ELSE 0
         /\ results[i] = Zero
         /\ thread[i] = "fetching" => kind[i] = "link"
    ELSE /\ calls[i] = 1
         /\ IF kind[i] \in {"null", "blank"} THEN results[i] = Zero
            ELSE results[i] \in {Item(i), Failed(i)}

(* Once the call has returned nobody is left who could write. *)
Quiet == dpc = "returned" => \A i \in Members : thread[i] = "exited"

(* The caller has been given what the loop over the results makes of them.  *)
Handed == out = IF dpc = "returned" THEN Assemble(results) ELSE NoOutput

IInv == TypeOK /\ Phases /\ Outcomes /\ CountersExact /\ Quiet /\ Handed

-----------------------------------------------------------------------------

LEMMA SetsAreFinite ==
    ASSUME NEW S \in SUBSET Members
    PROVE  IsFiniteSet(S) /\ Cardinality(S) \in Nat
<1>1. IsFiniteSet(Members)
  BY FS_Interval
<1> QED
  BY <1>1, FS_Subset, FS_CardinalityType

LEMMA EntryTypes ==
    /\ Zero \in Entries
    /\ \A i \in Members : Item(i) \in Entries /\ Failed(i) \in Entries
  BY DEF Zero, Item, Failed, Entries

(* Induction over 0..n: the successor maps a set that is closed under it    *)
(* into the set without zero, which is smaller, unless it leaves the        *)
(* interval.                                                                *)
LEMMA LastIsReached ==
    ASSUME NEW n \in Nat, NEW D \in SUBSET (0..n), 0 \in D,
           \A k \in D : k < n => k + 1 \in D
    PROVE  n \in D
<1> SUFFICES ASSUME n \notin D PROVE FALSE
  OBVIOUS
<1> DEFINE f == [k \in D |-> k + 1]
<1>1. IsFiniteSet(0..n)
  BY FS_Interval
<1>2. IsFiniteSet(D) /\ IsFiniteSet(D \ {0})
  BY <1>1, FS_Subset, FS_RemoveElement
<1>3. \A k \in D : k \in Nat /\ k < n
  OBVIOUS
<1>4. f \in [D -> D \ {0}]
  BY <1>3
<1>5. f \in Injection(D, D \ {0})
  BY <1>3, <1>4 DEF Injection, IsInjective
<1>6. Cardinality(D) <= Cardinality(D \ {0})
  BY <1>2, <1>5, FS_Injection
<1>7. Cardinality(D \ {0}) = Cardinality(D) - 1 /\ Cardinality(D) \in Nat
  BY <1>2, FS_RemoveElement, FS_CardinalityType
<1> QED
  BY <1>6, <1>7

(* What the loop over the results has after k of them, from what it had     *)
(* after k - 1.                                                             *)
LEMMA ObjectsGrow ==
    ASSUME NEW res
    PROVE  Objects(res) = [k \in 0..N |->
               IF k = 0 THEN <<>>
               ELSE IF res[k].ok THEN Append(Objects(res)[k - 1], res[k].of)
                    ELSE Objects(res)[k - 1]]
<1> DEFINE Entry(f, k) == IF k = 0 THEN <<>>
                          ELSE IF res[k].ok THEN Append(f[k - 1], res[k].of) ELSE f[k - 1]
           Is(f, n) == f = [k \in 0..n |-> Entry(f, k)]
           D == {n \in 0..N : \E f : Is(f, n)}
<1>1. \E f : Is(f, 0)
  <2>1. Is([k \in 0..0 |-> <<>>], 0)
    OBVIOUS
  <2> QED
    BY <2>1
<1>2. ASSUME NEW n \in Nat, NEW f, Is(f, n) PROVE \E g : Is(g, n + 1)
  <2> DEFINE g == [k \in 0..(n + 1) |-> IF k <= n THEN f[k] ELSE Entry(f, k)]
  <2> HIDE DEF Entry
  <2>1. \A k \in 0..n : f[k] = Entry(f, k)
    BY <1>2
  <2>2. \A k \in 0..(n + 1) : g[k] = Entry(f, k)
    BY <2>1
  <2>3. \A k \in 0..(n + 1) : Entry(g, k) = Entry(f, k)
    <3>1. \A k \in 0..(n + 1) : k # 0 => g[k - 1] = f[k - 1]
      OBVIOUS
    <3> QED
      BY <3>1 DEF Entry
  <2>4. Is(g, n + 1)
    BY <2>2, <2>3
  <2> QED
    BY <2>4
<1> HIDE DEF Is
<1>3. N \in D
  <2>1. 0 \in D /\ D \in SUBSET (0..N)
    BY <1>1
  <2>2. \A k \in D : k < N => k + 1 \in D
    BY <1>2
  <2> HIDE DEF D
  <2> QED
    BY <2>1, <2>2, LastIsReached
<1>4. \E f : Is(f, N)
  BY <1>3
<1>5. Objects(res) = CHOOSE f : Is(f, N)
  BY DEF Objects, Is
<1>6. Is(Objects(res), N)
  BY <1>4, <1>5
<1> QED
  BY <1>6 DEF Is

Increasing(s) == \A j, k \in 1..Len(s) : j < k => s[j] < s[k]
Holds(s, i) == \E k \in 1..Len(s) : s[k] = i

(* A longer list t: s, and at its end a member that is beyond those of s.   *)
LEMMA OneMore ==
    ASSUME NEW n \in Nat, NEW m \in Nat, NEW s, NEW t,
           Len(s) = m, Len(t) = m + 1, t[m + 1] = n + 1, Increasing(s),
           \A k \in 1..m : t[k] = s[k] /\ s[k] \in 1..n
    PROVE  Increasing(t) /\ \A i : Holds(t, i) <=> i = n + 1 \/ Holds(s, i)
<1>1. \A k \in 1..(m + 1) : k = m + 1 \/ k \in 1..m
  OBVIOUS
<1>2. Increasing(t)
  <2> SUFFICES ASSUME NEW j \in 1..(m + 1), NEW k \in 1..(m + 1), j < k PROVE t[j] < t[k]
    BY DEF Increasing
  <2>1. j \in 1..m
    OBVIOUS
  <2>2. CASE k = m + 1
    <3>1. t[j] \in 1..n
      BY <2>1
    <3>2. t[k] = n + 1
      BY <2>2
    <3> QED
      BY <3>1, <3>2
  <2>3. CASE k \in 1..m
    <3>1. s[j] < s[k]
      BY <2>1, <2>3 DEF Increasing
    <3> QED
      BY <2>1, <2>3, <3>1
  <2> QED
    BY <1>1, <2>2, <2>3
<1>3. ASSUME NEW i PROVE Holds(t, i) <=> i = n + 1 \/ Holds(s, i)
  <2>1. Holds(t, i) <=> \E k \in 1..(m + 1) : t[k] = i
    BY DEF Holds
  <2>2. (\E k \in 1..(m + 1) : t[k] = i) <=> (t[m + 1] = i \/ \E k \in 1..m : t[k] = i)
    BY <1>1
  <2>3. Holds(s, i) <=> \E k \in 1..m : t[k] = i
    BY DEF Holds
  <2> QED
    BY <2>1, <2>2, <2>3
<1> QED
  BY <1>2, <1>3

(* The loop keeps the order of the entries and takes exactly the objects.   *)
LEMMA ObjectsInOrder ==
    ASSUME NEW res \in [Members -> Entries], \A i \in Members : res[i].ok => res[i].of = i
    PROVE  /\ Objects(res)[N] \in Seq(Members) /\ Increasing(Objects(res)[N])
           /\ \A i \in Members : Holds(Objects(res)[N], i) <=> res[i].ok
<1> DEFINE o == Objects(res)
           P(n) == /\ o[n] \in Seq(1..n) /\ Increasing(o[n])
                   /\ \A i : Holds(o[n], i) <=> i \in 1..n /\ res[i].ok
           D == {n \in 0..N : P(n)}
<1> HIDE DEF o
<1>0. o = [k \in 0..N |-> IF k = 0 THEN <<>>
                          ELSE IF res[k].ok THEN Append(o[k - 1], res[k].of) ELSE o[k - 1]]
  BY ObjectsGrow DEF o
<1>1. /\ o[0] = <<>>
      /\ \A k \in 1..N : o[k] = IF res[k].ok THEN Append(o[k - 1], k) ELSE o[k - 1]
  <2>1. o[0] = <<>>
    BY <1>0
  <2>2. ASSUME NEW k \in 1..N PROVE o[k] = IF res[k].ok THEN Append(o[k - 1], k) ELSE o[k - 1]
    <3>1. o[k] = IF res[k].ok THEN Append(o[k - 1], res[k].of) ELSE o[k - 1]
      <4>1. k \in 0..N /\ k # 0
        OBVIOUS
      <4> QED
        BY <1>0, <4>1
    <3> QED
      BY <3>1
  <2> QED
    BY <2>1, <2>2
<1>2. P(0)
  BY <1>1 DEF Increasing, Holds
<1>3. ASSUME NEW n \in 0..N, P(n), n < N PROVE P(n + 1)
  <2>1. n + 1 \in 1..N /\ (n + 1) - 1 = n
    BY <1>3
  <2>2. /\ n \in Nat /\ o[n] \in Seq(1..n) /\ Increasing(o[n])
        /\ \A i : Holds(o[n], i) <=> i \in 1..n /\ res[i].ok
    BY <1>3
  <2>3. CASE res[n + 1].ok
    <3>1. o[n + 1] = Append(o[n], n + 1)
      BY <1>1, <2>1, <2>3
    <3>2. /\ o[n + 1] \in Seq(1..(n + 1)) /\ Increasing(o[n + 1])
          /\ \A i : Holds(o[n + 1], i) <=> i = n + 1 \/ Holds(o[n], i)
      <4>1. PICK s : \E t : \E m \in Nat : s = o[n] /\ t = o[n + 1] /\ m = Len(s)
        BY <2>2
      <4>2. PICK t : \E m \in Nat : s = o[n] /\ t = o[n + 1] /\ m = Len(s)
        BY <4>1
      <4>3. PICK m \in Nat : s = o[n] /\ t = o[n + 1] /\ m = Len(s)
        BY <4>2
      <4>4. /\ Len(s) = m /\ Len(t) = m + 1 /\ t[m + 1] = n + 1
            /\ \A k \in 1..m : t[k] = s[k] /\ s[k] \in 1..n
        BY <2>2, <3>1, <4>3
      <4>5. Increasing(s) /\ n \in Nat
        BY <2>2, <4>3
      <4>6. Increasing(t) /\ \A i : Holds(t, i) <=> i = n + 1 \/ Holds(s, i)
        BY <4>4, <4>5, OneMore, Zenon
      <4> QED
        BY <2>2, <3>1, <4>3, <4>6
    <3>3. \A i : i \in 1..(n + 1) <=> i = n + 1 \/ i \in 1..n
      BY <2>2
    <3> QED
      BY <2>2, <2>3, <3>2, <3>3
  <2>4. CASE ~res[n + 1].ok
    <3>1. o[n + 1] = o[n]
      BY <1>1, <2>1, <2>4
    <3>2. o[n] \in Seq(1..(n + 1))
      BY <2>2
    <3>3. \A i : i \in 1..(n + 1) <=> i = n + 1 \/ i \in 1..n
      BY <2>2
    <3> QED
      BY <2>2, <2>4, <3>1, <3>2, <3>3
  <2> QED
    BY <2>3, <2>4
<1> HIDE DEF P
<1>4. N \in D
  <2>1. 0 \in D /\ D \in SUBSET (0..N)
    BY <1>2
  <2>2. \A k \in D : k < N => k + 1 \in D
    BY <1>3
  <2> HIDE DEF D
  <2> QED
    BY <2>1, <2>2, LastIsReached
<1>5. P(N)
  BY <1>4
<1> QED
  BY <1>5 DEF P, o

LEMMA InitIInv == Init => IInv
<1> SUFFICES ASSUME Init PROVE IInv
  OBVIOUS
<1> USE DEF Init
<1>1. TypeOK
  BY EntryTypes DEF TypeOK, NoOutput
<1>2. Phases /\ Outcomes /\ Quiet /\ Handed
  BY DEF Phases, Outcomes, Quiet, Handed, Spawned
<1>3. SlotHolders = {} /\ Running = {}
  BY DEF SlotHolders, Running, Spawned
<1>4. CountersExact
  BY <1>3, FS_EmptySet DEF CountersExact
<1> QED
  BY <1>1, <1>2, <1>4 DEF IInv

LEMMA CounterPositive ==
    ASSUME IInv, NEW i \in Members
    PROVE  /\ i \in SlotHolders => limiter > 0
           /\ i \in Running => wg > 0
<1>1. IsFiniteSet(SlotHolders) /\ IsFiniteSet(Running)
  BY SetsAreFinite DEF SlotHolders, Running
<1>2. ASSUME NEW S \in SUBSET Members, i \in S PROVE Cardinality(S) > 0
  BY <1>2, SetsAreFinite, FS_EmptySet
<1> QED
  BY <1>2 DEF IInv, CountersExact, SlotHolders, Running

LEMMA TypeStep == IInv /\ [Step]_vars => TypeOK'
<1> SUFFICES ASSUME IInv, [Step]_vars PROVE TypeOK'
  OBVIOUS
<1> USE EntryTypes DEF IInv, TypeOK, Goto, Store
<1>1. CASE UNCHANGED vars
  BY <1>1 DEF vars
<1>2. CASE Loop \/ SelectDone \/ SyncEnd
  BY <1>2 DEF Loop, SelectDone, SyncEnd, Phases
<1>11. CASE SyncCall
  BY <1>11 DEF SyncCall
<1>3. CASE SelectSlot
  BY <1>3 DEF SelectSlot, Phases
<1>4. CASE SyncReturn
  BY <1>4 DEF SyncReturn
<1>5. CASE Wait
  BY <1>5 DEF Wait, Assemble
<1>6. CASE Cancel
  BY <1>6 DEF Cancel
<1>7. ASSUME NEW i \in Members, GetBegin(i) PROVE TypeOK'
  <2>1. results' \in [Members -> Entries]
    BY <1>7 DEF GetBegin
  <2>2. thread' \in [Members -> {"none", "called", "fetching", "got", "released", "exited"}]
    BY <1>7 DEF GetBegin
  <2> QED
    BY <1>7, <2>1, <2>2 DEF GetBegin
<1>8. ASSUME NEW i \in Members, Delivered(i) PROVE TypeOK'
  BY <1>8 DEF Delivered
<1>9. ASSUME NEW i \in Members, FreeSlot(i) PROVE TypeOK'
  <2>1. i \in SlotHolders
    BY <1>9 DEF FreeSlot, SlotHolders
  <2> QED
    BY <1>9, <2>1, CounterPositive DEF FreeSlot
<1>10. ASSUME NEW i \in Members, Done(i) PROVE TypeOK'
  <2>1. thread[i] = "released"
    BY <1>10 DEF Done
  <2>2. i < next /\ Spawned(i)
    BY <2>1 DEF Phases
  <2>3. i \in Running
    BY <2>1, <2>2 DEF Running
  <2> QED
    BY <1>10, <2>3, CounterPositive DEF Done
<1> QED
  BY <1>1, <1>2, <1>3, <1>4, <1>5, <1>6, <1>7, <1>8, <1>9, <1>10, <1>11
     DEF Step, Dispatch

LEMMA PhasesStep == IInv /\ [Step]_vars => Phases'
<1> SUFFICES ASSUME IInv, [Step]_vars PROVE Phases'
  OBVIOUS
<1> USE DEF IInv, TypeOK, Phases, Spawned, Goto
<1>1. CASE UNCHANGED vars
  BY <1>1 DEF vars
<1>2. CASE Loop
  BY <1>2 DEF Loop
<1>3. CASE SelectDone
  BY <1>3 DEF SelectDone
<1>4. CASE SelectSlot
  BY <1>4 DEF SelectSlot
<1>5. CASE SyncCall
  BY <1>5 DEF SyncCall
<1>6. CASE SyncReturn
  BY <1>6 DEF SyncReturn
<1>7. CASE SyncEnd
  BY <1>7 DEF SyncEnd
<1>8. CASE Wait \/ Cancel
  BY <1>8 DEF Wait, Cancel
<1>9. ASSUME NEW i \in Members, GetBegin(i) PROVE Phases'
  BY <1>9 DEF GetBegin
<1>10. ASSUME NEW i \in Members, Delivered(i) PROVE Phases'
  BY <1>10 DEF Delivered
<1>11. ASSUME NEW i \in Members, FreeSlot(i) PROVE Phases'
  BY <1>11 DEF FreeSlot
<1>12. ASSUME NEW i \in Members, Done(i) PROVE Phases'
  BY <1>12 DEF Done
<1> QED
  BY <1>1, <1>2, <1>3, <1>4, <1>5, <1>6, <1>7, <1>8, <1>9, <1>10, <1>11, <1>12
     DEF Step, Dispatch

LEMMA OutcomesStep == IInv /\ [Step]_vars => Outcomes'
<1> SUFFICES ASSUME IInv, [Step]_vars PROVE Outcomes'
  OBVIOUS
<1> USE DEF IInv, TypeOK, Outcomes, Goto, Store
<1>1. CASE UNCHANGED vars
  BY <1>1 DEF vars
<1>2. CASE Loop \/ SelectDone \/ SyncEnd \/ Wait \/ Cancel
  BY <1>2 DEF Loop, SelectDone, SyncEnd, Wait, Cancel
<1>3. CASE SelectSlot
  BY <1>3 DEF SelectSlot, Phases
<1>4. CASE SyncCall \/ SyncReturn
  BY <1>4 DEF SyncCall, SyncReturn
<1>5. ASSUME NEW i \in Members, GetBegin(i) PROVE Outcomes'
  BY <1>5 DEF GetBegin, AllKinds
<1>6. ASSUME NEW i \in Members, Delivered(i) PROVE Outcomes'
  <2>1. kind[i] = "link" /\ calls[i] = 1
    BY <1>6 DEF Delivered
  <2>2. thread'[i] = "got" /\ results'[i] \in {Item(i), Failed(i)}
    BY <1>6 DEF Delivered
  <2>3. \A j \in Members \ {i} : thread'[j] = thread[j] /\ results'[j] = results[j]
    BY <1>6 DEF Delivered
  <2>4. UNCHANGED <<kind, calls>>
    BY <1>6 DEF Delivered
  <2> QED
    BY <2>1, <2>2, <2>3, <2>4
<1>7. ASSUME NEW i \in Members, FreeSlot(i) \/ Done(i) PROVE Outcomes'
  BY <1>7 DEF FreeSlot, Done
<1> QED
  BY <1>1, <1>2, <1>3, <1>4, <1>5, <1>6, <1>7 DEF Step, Dispatch

(* What a step does to the goroutines that hold a slot and to those that    *)
(* the wait group waits for.                                                *)
LEMMA SlotsStep ==
    ASSUME IInv, [Step]_vars
    PROVE  \/ \E i \in Members : /\ i \notin SlotHolders /\ SlotHolders' = SlotHolders \cup {i}
                                 /\ limiter < LimiterCap /\ limiter' = limiter + 1
                                 /\ i \notin Running /\ Running' = Running \cup {i}
                                 /\ wg' = wg + 1
           \/ \E i \in Members : /\ i \in SlotHolders /\ SlotHolders' = SlotHolders \ {i}
                                 /\ limiter' = limiter - 1
                                 /\ UNCHANGED <<Running, wg>>
           \/ \E i \in Members : /\ i \in Running /\ Running' = Running \ {i}
                                 /\ wg' = wg - 1
                                 /\ UNCHANGED <<SlotHolders, limiter>>
           \/ UNCHANGED <<SlotHolders, Running, limiter, wg>>
<1> USE DEF IInv, TypeOK, Phases, Spawned, Goto, SlotHolders, Running
<1>1. CASE UNCHANGED vars
  BY <1>1 DEF vars
<1>2. CASE Loop
  BY <1>2 DEF Loop
<1>3. CASE SelectDone
  BY <1>3 DEF SelectDone
<1>4. CASE SelectSlot
  <2>1. /\ next \notin SlotHolders /\ SlotHolders' = SlotHolders \cup {next}
        /\ next \notin Running /\ Running' = Running \cup {next}
    BY <1>4 DEF SelectSlot
  <2> QED
    BY <1>4, <2>1 DEF SelectSlot
<1>5. CASE SyncCall
  BY <1>5 DEF SyncCall
<1>6. CASE SyncReturn
  BY <1>6 DEF SyncReturn
<1>7. CASE SyncEnd \/ Wait \/ Cancel
  BY <1>7 DEF SyncEnd, Wait, Cancel
<1>8. ASSUME NEW i \in Members, GetBegin(i)
      PROVE  UNCHANGED <<SlotHolders, Running, limiter, wg>>
  BY <1>8 DEF GetBegin
<1>9. ASSUME NEW i \in Members, Delivered(i)
      PROVE  UNCHANGED <<SlotHolders, Running, limiter, wg>>
  BY <1>9 DEF Delivered
<1>10. ASSUME NEW i \in Members, FreeSlot(i)
       PROVE  /\ i \in SlotHolders /\ SlotHolders' = SlotHolders \ {i}
              /\ limiter' = limiter - 1 /\ UNCHANGED <<Running, wg>>
  BY <1>10 DEF FreeSlot
<1>11. ASSUME NEW i \in Members, Done(i)
       PROVE  /\ i \in Running /\ Running' = Running \ {i}
              /\ wg' = wg - 1 /\ UNCHANGED <<SlotHolders, limiter>>
  BY <1>11 DEF Done
<1> QED
  BY <1>1, <1>2, <1>3, <1>4, <1>5, <1>6, <1>7, <1>8, <1>9, <1>10, <1>11
     DEF Step, Dispatch

LEMMA CountersStep == IInv /\ [Step]_vars => CountersExact'
<1> SUFFICES ASSUME IInv, [Step]_vars PROVE CountersExact'
  OBVIOUS
<1> USE DEF IInv, CountersExact
<1>1. IsFiniteSet(SlotHolders) /\ IsFiniteSet(Running)
  BY SetsAreFinite DEF SlotHolders, Running
<1>2. Cardinality(SlotHolders) \in Nat /\ Cardinality(Running) \in Nat
  BY <1>1, FS_CardinalityType
<1>3. ASSUME NEW i \in Members, i \notin SlotHolders, SlotHolders' = SlotHolders \cup {i},
             limiter < LimiterCap, limiter' = limiter + 1,
             i \notin Running, Running' = Running \cup {i}, wg' = wg + 1
      PROVE  CountersExact'
  <2>1. /\ Cardinality(SlotHolders \cup {i}) = Cardinality(SlotHolders) + 1
        /\ Cardinality(Running \cup {i}) = Cardinality(Running) + 1
    BY <1>1, <1>3, FS_AddElement
  <2> QED
    BY <1>2, <1>3, <2>1
<1>4. ASSUME NEW i \in Members, i \in SlotHolders, SlotHolders' = SlotHolders \ {i},
             limiter' = limiter - 1, UNCHANGED <<Running, wg>>
      PROVE  CountersExact'
  <2>1. Cardinality(SlotHolders \ {i}) = Cardinality(SlotHolders) - 1
    BY <1>1, <1>4, FS_RemoveElement
  <2> QED
    BY <1>2, <1>4, <2>1
<1>5. ASSUME NEW i \in Members, i \in Running, Running' = Running \ {i},
             wg' = wg - 1, UNCHANGED <<SlotHolders, limiter>>
      PROVE  CountersExact'
  BY <1>1, <1>2, <1>5, FS_RemoveElement
<1>6. CASE UNCHANGED <<SlotHolders, Running, limiter, wg>>
  BY <1>6
<1> QED
  BY <1>3, <1>4, <1>5, <1>6, SlotsStep

LEMMA QuietStep == IInv /\ [Step]_vars => Quiet'
<1> SUFFICES ASSUME IInv, [Step]_vars PROVE Quiet'
  OBVIOUS
<1> USE DEF IInv, Quiet
<1>1. CASE Wait
  <2>1. IsFiniteSet(Running)
    BY SetsAreFinite DEF Running
  <2>2. Running = {}
    BY <1>1, <2>1, FS_EmptySet DEF Wait, CountersExact
  <2>3. next = N + 1
    BY <1>1 DEF Wait, Phases
  <2>4. ASSUME NEW i \in Members PROVE thread[i] = "exited"
    <3>1. IF Spawned(i) THEN thread[i] # "none" ELSE thread[i] = "exited"
      BY <2>3 DEF Phases
    <3> QED
      BY <2>2, <3>1 DEF Running
  <2> QED
    BY <1>1, <2>4 DEF Wait
<1>2. CASE UNCHANGED vars
  BY <1>2 DEF vars
<1>3. CASE Loop \/ SelectDone \/ SelectSlot \/ SyncCall \/ SyncReturn \/ SyncEnd \/ Cancel
  BY <1>3 DEF Loop, SelectDone, SelectSlot, SyncCall, SyncReturn, SyncEnd, Cancel
<1>4. ASSUME NEW i \in Members, GetBegin(i) \/ Delivered(i) \/ FreeSlot(i) \/ Done(i)
      PROVE  Quiet'
  BY <1>4 DEF GetBegin, Delivered, FreeSlot, Done
<1> QED
  BY <1>1, <1>2, <1>3, <1>4 DEF Step, Dispatch

LEMMA HandedStep == IInv /\ [Step]_vars => Handed'
<1> SUFFICES ASSUME IInv, [Step]_vars PROVE Handed'
  OBVIOUS
<1> USE DEF IInv, Handed
<1>1. CASE Wait
  BY <1>1 DEF Wait
<1>2. CASE UNCHANGED vars
  BY <1>2 DEF vars
<1>3. CASE Loop \/ SelectDone \/ SelectSlot \/ SyncCall \/ SyncReturn \/ SyncEnd
  BY <1>3 DEF Loop, SelectDone, SelectSlot, SyncCall, SyncReturn, SyncEnd
<1>4. CASE Cancel
  BY <1>4 DEF Cancel
<1>5. ASSUME NEW i \in Members, GetBegin(i) \/ Delivered(i) \/ FreeSlot(i) \/ Done(i)
      PROVE  Handed'
  <2>1. dpc # "returned"
    BY <1>5 DEF Quiet, GetBegin, Delivered, FreeSlot, Done
  <2> QED
    BY <1>5, <2>1 DEF GetBegin, Delivered, FreeSlot, Done
<1> QED
  BY <1>1, <1>2, <1>3, <1>4, <1>5 DEF Step, Dispatch

LEMMA StepKeepsIInv == IInv /\ [Step]_vars => IInv'
  BY TypeStep, PhasesStep, OutcomesStep, CountersStep, QuietStep, HandedStep DEF IInv

LEMMA NextIsStep == [Next]_vars => [Step]_vars
  BY DEF Next, Step, Thread, Fetched, GetObject, GetFails, Delivered

(* The inductive invariant of the pool. *)
THEOREM PoolInvariant == Spec => []IInv
  BY InitIInv, StepKeepsIInv, NextIsStep, PTL DEF Spec

-----------------------------------------------------------------------------

LEMMA MembersOnce == IInv => EveryMemberOnce
  BY DEF IInv, Quiet, Outcomes, EveryMemberOnce

(* Whatever the interleaving and whenever the context dies, every member is *)
(* accounted for exactly once and nothing of the call is still running when *)
(* the caller gets its result.                                              *)
THEOREM EveryMemberIsAccountedFor == Spec => []EveryMemberOnce
  BY MembersOnce, PoolInvariant, PTL

LEMMA OutcomeIsOrdered == IInv => OrderedOutcome
<1> SUFFICES ASSUME IInv PROVE OrderedOutcome
  OBVIOUS
<1> USE DEF IInv, Handed
<1>1. CASE dpc # "returned"
  <2>1. out.items = <<>>
    BY <1>1 DEF NoOutput
  <2>2. \A j, k \in 1..Len(out.items) : FALSE
    BY <2>1
  <2> QED
    BY <1>1, <2>2 DEF OrderedOutcome
<1>2. CASE dpc = "returned"
  <2>1. \A i \in Members : IF kind[i] \in {"null", "blank"} THEN results[i] = Zero
                           ELSE results[i] \in {Item(i), Failed(i)}
    BY <1>2 DEF Quiet, Outcomes
  <2>2. results \in [Members -> Entries] /\ \A i \in Members : results[i].ok => results[i].of = i
    BY <2>1 DEF TypeOK, Zero, Item, Failed
  <2>3. /\ out.items \in Seq(Members) /\ Increasing(out.items)
        /\ \A i \in Members : Holds(out.items, i) <=> results[i].ok
    BY <1>2, <2>2, ObjectsInOrder DEF Assemble
  <2>4. \A i \in Members : i \in out.failures <=> results[i] = Failed(i)
    <3>1. \A i, k \in Members : results[k] = Failed(i) => k = i
      BY <2>1 DEF Zero, Item, Failed
    <3> QED
      BY <1>2, <3>1 DEF Assemble
  <2>5. ASSUME NEW i \in Members, kind[i] \notin {"null", "blank"}
        PROVE  (i \in out.failures) # Holds(out.items, i)
    <3>0. Item(i) # Failed(i) /\ Item(i).ok /\ ~Failed(i).ok
      <4>1. Item(i).ok = TRUE /\ Failed(i).ok = FALSE
        BY DEF Item, Failed
      <4> QED
        BY <4>1
    <3>1. CASE results[i] = Item(i)
      <4>1. i \notin out.failures /\ Holds(out.items, i)
        BY <2>3, <2>4, <3>0, <3>1
      <4> QED
        BY <4>1
    <3>2. CASE results[i] = Failed(i)
      <4>1. i \in out.failures /\ ~Holds(out.items, i)
        BY <2>3, <2>4, <3>2 DEF Item, Failed
      <4> QED
        BY <4>1
    <3> QED
      BY <2>1, <2>5, <3>1, <3>2
  <2> QED
    BY <2>3, <2>5 DEF OrderedOutcome, Increasing, Holds
<1> QED
  BY <1>1, <1>2

(* The objects come in the order in which the service listed them, however  *)
(* the fetches overtook each other, and what is not among them is reported. *)
THEOREM OutcomesAreOrdered == Spec => []OrderedOutcome
  BY OutcomeIsOrdered, PoolInvariant, PTL

(* The limiter's tokens and the wait group's counter match the goroutines.  *)
THEOREM CountersAreExact == Spec => []CountersExact
<1>1. IInv => CountersExact
  BY DEF IInv
<1> QED
  BY <1>1, PoolInvariant, PTL

LEMMA ReturnedIsFinal ==
    IInv /\ [Step]_vars => [dpc = "returned" => UNCHANGED <<results, calls, out>>]_vars
<1> SUFFICES ASSUME IInv, Step, dpc = "returned" PROVE UNCHANGED <<results, calls, out>>
  OBVIOUS
<1>1. \A i \in Members : thread[i] = "exited"
  BY DEF IInv, Quiet
<1>2. ASSUME NEW i \in Members PROVE ~(GetBegin(i) \/ Delivered(i) \/ FreeSlot(i) \/ Done(i))
  BY <1>1 DEF GetBegin, Delivered, FreeSlot, Done
<1>3. ~Dispatch
  BY DEF Dispatch, Loop, SelectDone, SelectSlot, SyncCall, SyncReturn, SyncEnd, Wait
<1> QED
  BY <1>2, <1>3 DEF Step, Cancel

(* What the caller was given does not change any more. *)
THEOREM ResultsAreFinal == Spec => NoLateResult
  BY ReturnedIsFinal, NextIsStep, PoolInvariant, PTL DEF Spec, NoLateResult

LEMMA FetchesBounded == IInv => FetchBound
<1> SUFFICES ASSUME IInv PROVE FetchBound
  OBVIOUS
<1> DEFINE fetching == {i \in Members : thread[i] = "fetching"}
<1> USE DEF IInv, TypeOK, Phases, CountersExact
<1>1. /\ IsFiniteSet(SlotHolders) /\ Cardinality(SlotHolders) \in Nat
      /\ IsFiniteSet(fetching) /\ Cardinality(fetching) \in Nat
  BY SetsAreFinite DEF SlotHolders
<1>2. CASE fetching \subseteq SlotHolders
  <2>1. Cardinality(fetching) <= Cardinality(SlotHolders)
    BY <1>1, <1>2, FS_Subset
  <2> QED
    BY <1>1, <2>1 DEF FetchBound
<1>3. CASE ~(fetching \subseteq SlotHolders)
  <2>1. ctxDone /\ fetching \subseteq SlotHolders \cup {next}
    BY <1>3 DEF SlotHolders, Spawned
  <2>2. /\ IsFiniteSet(SlotHolders \cup {next})
        /\ Cardinality(SlotHolders \cup {next}) <= Cardinality(SlotHolders) + 1
        /\ Cardinality(SlotHolders \cup {next}) \in Nat
    <3>1. /\ IsFiniteSet(SlotHolders \cup {next})
          /\ Cardinality(SlotHolders \cup {next}) =
               IF next \in SlotHolders THEN Cardinality(SlotHolders)
               ELSE Cardinality(SlotHolders) + 1
      BY <1>1, FS_AddElement
    <3> QED
      BY <1>1, <3>1
  <2>3. Cardinality(fetching) <= Cardinality(SlotHolders \cup {next})
    BY <2>1, <2>2, FS_Subset
  <2> QED
    BY <1>1, <2>1, <2>2, <2>3 DEF FetchBound
<1> QED
  BY <1>2, <1>3

(* "Only allow three concurrent requests", for a limiter of any capacity.   *)
THEOREM FetchesAreBounded == Spec => []FetchBound
  BY FetchesBounded, PoolInvariant, PTL

(* Whoever the dispatcher waits for, a slot, a goroutine or its own call of *)
(* get, it is one that has a step to take or is fetching.                   *)
LEMMA PoolMoves ==
    ASSUME IInv, dpc # "returned"
    PROVE  \/ DispatcherMoves
           \/ \E i \in Members : MemberMoves(i) \/ thread[i] = "fetching"
<1> USE DEF IInv
<1>1. ASSUME NEW i \in Members, Spawned(i), thread[i] \notin {"none", "exited"}
      PROVE  MemberMoves(i) \/ thread[i] = "fetching"
  BY <1>1 DEF MemberMoves, TypeOK
<1>2. CASE dpc = "loop"
  BY <1>2 DEF DispatcherMoves
<1>3. CASE dpc = "select"
  <2>1. CASE limiter < LimiterCap
    BY <1>3, <2>1 DEF DispatcherMoves
  <2>2. CASE ~(limiter < LimiterCap)
    <3>1. limiter # 0
      BY <2>2 DEF TypeOK
    <3>2. PICK i \in Members : i \in SlotHolders
      BY <3>1, FS_EmptySet DEF CountersExact, SlotHolders
    <3> QED
      BY <1>1, <3>2 DEF SlotHolders
  <2> QED
    BY <2>1, <2>2
<1>4. CASE dpc = "sync"
  <2>1. CASE next > N
    BY <1>4, <2>1 DEF DispatcherMoves
  <2>2. CASE next <= N
    <3>1. next \in Members
      BY <2>2 DEF TypeOK
    <3>2. thread[next] \in {"none", "called", "fetching", "got"}
      BY <1>4, <3>1 DEF Phases
    <3> QED
      BY <1>4, <3>1, <3>2 DEF DispatcherMoves, MemberMoves
  <2> QED
    BY <2>1, <2>2 DEF TypeOK
<1>5. CASE dpc = "wait"
  <2>1. CASE wg = 0
    BY <1>5, <2>1 DEF DispatcherMoves
  <2>2. CASE wg # 0
    <3>1. PICK i \in Members : i \in Running
      BY <2>2, FS_EmptySet DEF CountersExact, Running
    <3>2. thread[i] # "none"
      BY <3>1 DEF Running, Phases, Spawned
    <3> QED
      BY <1>1, <3>1, <3>2 DEF Running
  <2> QED
    BY <2>1, <2>2
<1> QED
  BY <1>2, <1>3, <1>4, <1>5 DEF TypeOK

(* However users take and give back the slots of a channel, no more than    *)
(* its capacity hold one: proved of Slot whatever SlotHolders stands for,   *)
(* from the steps of BoundedSlots alone.                                    *)
THEOREM SlotBoundHolds == Slot!Spec => []Slot!SlotBound
<1>0. ASSUME NEW S PROVE /\ Slot!IsFiniteSet(S) <=> IsFiniteSet(S)
                         /\ Slot!Cardinality(S) = Cardinality(S)
  BY DEF Slot!IsFiniteSet, IsFiniteSet, Slot!Cardinality, Cardinality
<1> USE <1>0 DEF Slot!SlotBound
<1>1. Slot!Init => Slot!SlotBound
  BY FS_EmptySet DEF Slot!Init
<1>2. Slot!SlotBound /\ [Slot!Next]_SlotHolders => Slot!SlotBound'
  <2> SUFFICES ASSUME Slot!SlotBound, [Slot!Next]_SlotHolders PROVE Slot!SlotBound'
    OBVIOUS
  <2>1. CASE UNCHANGED SlotHolders
    BY <2>1
  <2>2. IsFiniteSet(SlotHolders) /\ Cardinality(SlotHolders) \in Nat
    BY FS_CardinalityType
  <2>3. ASSUME NEW u \in Members, Slot!Take(u) PROVE Slot!SlotBound'
    <3>1. /\ IsFiniteSet(SlotHolders \cup {u})
          /\ Cardinality(SlotHolders \cup {u}) = Cardinality(SlotHolders) + 1
      BY <2>2, <2>3, FS_AddElement DEF Slot!Take
    <3> QED
      BY <2>2, <2>3, <3>1 DEF Slot!Take
  <2>4. ASSUME NEW u \in Members, Slot!Give(u) PROVE Slot!SlotBound'
    <3>1. /\ IsFiniteSet(SlotHolders \ {u})
          /\ Cardinality(SlotHolders \ {u}) = Cardinality(SlotHolders) - 1
      BY <2>2, <2>4, FS_RemoveElement DEF Slot!Give
    <3> QED
      BY <2>2, <2>4, <3>1 DEF Slot!Give
  <2> QED
    BY <2>1, <2>3, <2>4 DEF Slot!Next
<1> QED
  BY <1>1, <1>2, PTL DEF Slot!Spec

(* The limiter implements the counting semaphore. *)
THEOREM LimiterImplementsSlots == Spec => ImplementsSlots
<1>1. Init => Slot!Init
  BY InitIInv, SetsAreFinite DEF Init, Slot!Init, SlotHolders, Spawned
<1>2. Slot!Cardinality(SlotHolders) = Cardinality(SlotHolders)
  BY DEF Slot!Cardinality, Cardinality
<1>3. IInv /\ [Next]_vars => [Slot!Next]_SlotHolders
  BY <1>2, SlotsStep, NextIsStep DEF IInv, CountersExact, Slot!Next, Slot!Take, Slot!Give
<1> QED
  BY <1>1, <1>3, PoolInvariant, PTL DEF Spec, ImplementsSlots, Slot!Spec

-----------------------------------------------------------------------------
(* How much a call still has to do: what each member and the dispatcher     *)
(* have not yet come to.                                                    *)

(* A get that is at t has s still ahead. *)
Behind(t, s) ==
    \/ t = "none" /\ s \in {"called", "fetching", "got", "released", "exited"}
    \/ t = "called" /\ s \in {"fetching", "got", "released", "exited"}
    \/ t = "fetching" /\ s \in {"got", "released", "exited"}
    \/ t = "got" /\ s \in {"released", "exited"}
    \/ t = "released" /\ s = "exited"

(* The member is still to be looked at by the loop, or its get to come to s; *)
(* and 0 stands for the dispatcher and the context.                         *)
ToDo(i, s) ==
    \/ i \in Members /\ Behind(thread[i], s)
    \/ /\ i \in Members /\ s = "looked" /\ dpc \in {"loop", "select"}
       /\ i > next \/ (i = next /\ dpc = "loop")
    \/ i = 0 /\ s = "decided" /\ dpc \in {"loop", "select"}
    \/ i = 0 /\ s = "wait" /\ dpc \in {"loop", "select", "sync"}
    \/ i = 0 /\ s = "returned" /\ dpc # "returned"
    \/ i = 0 /\ s = "dead" /\ ~ctxDone

Milestones == {"called", "fetching", "got", "released", "exited", "looked", "decided", "wait",
               "returned", "dead"}

Left == {m \in (0..N) \X Milestones : ToDo(m[1], m[2])}

Shorter(T, S) == T \subseteq S /\ T # S

LEMMA SmallerSets ==
    ASSUME NEW S, IsFiniteSet(S), NEW T \in SUBSET S
    PROVE  /\ IsFiniteSet(T) /\ Cardinality(T) \in Nat /\ Cardinality(S) \in Nat
           /\ Cardinality(T) <= Cardinality(S)
           /\ T # S => Cardinality(T) < Cardinality(S)
<1>1. IsFiniteSet(T) /\ Cardinality(T) \in Nat /\ Cardinality(S) \in Nat
  BY FS_Subset, FS_CardinalityType
<1>2. Cardinality(T) <= Cardinality(S) /\ (Cardinality(S) = Cardinality(T) => S = T)
  BY FS_Subset
<1> QED
  BY <1>1, <1>2

LEMMA MilestonesAreFinite == IsFiniteSet(Milestones) /\ Cardinality(Milestones) <= 10
<1> DEFINE f == <<"called", "fetching", "got", "released", "exited", "looked", "decided", "wait",
                  "returned", "dead">>
<1>1. f \in Surjection(1..10, Milestones)
  <2>1. f \in [1..10 -> Milestones]
    BY DEF Milestones
  <2>2. /\ f[1] = "called" /\ f[2] = "fetching" /\ f[3] = "got" /\ f[4] = "released"
        /\ f[5] = "exited" /\ f[6] = "looked" /\ f[7] = "decided" /\ f[8] = "wait"
        /\ f[9] = "returned" /\ f[10] = "dead"
    OBVIOUS
  <2> HIDE DEF f
  <2>3. \A t \in Milestones : \E k \in 1..10 : f[k] = t
    BY <2>2 DEF Milestones
  <2> QED
    BY <2>1, <2>3 DEF Surjection
<1>2. IsFiniteSet(1..10) /\ Cardinality(1..10) = 10
  <2>1. 1 \in Int /\ 10 \in Int /\ ~(1 > 10) /\ 10 - 1 + 1 = 10
    OBVIOUS
  <2> QED
    BY <2>1, FS_Interval
<1> QED
  BY <1>1, <1>2, FS_Surjection

LEMMA LeftShrinks ==
    ASSUME \A i \in 0..N : \A s \in Milestones : ToDo(i, s)' => ToDo(i, s),
           NEW j \in 0..N, NEW t \in Milestones, ToDo(j, t), ~ToDo(j, t)'
    PROVE  Shorter(Left', Left)
<1>1. <<j, t>> \in Left /\ <<j, t>> \notin Left'
  BY DEF Left
<1>2. Left' \subseteq Left
  BY DEF Left
<1> QED
  BY <1>1, <1>2 DEF Shorter

(* A get goes on, and nothing else does. *)
LEMMA MemberGoesOn ==
    ASSUME IInv, NEW i \in Members, NEW to, Goto(i, to), Behind(thread[i], to),
           UNCHANGED <<ctxDone, dpc, next>>
    PROVE  Shorter(Left', Left)
<1>1. to \in Milestones /\ ~Behind(to, to)
  BY DEF Behind, Milestones
<1>2. \A s : Behind(to, s) => Behind(thread[i], s)
  BY DEF Behind
<1>3. thread'[i] = to /\ \A j \in Members \ {i} : thread'[j] = thread[j]
  BY DEF Goto, IInv, TypeOK
<1>4. ASSUME NEW j \in 0..N, NEW s \in Milestones, ToDo(j, s)' PROVE ToDo(j, s)
  <2>1. CASE j \in Members /\ Behind(thread'[j], s)
    <3>1. Behind(thread[j], s)
      BY <1>2, <1>3, <2>1
    <3> QED
      BY <2>1, <3>1 DEF ToDo
  <2>2. CASE ~(j \in Members /\ Behind(thread'[j], s))
    BY <1>4, <2>2 DEF ToDo, Behind
  <2> QED
    BY <2>1, <2>2
<1>5. ToDo(i, to) /\ ~ToDo(i, to)'
  <2>1. to \notin {"looked", "decided", "wait", "returned", "dead"}
    BY DEF Behind
  <2>2. ToDo(i, to)
    BY DEF ToDo
  <2>3. ~Behind(thread'[i], to)
    BY <1>1, <1>3
  <2>4. ~ToDo(i, to)'
    BY <2>1, <2>3 DEF ToDo, Behind
  <2> QED
    BY <2>2, <2>4
<1>6. i \in 0..N
  OBVIOUS
<1> QED
  BY <1>1, <1>4, <1>5, <1>6, LeftShrinks

LEMMA StepIsProgress == IInv /\ Step => Shorter(Left', Left)
<1> SUFFICES ASSUME IInv, Step PROVE Shorter(Left', Left)
  OBVIOUS
<1> USE DEF IInv
<1>1. CASE Loop
  <2>1. \A i \in 0..N : \A s \in Milestones : ToDo(i, s)' => ToDo(i, s)
    BY <1>1 DEF Loop, ToDo
  <2>2. CASE next <= N /\ ~ctxDone
    <3>1. PICK j \in Members : j = next
      BY <2>2 DEF TypeOK
    <3>2. ToDo(j, "looked") /\ ~ToDo(j, "looked")' /\ j \in 0..N
      BY <1>1, <2>2, <3>1 DEF Loop, ToDo, TypeOK, Behind
    <3> QED
      BY <2>1, <3>2, LeftShrinks DEF Milestones
  <2>3. CASE ~(next <= N /\ ~ctxDone)
    <3>1. ToDo(0, "decided") /\ ~ToDo(0, "decided")'
      BY <1>1, <2>3 DEF Loop, ToDo, TypeOK
    <3> QED
      BY <2>1, <3>1, LeftShrinks DEF Milestones
  <2> QED
    BY <2>2, <2>3
<1>2. CASE SelectDone
  <2>1. 0 \in 0..N
    BY <1>2 DEF SelectDone, TypeOK
  <2>2. \A i \in 0..N : \A s \in Milestones : ToDo(i, s)' => ToDo(i, s)
    BY <1>2 DEF SelectDone, ToDo, TypeOK
  <2>3. ToDo(0, "decided") /\ ~ToDo(0, "decided")'
    BY <1>2 DEF SelectDone, ToDo, TypeOK
  <2> QED
    BY <2>1, <2>2, <2>3, LeftShrinks DEF Milestones
<1>3. CASE SelectSlot
  <2>1. PICK j \in Members : j = next
    BY <1>3 DEF SelectSlot, TypeOK, Phases
  <2>2. /\ thread'[j] = "called" /\ thread[j] = "none"
        /\ \A i \in Members \ {j} : thread'[i] = thread[i]
        /\ next' = j + 1 /\ UNCHANGED ctxDone
        /\ dpc = "select" /\ dpc' = "loop"
    BY <1>3, <2>1 DEF SelectSlot, Goto, TypeOK, Phases
  <2>3. \A i \in 0..N : \A s \in Milestones : ToDo(i, s)' => ToDo(i, s)
    BY <2>1, <2>2 DEF ToDo, Behind
  <2>4. ToDo(j, "called") /\ ~ToDo(j, "called")' /\ j \in 0..N
    BY <2>1, <2>2 DEF ToDo, Behind
  <2> QED
    BY <2>3, <2>4, LeftShrinks DEF Milestones
<1>4. CASE SyncCall
  <2>1. next \in Members
    BY <1>4 DEF SyncCall, TypeOK
  <2>2. Goto(next, "called") /\ Behind(thread[next], "called") /\ UNCHANGED <<ctxDone, dpc, next>>
    BY <1>4 DEF SyncCall, Behind
  <2> QED
    BY <2>1, <2>2, MemberGoesOn
<1>5. CASE SyncReturn
  <2>1. PICK j \in Members : j = next
    BY <1>5 DEF SyncReturn, TypeOK, Phases
  <2>2. /\ thread'[j] = "exited" /\ thread[j] = "got"
        /\ \A i \in Members \ {j} : thread'[i] = thread[i]
        /\ next' = j + 1 /\ UNCHANGED ctxDone
        /\ dpc = "sync" /\ dpc' = "sync"
    BY <1>5, <2>1 DEF SyncReturn, Goto, TypeOK, Phases
  <2>3. \A i \in 0..N : \A s \in Milestones : ToDo(i, s)' => ToDo(i, s)
    BY <2>1, <2>2 DEF ToDo, Behind
  <2>4. ToDo(j, "exited") /\ ~ToDo(j, "exited")' /\ j \in 0..N
    BY <2>1, <2>2 DEF ToDo, Behind
  <2> QED
    BY <2>3, <2>4, LeftShrinks DEF Milestones
<1>6. CASE SyncEnd
  <2>1. 0 \in 0..N
    BY <1>6 DEF SyncEnd, TypeOK
  <2>2. \A i \in 0..N : \A s \in Milestones : ToDo(i, s)' => ToDo(i, s)
    BY <1>6 DEF SyncEnd, ToDo, TypeOK
  <2>3. ToDo(0, "wait") /\ ~ToDo(0, "wait")'
    BY <1>6 DEF SyncEnd, ToDo, TypeOK
  <2> QED
    BY <2>1, <2>2, <2>3, LeftShrinks DEF Milestones
<1>7. CASE Wait
  <2>1. 0 \in 0..N
    BY <1>7 DEF Wait, TypeOK
  <2>2. \A i \in 0..N : \A s \in Milestones : ToDo(i, s)' => ToDo(i, s)
    BY <1>7 DEF Wait, ToDo, TypeOK
  <2>3. ToDo(0, "returned") /\ ~ToDo(0, "returned")'
    BY <1>7 DEF Wait, ToDo, TypeOK
  <2> QED
    BY <2>1, <2>2, <2>3, LeftShrinks DEF Milestones
<1>8. CASE Cancel
  <2>1. 0 \in 0..N
    BY <1>8 DEF Cancel, TypeOK
  <2>2. \A i \in 0..N : \A s \in Milestones : ToDo(i, s)' => ToDo(i, s)
    BY <1>8 DEF Cancel, ToDo, TypeOK
  <2>3. ToDo(0, "dead") /\ ~ToDo(0, "dead")'
    BY <1>8 DEF Cancel, ToDo, TypeOK
  <2> QED
    BY <2>1, <2>2, <2>3, LeftShrinks DEF Milestones
<1>9. ASSUME NEW i \in Members, GetBegin(i) PROVE Shorter(Left', Left)
  <2>1. PICK to \in {"fetching", "got"} : Goto(i, to)
    BY <1>9 DEF GetBegin, TypeOK, AllKinds
  <2>2. Behind(thread[i], to) /\ UNCHANGED <<ctxDone, dpc, next>>
    BY <1>9 DEF GetBegin, Behind
  <2> QED
    BY <2>1, <2>2, MemberGoesOn
<1>10. ASSUME NEW i \in Members, Delivered(i) PROVE Shorter(Left', Left)
  <2>1. Goto(i, "got") /\ Behind(thread[i], "got") /\ UNCHANGED <<ctxDone, dpc, next>>
    BY <1>10 DEF Delivered, Behind
  <2> QED
    BY <2>1, MemberGoesOn
<1>11. ASSUME NEW i \in Members, FreeSlot(i) PROVE Shorter(Left', Left)
  <2>1. Goto(i, "released") /\ Behind(thread[i], "released") /\ UNCHANGED <<ctxDone, dpc, next>>
    BY <1>11 DEF FreeSlot, Behind
  <2> QED
    BY <2>1, MemberGoesOn
<1>12. ASSUME NEW i \in Members, Done(i) PROVE Shorter(Left', Left)
  <2>1. Goto(i, "exited") /\ Behind(thread[i], "exited") /\ UNCHANGED <<ctxDone, dpc, next>>
    BY <1>12 DEF Done, Behind
  <2> QED
    BY <2>1, MemberGoesOn
<1> QED
  BY <1>1, <1>2, <1>3, <1>4, <1>5, <1>6, <1>7, <1>8, <1>9, <1>10, <1>11, <1>12
     DEF Step, Dispatch

LEMMA LeftIsFinite == IsFiniteSet(Left) /\ Cardinality(Left) <= 10 * (N + 1)
<1>1. IsFiniteSet(0..N) /\ Cardinality(0..N) = N + 1
  BY FS_Interval
<1>2. /\ IsFiniteSet((0..N) \X Milestones)
      /\ Cardinality((0..N) \X Milestones) = (N + 1) * Cardinality(Milestones)
  BY <1>1, MilestonesAreFinite, FS_Product
<1>3. (N + 1) * Cardinality(Milestones) <= 10 * (N + 1)
  <2>1. Cardinality(Milestones) \in Nat /\ Cardinality(Milestones) <= 10
    BY MilestonesAreFinite, FS_CardinalityType
  <2> QED
    BY <2>1
<1>4. Left \in SUBSET ((0..N) \X Milestones)
  BY DEF Left
<1>5. /\ IsFiniteSet(Left) /\ Cardinality(Left) \in Nat
      /\ Cardinality(Left) <= Cardinality((0..N) \X Milestones)
      /\ Cardinality((0..N) \X Milestones) \in Nat
  BY <1>2, <1>4, SmallerSets
<1> QED
  BY <1>2, <1>3, <1>5

LEMMA ShorterIsLess ==
    ASSUME NEW S, IsFiniteSet(S), NEW T, Shorter(T, S)
    PROVE  /\ Cardinality(T) < Cardinality(S)
           /\ Cardinality(T) \in Nat /\ Cardinality(S) \in Nat
  BY SmallerSets DEF Shorter

(* Every step of CollectResourceCollection brings its call nearer to the    *)
(* end, the death of the context included, and a call takes no more than    *)
(* 10(N + 1) of them: no member is given back to the loop, no get repeated. *)
THEOREM CallsGetShorter ==
    Spec => /\ [](Cardinality(Left) <= 10 * (N + 1))
            /\ [][Cardinality(Left') < Cardinality(Left)]_vars
<1>1. IInv /\ [Next]_vars => [Cardinality(Left') < Cardinality(Left)]_vars
  BY NextIsStep, StepIsProgress, LeftIsFinite, ShorterIsLess
<1>2. Cardinality(Left) <= 10 * (N + 1)
  BY LeftIsFinite
<1> QED
  BY <1>1, <1>2, PoolInvariant, PTL DEF Spec

-----------------------------------------------------------------------------
(* ObjectsFetch: a pool whose results go over a channel. *)

(* The members whose get is past the send on the channel. *)
Past == {i \in Members : thread[i] \in {"got", "released", "exited"}}

RendezvousOK ==
    /\ pending \in [Members -> Entries]
    /\ received \in Seq(Entries)
    /\ chan \in {"none", "open", "closed"}
    /\ caller \in {"pool", "range", "returned"}

(* What is sent is the outcome of the fetch, and what was received are the  *)
(* outcomes of the members past their send, one each.                       *)
Exchanged ==
    /\ \A i \in Members : pending[i] \in {Zero, Item(i), Failed(i)}
    /\ chan = "none" => \A i \in Members : pending[i] = Zero
    /\ chan # "none" => /\ \A i \in Members : kind[i] = "link"
                        /\ Len(received) = Cardinality(Past)
                        /\ \A i \in Past : \E k \in 1..Len(received) :
                               received[k] \in {Item(i), Failed(i)}

(* The channel is closed after the pool is done, and ranged over until then. *)
Closing ==
    /\ chan = "none" <=> caller = "pool"
    /\ chan = "closed" => dpc = "returned"
    /\ caller = "returned" => chan = "closed"

ObjectsInv == IInv /\ RendezvousOK /\ Exchanged /\ Closing

LEMMA InitObjectsInv == ObjectsInit => ObjectsInv
<1> SUFFICES ASSUME ObjectsInit PROVE ObjectsInv
  OBVIOUS
<1>1. IInv
  BY InitIInv DEF ObjectsInit
<1>2. RendezvousOK /\ Closing
  BY EntryTypes DEF ObjectsInit, RendezvousOK, Closing, Init
<1>3. Past = {}
  BY DEF ObjectsInit, Init, Past
<1>4. Exchanged
  BY <1>3, FS_EmptySet DEF ObjectsInit, Exchanged
<1> QED
  BY <1>1, <1>2, <1>4 DEF ObjectsInv

LEMMA ObjectsNextIsStep == ObjectsInv /\ [ObjectsNext]_objectsVars => [Step]_vars
<1> SUFFICES ASSUME ObjectsInv, [ObjectsNext]_objectsVars PROVE [Step]_vars
  OBVIOUS
<1>1. CASE PoolStep
  BY <1>1 DEF PoolStep, Step, Fetched, GetObject, GetFails, Delivered
<1>2. ASSUME NEW i \in Members, Receive(i) PROVE Delivered(i)
  BY <1>2 DEF Receive, ObjectsInv, Exchanged, Delivered
<1>3. CASE CloseChannel \/ RangeEnds \/ \E i \in Members : FetchEnds(i)
  BY <1>3 DEF CloseChannel, RangeEnds, FetchEnds
<1> QED
  BY <1>1, <1>2, <1>3 DEF ObjectsNext, objectsVars, Step

(* A step that neither sends nor receives leaves what has been exchanged. *)
LEMMA PastKept ==
    ASSUME ObjectsInv, PoolStep, chan # "none" PROVE Past' = Past
<1> USE DEF ObjectsInv, IInv, TypeOK, Goto, Past
<1>1. CASE Loop \/ SelectDone \/ SelectSlot \/ SyncCall
  BY <1>1 DEF Loop, SelectDone, SelectSlot, SyncCall, Phases
<1>2. CASE SyncReturn \/ SyncEnd \/ Wait \/ Cancel
  BY <1>2 DEF SyncReturn, SyncEnd, Wait, Cancel
<1>3. ASSUME NEW i \in Members, GetBegin(i) PROVE Past' = Past
  BY <1>3 DEF GetBegin, Exchanged
<1>4. ASSUME NEW i \in Members, FreeSlot(i) \/ Done(i) PROVE Past' = Past
  BY <1>4 DEF FreeSlot, Done
<1> QED
  BY <1>1, <1>2, <1>3, <1>4 DEF PoolStep, Dispatch

LEMMA ExchangedStep == ObjectsInv /\ [ObjectsNext]_objectsVars => Exchanged' /\ RendezvousOK'
<1> SUFFICES ASSUME ObjectsInv, [ObjectsNext]_objectsVars PROVE Exchanged' /\ RendezvousOK'
  OBVIOUS
<1>0. kind' = kind
  BY DEF ObjectsNext, objectsVars, vars, PoolStep, Dispatch, Loop, SelectDone, SelectSlot, SyncCall,
         SyncReturn, SyncEnd, Wait, Cancel, GetBegin, FreeSlot, Done, Fetched, GetObject,
         GetFails, CloseChannel, RangeEnds, FetchEnds, Receive
<1> USE <1>0 DEF ObjectsInv, RendezvousOK, Exchanged
<1>1. CASE UNCHANGED objectsVars
  BY <1>1 DEF objectsVars, rendezvous, vars, Past
<1>2. CASE PoolStep
  BY <1>2, PastKept DEF PoolStep, rendezvous
<1>3. CASE CloseChannel \/ RangeEnds
  BY <1>3 DEF CloseChannel, RangeEnds, vars, Past
<1>4. ASSUME NEW i \in Members, FetchEnds(i) PROVE Exchanged' /\ RendezvousOK'
  BY <1>4, EntryTypes DEF FetchEnds, vars, Past
<1>5. ASSUME NEW i \in Members, Receive(i) PROVE Exchanged' /\ RendezvousOK'
  <2>1. i \notin Past /\ Past' = Past \cup {i}
    BY <1>5 DEF Receive, Goto, Past, IInv, TypeOK
  <2>2. chan # "none"
    BY <1>5 DEF Receive, Closing
  <2>3. /\ received' = Append(received, pending[i]) /\ UNCHANGED <<pending, chan, caller>>
        /\ pending[i] \in {Item(i), Failed(i)} /\ pending[i] \in Entries
    BY <1>5 DEF Receive
  <2>4. /\ received' \in Seq(Entries) /\ Len(received') = Len(received) + 1 /\ Len(received) \in Nat
        /\ received'[Len(received')] = pending[i]
        /\ \A k \in 1..Len(received) : received'[k] = received[k]
    BY <2>3
  <2>5. Cardinality(Past') = Cardinality(Past) + 1
    <3>1. IsFiniteSet(Past)
      BY SetsAreFinite DEF Past
    <3> QED
      BY <2>1, <3>1, FS_AddElement
  <2>6. ASSUME NEW j \in Past'
        PROVE  \E k \in 1..Len(received') : received'[k] \in {Item(j), Failed(j)}
    <3>1. CASE j = i
      BY <2>3, <2>4, <3>1
    <3>2. CASE j \in Past
      <4>1. PICK k \in 1..Len(received) : received[k] \in {Item(j), Failed(j)}
        BY <2>2, <3>2
      <4>2. k \in 1..Len(received') /\ received'[k] \in {Item(j), Failed(j)}
        BY <2>4, <4>1
      <4> QED
        BY <4>2
    <3> QED
      BY <2>1, <3>1, <3>2
  <2>7. Len(received') = Cardinality(Past')
    BY <2>2, <2>4, <2>5
  <2> QED
    BY <2>2, <2>3, <2>4, <2>6, <2>7
<1> QED
  BY <1>1, <1>2, <1>3, <1>4, <1>5 DEF ObjectsNext

LEMMA ClosingStep == ObjectsInv /\ [ObjectsNext]_objectsVars => Closing'
<1> SUFFICES ASSUME ObjectsInv, [ObjectsNext]_objectsVars PROVE Closing'
  OBVIOUS
<1> USE DEF ObjectsInv, Closing, RendezvousOK
<1>1. CASE UNCHANGED objectsVars
  BY <1>1 DEF objectsVars, rendezvous, vars
<1>2. CASE PoolStep
  <2>1. dpc = "returned" => dpc' = "returned"
    BY <1>2 DEF PoolStep, Dispatch, Loop, SelectDone, SelectSlot, SyncCall, SyncReturn, SyncEnd,
                Wait, Cancel, GetBegin, FreeSlot, Done, Fetched, GetObject, GetFails
  <2> QED
    BY <1>2, <2>1 DEF PoolStep, rendezvous
<1>3. CASE CloseChannel \/ RangeEnds
  BY <1>3 DEF CloseChannel, RangeEnds, vars
<1>4. ASSUME NEW i \in Members, FetchEnds(i) \/ Receive(i) PROVE Closing'
  BY <1>4 DEF FetchEnds, Receive, vars
<1> QED
  BY <1>1, <1>2, <1>3, <1>4 DEF ObjectsNext

THEOREM ObjectsInvariant == ObjectsSpec => []ObjectsInv
<1>1. ObjectsInv /\ [ObjectsNext]_objectsVars => ObjectsInv'
  <2> SUFFICES ASSUME ObjectsInv, [ObjectsNext]_objectsVars PROVE ObjectsInv'
    OBVIOUS
  <2>1. IInv'
    BY ObjectsNextIsStep, StepKeepsIInv DEF ObjectsInv
  <2> QED
    BY <2>1, ExchangedStep, ClosingStep DEF ObjectsInv
<1> QED
  BY <1>1, InitObjectsInv, PTL DEF ObjectsSpec

(* The pool keeps all it promises when its results go over a channel, which *)
(* delays the end of a get and can outlast the context it was called under. *)
THEOREM PoolServesObjects ==
    ObjectsSpec => /\ [](EveryMemberOnce /\ OrderedOutcome /\ CountersExact /\ FetchBound)
                   /\ NoLateResult
<1>1. ObjectsInv => IInv /\ EveryMemberOnce /\ OrderedOutcome /\ CountersExact /\ FetchBound
  BY MembersOnce, OutcomeIsOrdered, FetchesBounded DEF ObjectsInv, IInv
<1> QED
  BY <1>1, ObjectsInvariant, ObjectsNextIsStep, ReturnedIsFinal, PTL DEF ObjectsSpec, NoLateResult

(* When the range over the channel ends, one outcome of each link has come  *)
(* through it, and no goroutine is left to block on a send.                 *)
THEOREM LinksAreReceived == ObjectsSpec => []EveryLinkReceived
<1>1. ASSUME ObjectsInv PROVE EveryLinkReceived
  <2> SUFFICES ASSUME caller = "returned"
               PROVE  /\ Len(received) = N
                      /\ \A i \in Members : \E k \in 1..N : received[k] \in {Item(i), Failed(i)}
                      /\ \A i \in Members : thread[i] = "exited"
    BY DEF EveryLinkReceived
  <2>1. chan # "none" /\ dpc = "returned"
    BY <1>1 DEF ObjectsInv, Closing
  <2>2. \A i \in Members : thread[i] = "exited"
    BY <1>1, <2>1 DEF ObjectsInv, IInv, Quiet
  <2>3. Past = Members
    BY <2>2 DEF Past
  <2>4. Cardinality(Members) = N
    BY FS_Interval
  <2> QED
    BY <1>1, <2>1, <2>2, <2>3, <2>4 DEF ObjectsInv, Exchanged
<1> QED
  BY <1>1, ObjectsInvariant, PTL

(* Until the call of GetObjects is over somebody has a step to take: the    *)
(* dispatcher, a goroutine, the one that closes the channel or its reader,  *)
(* unless all that is waited for is the service.                            *)
THEOREM ObjectsNeverStuck == ObjectsSpec => []NeverStuck
<1>1. ASSUME ObjectsInv PROVE NeverStuck
  <2> USE DEF ObjectsInv, RendezvousOK, Closing
  <2>1. CASE dpc = "returned"
    BY <1>1, <2>1 DEF NeverStuck
  <2>2. CASE dpc # "returned"
    <3>1. ASSUME NEW i \in Members, thread[i] = "fetching"
          PROVE  pending[i] = Zero \/ caller = "range" \/ chan = "none"
      BY <1>1, <2>2
    <3>2. chan = "none" => \A i \in Members : pending[i] = Zero
      BY <1>1 DEF Exchanged
    <3> QED
      BY <1>1, <2>2, <3>1, <3>2, PoolMoves DEF NeverStuck
  <2> QED
    BY <2>1, <2>2
<1> QED
  BY <1>1, ObjectsInvariant, PTL

(* What is left of the exchange: the outcomes of the fetches, the close of  *)
(* the channel and the end of the range over it.                            *)
ToExchange(i, s) ==
    \/ i \in Members /\ s = "fetched" /\ pending[i] = Zero
    \/ i = 0 /\ s = "closed" /\ chan = "open"
    \/ i = 0 /\ s = "ranged" /\ caller = "range"

ExchangeLeft == {m \in (0..N) \X {"fetched", "closed", "ranged"} : ToExchange(m[1], m[2])}

LEMMA ExchangeLeftIsFinite == IsFiniteSet(ExchangeLeft)
<1>1. IsFiniteSet(0..N)
  BY FS_Interval
<1>2. IsFiniteSet({"fetched", "closed", "ranged"})
  <2>1. IsFiniteSet({"fetched"})
    BY FS_Singleton
  <2>2. IsFiniteSet({"fetched"} \cup {"closed"})
    BY <2>1, FS_AddElement
  <2>3. IsFiniteSet(({"fetched"} \cup {"closed"}) \cup {"ranged"})
    BY <2>2, FS_AddElement
  <2>4. ({"fetched"} \cup {"closed"}) \cup {"ranged"} = {"fetched", "closed", "ranged"}
    OBVIOUS
  <2> QED
    BY <2>3, <2>4
<1>3. IsFiniteSet((0..N) \X {"fetched", "closed", "ranged"})
  BY <1>1, <1>2, FS_Product
<1> QED
  BY <1>3, FS_Subset DEF ExchangeLeft

LEMMA ObjectsProgress ==
    ASSUME ObjectsInv, ObjectsNext
    PROVE  \/ Shorter(Left', Left) /\ ExchangeLeft' = ExchangeLeft
           \/ Left' = Left /\ Shorter(ExchangeLeft', ExchangeLeft)
<1>1. CASE PoolStep
  <2>1. Step
    BY <1>1 DEF PoolStep, Step, Fetched, GetObject, GetFails, Delivered
  <2>2. ExchangeLeft' = ExchangeLeft
    BY <1>1 DEF PoolStep, rendezvous, ExchangeLeft, ToExchange
  <2> QED
    BY <2>1, <2>2, StepIsProgress DEF ObjectsInv
<1>2. ASSUME NEW i \in Members, Receive(i)
      PROVE  Shorter(Left', Left) /\ ExchangeLeft' = ExchangeLeft
  <2>1. Step
    BY <1>2 DEF Receive, ObjectsInv, Exchanged, Delivered, Step
  <2>2. ExchangeLeft' = ExchangeLeft
    BY <1>2 DEF Receive, ExchangeLeft, ToExchange
  <2> QED
    BY <2>1, <2>2, StepIsProgress DEF ObjectsInv
<1>3. ASSUME UNCHANGED vars PROVE Left' = Left
  BY <1>3 DEF vars, Left, ToDo
<1>4. CASE CloseChannel
  <2>1. <<0, "closed">> \in ExchangeLeft /\ <<0, "closed">> \notin ExchangeLeft'
    BY <1>4 DEF CloseChannel, ExchangeLeft, ToExchange
  <2>2. ExchangeLeft' \subseteq ExchangeLeft
    BY <1>4 DEF CloseChannel, ExchangeLeft, ToExchange
  <2> QED
    BY <1>3, <1>4, <2>1, <2>2 DEF CloseChannel, Shorter
<1>5. CASE RangeEnds
  <2>1. <<0, "ranged">> \in ExchangeLeft /\ <<0, "ranged">> \notin ExchangeLeft'
    BY <1>5 DEF RangeEnds, ExchangeLeft, ToExchange
  <2>2. ExchangeLeft' \subseteq ExchangeLeft
    BY <1>5 DEF RangeEnds, ExchangeLeft, ToExchange
  <2> QED
    BY <1>3, <1>5, <2>1, <2>2 DEF RangeEnds, Shorter
<1>6. ASSUME NEW i \in Members, FetchEnds(i)
      PROVE  Left' = Left /\ Shorter(ExchangeLeft', ExchangeLeft)
  <2>1. /\ pending[i] = Zero /\ pending'[i] # Zero
        /\ \A j \in Members \ {i} : pending'[j] = pending[j]
        /\ UNCHANGED <<vars, chan, caller>>
    BY <1>6 DEF FetchEnds, Zero, Item, Failed, ObjectsInv, RendezvousOK
  <2>2. <<i, "fetched">> \in ExchangeLeft /\ <<i, "fetched">> \notin ExchangeLeft'
    BY <2>1 DEF ExchangeLeft, ToExchange
  <2>3. ExchangeLeft' \subseteq ExchangeLeft
    BY <2>1 DEF ExchangeLeft, ToExchange
  <2> QED
    BY <1>3, <2>1, <2>2, <2>3 DEF Shorter
<1> QED
  BY <1>1, <1>2, <1>4, <1>5, <1>6 DEF ObjectsNext

(* The same of GetObjects: together with ObjectsNeverStuck, when every      *)
(* fetch ends the call does, for any number of links and slots.             *)
THEOREM ObjectsGetShorter ==
    ObjectsSpec => [][Cardinality(Left') + Cardinality(ExchangeLeft') <
                          Cardinality(Left) + Cardinality(ExchangeLeft)]_objectsVars
<1>1. ASSUME ObjectsInv, ObjectsNext
      PROVE  Cardinality(Left') + Cardinality(ExchangeLeft') <
                 Cardinality(Left) + Cardinality(ExchangeLeft)
  <2>1. Cardinality(Left) \in Nat /\ Cardinality(ExchangeLeft) \in Nat
    BY LeftIsFinite, ExchangeLeftIsFinite, FS_CardinalityType
  <2>2. CASE Shorter(Left', Left) /\ ExchangeLeft' = ExchangeLeft
    <3>1. Cardinality(Left') < Cardinality(Left) /\ Cardinality(Left') \in Nat
      BY <2>2, LeftIsFinite, ShorterIsLess
    <3> QED
      BY <2>1, <2>2, <3>1
  <2>3. CASE Left' = Left /\ Shorter(ExchangeLeft', ExchangeLeft)
    <3>1. /\ Cardinality(ExchangeLeft') < Cardinality(ExchangeLeft)
          /\ Cardinality(ExchangeLeft') \in Nat
      BY <2>3, ExchangeLeftIsFinite, ShorterIsLess
    <3> QED
      BY <2>1, <2>3, <3>1
  <2> QED
    BY <1>1, <2>2, <2>3, ObjectsProgress
<1> QED
  BY <1>1, ObjectsInvariant, PTL DEF ObjectsSpec

-----------------------------------------------------------------------------
(* CollectionFetch: a pool whose fetches go through the request pipeline.  *)

Clients == Members \cup Others

ClientOK ==
    Client!TypeOK /\ Client!PermitsConserved /\ Client!BodyDiscipline /\ ~dumping

(* A member's request is under way only while its get is fetching. *)
Linked == \A i \in Members :
    thread[i] # "fetching" => pc[i] \notin InPipeline /\ body[i] # "open"

(* The request of a member is made when its get begins to fetch, and ends   *)
(* with a failure or with a body that is there for get to close.            *)
Matched == \A i \in Members :
    /\ method[i] = "OTHER"
    /\ thread[i] \in {"none", "called"} => pc[i] = "idle"
    /\ thread[i] = "fetching" =>
           \/ pc[i] \in InPipeline \cup {"failed"}
           \/ pc[i] = "returned" /\ body[i] = "open"

(* Before it is inspected no body is closed. *)
Unread == \A r \in Clients :
    pc[r] \in {"idle", "queued", "doing", "answered", "inspecting"} => body[r] # "closed"

FetchInv == IInv /\ ClientOK /\ Linked /\ Matched /\ Unread

(* What the client may do in a step of the composition. *)
ClientNext ==
    \/ \E r \in Clients : Client!Step(r) \/ Client!Cancel({r})
    \/ Client!Cancel(Members)

(* FiniteSets is the same module in APIClient as here. *)
LEMMA ClientCounts ==
    ASSUME NEW S
    PROVE  /\ Client!IsFiniteSet(S) <=> IsFiniteSet(S)
           /\ Client!Cardinality(S) = Cardinality(S)
  BY DEF Client!IsFiniteSet, IsFiniteSet, Client!Cardinality, Cardinality

LEMMA InitFetchInv == FetchInit => FetchInv
<1> SUFFICES ASSUME FetchInit PROVE FetchInv
  OBVIOUS
<1> USE DEF FetchInit, Client!Init
<1>1. IInv
  BY InitIInv
<1>2. Client!TypeOK
  BY DEF Client!TypeOK
<1>3. Client!Holders = {}
  BY DEF Client!Holders
<1>4. Client!PermitsConserved
  BY <1>3, FS_EmptySet, ClientCounts, FetchAssumption DEF Client!PermitsConserved, Client!Permits
<1>5. Linked /\ Client!BodyDiscipline
  BY DEF Linked, InPipeline, Client!BodyDiscipline
<1>6. Matched /\ Unread
  BY DEF Matched, Unread, Clients, Init
<1> QED
  BY <1>1, <1>2, <1>4, <1>5, <1>6 DEF FetchInv, ClientOK

LEMMA FetchIsPool == [FetchNext]_fetchVars => [Next]_vars
  BY DEF FetchNext, fetchVars, LocalStep, CancelFetches, Pipeline, OtherStep, MemberStep, FetchBegin,
         FetchOk, FetchBad, Next, Thread, Fetched

LEMMA FetchIsClient == [FetchNext]_fetchVars => [ClientNext]_clientVars
  BY DEF FetchNext, fetchVars, LocalStep, CancelFetches, Pipeline, OtherStep, MemberStep, FetchBegin,
         FetchOk, FetchBad, ClientNext, Clients, Client!Step

(* What a step does to the set of requests that hold a permit. *)
LEMMA HoldersStep ==
    ASSUME Client!TypeOK, [ClientNext]_clientVars
    PROVE  \/ \E r \in Clients : /\ r \notin Client!Holders /\ Client!Holders' = Client!Holders \cup {r}
                                 /\ sem < Client!Permits /\ sem' = sem + 1
           \/ \E r \in Clients : /\ r \in Client!Holders /\ Client!Holders' = Client!Holders \ {r}
                                 /\ sem' = sem - 1
           \/ Client!Holders' = Client!Holders /\ sem' = sem
<1> USE DEF Clients, Client!TypeOK, Client!Goto, Client!CloseIt, Client!Holders
<1>1. CASE UNCHANGED clientVars
  BY <1>1 DEF clientVars
<1>2. ASSUME NEW r \in Clients, Client!Acquire(r)
      PROVE  /\ r \notin Client!Holders /\ Client!Holders' = Client!Holders \cup {r}
             /\ sem < Client!Permits /\ sem' = sem + 1
  BY <1>2 DEF Client!Acquire
<1>3. ASSUME NEW r \in Clients, Client!Release(r)
      PROVE  r \in Client!Holders /\ Client!Holders' = Client!Holders \ {r} /\ sem' = sem - 1
  BY <1>3 DEF Client!Release
<1>4. ASSUME NEW r \in Clients,
             \/ Client!Build(r) \/ Client!GiveUp(r) \/ Client!Answer(r) \/ Client!DoError(r)
             \/ Client!Inspect(r) \/ Client!Drain(r) \/ Client!Cleanup(r) \/ Client!Cancel({r})
             \/ Client!Cancel(Members)
      PROVE  Client!Holders' = Client!Holders /\ sem' = sem
  BY <1>4 DEF Client!Build, Client!GiveUp, Client!Answer, Client!DoError, Client!Inspect,
              Client!NoResponse, Client!RejectPeer, Client!DumpFails, Client!Deliver,
              Client!ErrorStatus, Client!Drain, Client!Cleanup, Client!Cancel
<1>5. CASE Client!Cancel(Members)
  BY <1>5 DEF Client!Cancel
<1> QED
  BY <1>1, <1>2, <1>3, <1>4, <1>5 DEF ClientNext, Client!Step

LEMMA PermitsStep ==
    ASSUME ClientOK, [ClientNext]_clientVars PROVE Client!PermitsConserved'
<1> Client!Permits \in Nat \ {0}
  BY FetchAssumption DEF Client!Permits
<1> USE ClientCounts DEF ClientOK, Client!PermitsConserved
<1>1. ASSUME NEW r \in Clients, r \notin Client!Holders, Client!Holders' = Client!Holders \cup {r},
             sem < Client!Permits, sem' = sem + 1
      PROVE  Client!PermitsConserved'
  BY <1>1, FS_AddElement, FS_CardinalityType
<1>2. ASSUME NEW r \in Clients, r \in Client!Holders, Client!Holders' = Client!Holders \ {r},
             sem' = sem - 1
      PROVE  Client!PermitsConserved'
  BY <1>2, FS_RemoveElement, FS_CardinalityType
<1>3. CASE Client!Holders' = Client!Holders /\ sem' = sem
  BY <1>3
<1> QED
  BY <1>1, <1>2, <1>3, HoldersStep

LEMMA ClientStep == ASSUME ClientOK, [ClientNext]_clientVars PROVE ClientOK'
<1>1. Client!PermitsConserved'
  BY PermitsStep
<1> USE DEF ClientOK, Clients, Client!BodyDiscipline, Client!TypeOK, Client!Goto, Client!CloseIt, Client!Ended,
            Client!settings
<1> DEFINE Rest == Client!TypeOK' /\ Client!BodyDiscipline' /\ ~dumping'
<1>2. CASE UNCHANGED clientVars
  BY <1>1, <1>2 DEF clientVars
<1>3. ASSUME NEW r \in Clients, Client!Build(r) \/ Client!Acquire(r) \/ Client!GiveUp(r) PROVE Rest
  <2>1. CASE Client!Build(r)
    BY <2>1 DEF Client!Build
  <2>2. CASE Client!Acquire(r)
    BY <2>2 DEF Client!Acquire
  <2>3. CASE Client!GiveUp(r)
    BY <2>3 DEF Client!GiveUp
  <2> QED
    BY <1>3, <2>1, <2>2, <2>3
<1>4. ASSUME NEW r \in Clients, Client!Answer(r) \/ Client!DoError(r) PROVE Rest
  <2>1. CASE Client!Answer(r)
    BY <2>1 DEF Client!Answer
  <2>2. CASE Client!DoError(r)
    BY <2>2 DEF Client!DoError
  <2> QED
    BY <1>4, <2>1, <2>2
<1>5. ASSUME NEW r \in Clients, Client!Release(r) PROVE Rest
  <2>1. sem # 0
    <3>1. r \in Client!Holders
      BY <1>5 DEF Client!Release, Client!Holders
    <3> QED
      BY <3>1, ClientCounts, FS_EmptySet DEF Client!PermitsConserved
  <2> QED
    BY <1>5, <2>1 DEF Client!Release
<1>6. ASSUME NEW r \in Clients, Client!Inspect(r) PROVE Rest
  BY <1>6 DEF Client!Inspect, Client!NoResponse, Client!RejectPeer, Client!DumpFails,
              Client!Deliver, Client!ErrorStatus
<1>7. ASSUME NEW r \in Clients, Client!Drain(r) \/ Client!Cleanup(r) PROVE Rest
  <2>1. CASE Client!Drain(r)
    BY <2>1 DEF Client!Drain
  <2>2. CASE Client!Cleanup(r)
    BY <2>2 DEF Client!Cleanup
  <2> QED
    BY <1>7, <2>1, <2>2
<1>8. ASSUME NEW R \in SUBSET Clients, Client!Cancel(R) PROVE Rest
  BY <1>8 DEF Client!Cancel
<1> QED
  BY <1>1, <1>2, <1>3, <1>4, <1>5, <1>6, <1>7, <1>8 DEF ClientNext, Client!Step

(* The steps on the requests of the members follow those of their threads. *)
LEMMA LinkedStep == FetchInv /\ [FetchNext]_fetchVars => Linked'
<1> SUFFICES ASSUME FetchInv, [FetchNext]_fetchVars PROVE Linked'
  OBVIOUS
<1> USE DEF FetchInv, Linked, InPipeline, Client!TypeOK, Client!Goto, Client!CloseIt
<1>0. thread \in [Members -> {"none", "called", "fetching", "got", "released", "exited"}]
  BY DEF IInv, TypeOK
<1>1. CASE UNCHANGED fetchVars
  BY <1>1 DEF fetchVars, vars, clientVars
<1>2. CASE LocalStep
  <2>1. \A i \in Members : thread'[i] # "fetching" => thread[i] # "fetching"
    <3>1. CASE Dispatch
      BY <1>0, <3>1 DEF Dispatch, Loop, SelectDone, SelectSlot, SyncCall, SyncReturn, SyncEnd, Wait,
                 Goto, IInv, TypeOK, Phases
    <3>2. ASSUME NEW i \in Members, GetBegin(i) \/ FreeSlot(i) \/ Done(i)
          PROVE  \A j \in Members : thread'[j] # "fetching" => thread[j] # "fetching"
      BY <1>0, <3>2 DEF GetBegin, FreeSlot, Done, Goto
    <3> QED
      BY <1>2, <3>1, <3>2 DEF LocalStep
  <2> QED
    BY <1>2, <2>1 DEF LocalStep, clientVars
<1>3. CASE CancelFetches
  BY <1>3 DEF CancelFetches, Cancel, Client!Cancel
<1>4. ASSUME NEW r \in Clients, Pipeline(r) PROVE Linked'
  <2>1. UNCHANGED thread /\ pc[r] \in InPipeline
    BY <1>4 DEF Pipeline, vars, Client!Acquire, Client!GiveUp, Client!Answer, Client!DoError,
                Client!Release, Client!Inspect, Client!Drain
  <2>2. \A q \in Clients \ {r} : pc'[q] = pc[q] /\ body'[q] = body[q]
    BY <1>4 DEF Clients, ClientOK, Pipeline, Client!Acquire, Client!GiveUp, Client!Answer, Client!DoError,
                Client!Release, Client!Inspect, Client!NoResponse, Client!RejectPeer,
                Client!DumpFails, Client!Deliver, Client!ErrorStatus, Client!Drain
  <2> QED
    BY <2>1, <2>2 DEF Clients
<1>5. ASSUME NEW r \in Others, OtherStep(r) PROVE Linked'
  <2>1. UNCHANGED thread /\ \A i \in Members : pc'[i] = pc[i] /\ body'[i] = body[i]
    BY <1>5, FetchAssumption DEF OtherStep, vars, ClientOK, Client!Build, Client!Cleanup, Client!Cancel
  <2> QED
    BY <2>1
<1>6. ASSUME NEW i \in Members, MemberStep(i) PROVE Linked'
  <2>1. CASE FetchBegin(i)
    <3>1. thread' = [thread EXCEPT ![i] = "fetching"] /\ UNCHANGED body
      BY <2>1 DEF FetchBegin, GetBegin, Goto, Client!Build
    <3>2. \A j \in Members \ {i} : pc'[j] = pc[j]
      BY <2>1 DEF FetchBegin, Client!Build, ClientOK
    <3> QED
      BY <1>0, <3>1, <3>2
  <2>2. CASE FetchOk(i) \/ FetchBad(i)
    <3>1. thread' = [thread EXCEPT ![i] = "got"] /\ UNCHANGED pc
      BY <2>2 DEF FetchOk, FetchBad, GetObject, GetFails, Goto, Client!Cleanup, clientVars
    <3>2. pc[i] \in {"returned", "failed"} /\ body'[i] # "open"
      BY <2>2 DEF FetchOk, FetchBad, Client!Cleanup, clientVars, ClientOK, Client!BodyDiscipline
    <3>3. \A j \in Members \ {i} : body'[j] = body[j]
      BY <2>2 DEF FetchOk, FetchBad, Client!Cleanup, clientVars, ClientOK
    <3> QED
      BY <1>0, <3>1, <3>2, <3>3
  <2> QED
    BY <1>6, <2>1, <2>2 DEF MemberStep
<1> QED
  BY <1>1, <1>2, <1>3, <1>4, <1>5, <1>6 DEF FetchNext, Clients

LEMMA UnreadStep == ASSUME ClientOK, Unread, [ClientNext]_clientVars PROVE Unread'
<1> USE DEF Unread, Clients, ClientOK, Client!TypeOK, Client!Goto, Client!CloseIt
<1>1. CASE UNCHANGED clientVars
  BY <1>1 DEF clientVars
<1>2. ASSUME NEW r \in Clients, Client!Build(r) \/ Client!Acquire(r) \/ Client!GiveUp(r) PROVE Unread'
  BY <1>2 DEF Client!Build, Client!Acquire, Client!GiveUp
<1>3. ASSUME NEW r \in Clients, Client!Answer(r) \/ Client!DoError(r) \/ Client!Release(r)
      PROVE  Unread'
  BY <1>3 DEF Client!Answer, Client!DoError, Client!Release
<1>4. ASSUME NEW r \in Clients, Client!Inspect(r) PROVE Unread'
  BY <1>4 DEF Client!Inspect, Client!NoResponse, Client!RejectPeer, Client!DumpFails,
              Client!Deliver, Client!ErrorStatus
<1>5. ASSUME NEW r \in Clients, Client!Drain(r) \/ Client!Cleanup(r) PROVE Unread'
  BY <1>5 DEF Client!Drain, Client!Cleanup
<1>6. ASSUME NEW R \in SUBSET Clients, Client!Cancel(R) PROVE Unread'
  BY <1>6 DEF Client!Cancel
<1> QED
  BY <1>1, <1>2, <1>3, <1>4, <1>5, <1>6 DEF ClientNext, Client!Step

(* What the pipeline does to the request of a member it has. *)
LEMMA PipelineMatches ==
    ASSUME FetchInv, NEW i \in Members, Pipeline(i)
    PROVE  \/ pc'[i] \in InPipeline \cup {"failed"}
           \/ pc'[i] = "returned" /\ body'[i] = "open"
<1> USE DEF FetchInv, ClientOK, Client!TypeOK, Client!Goto, Client!CloseIt, InPipeline
<1>1. CASE \/ Client!Acquire(i) \/ Client!GiveUp(i) \/ Client!Answer(i) \/ Client!DoError(i)
           \/ Client!Release(i) \/ Client!Drain(i)
  BY <1>1 DEF Client!Acquire, Client!GiveUp, Client!Answer, Client!DoError, Client!Release, Client!Drain
<1>2. CASE Client!Inspect(i)
  <2>1. method[i] = "OTHER"
    BY DEF Matched
  <2>2. CASE Client!NoResponse(i) \/ Client!RejectPeer(i) \/ Client!ErrorStatus(i)
    BY <2>2 DEF Client!NoResponse, Client!RejectPeer, Client!ErrorStatus
  <2>3. CASE body[i] = "open" /\ Client!Deliver(i)
    BY <2>1, <2>3 DEF Client!Deliver
  <2> QED
    BY <1>2, <2>2, <2>3 DEF Client!Inspect, Client!DumpFails
<1> QED
  BY <1>1, <1>2 DEF Pipeline

LEMMA MatchedStep == FetchInv /\ [FetchNext]_fetchVars => Matched'
<1> SUFFICES ASSUME FetchInv, [FetchNext]_fetchVars PROVE Matched'
  OBVIOUS
<1> USE DEF FetchInv, Matched
<1>0. thread \in [Members -> {"none", "called", "fetching", "got", "released", "exited"}]
  BY DEF IInv, TypeOK
<1>01. pc \in [Clients -> {"idle", "queued", "doing", "answered", "inspecting",
                           "draining"} \cup Client!Ended]
  BY DEF ClientOK, Client!TypeOK, Clients
<1>02. method' = method
  BY FetchIsClient DEF ClientNext, clientVars, Client!Step, Client!Build, Client!Acquire, Client!GiveUp,
     Client!Answer, Client!DoError, Client!Release, Client!Inspect, Client!Drain, Client!Cleanup,
     Client!Cancel, Client!settings
<1>1. CASE UNCHANGED fetchVars
  BY <1>1 DEF fetchVars, vars, clientVars
<1>2. CASE LocalStep
  <2>1. \A i \in Members : /\ thread'[i] = "fetching" => thread[i] = "fetching"
                           /\ thread'[i] \in {"none", "called"} => thread[i] \in {"none", "called"}
    <3>1. CASE Dispatch
      BY <1>0, <3>1 DEF Dispatch, Loop, SelectDone, SelectSlot, SyncCall, SyncReturn, SyncEnd, Wait,
                 Goto, IInv, TypeOK, Phases
    <3>2. ASSUME NEW i \in Members, (kind[i] # "link" /\ GetBegin(i)) \/ FreeSlot(i) \/ Done(i)
          PROVE  \A j \in Members :
                    /\ thread'[j] = "fetching" => thread[j] = "fetching"
                    /\ thread'[j] \in {"none", "called"} => thread[j] \in {"none", "called"}
      BY <1>0, <3>2 DEF GetBegin, FreeSlot, Done, Goto
    <3> QED
      BY <1>2, <3>1, <3>2 DEF LocalStep
  <2> QED
    BY <1>2, <2>1 DEF LocalStep, clientVars
<1>3. CASE CancelFetches
  BY <1>02, <1>3 DEF CancelFetches, Cancel, Client!Cancel
<1>4. ASSUME NEW r \in Clients, Pipeline(r) PROVE Matched'
  <2>1. UNCHANGED thread /\ pc[r] \in InPipeline
    BY <1>4 DEF Pipeline, vars, Client!Acquire, Client!GiveUp, Client!Answer, Client!DoError,
                Client!Release, Client!Inspect, Client!Drain, InPipeline
  <2>2. \A q \in Clients \ {r} : pc'[q] = pc[q] /\ body'[q] = body[q]
    BY <1>4 DEF Clients, ClientOK, Client!TypeOK, Client!Goto, Client!CloseIt, Pipeline, Client!Acquire,
                Client!GiveUp, Client!Answer, Client!DoError,
                Client!Release, Client!Inspect, Client!NoResponse, Client!RejectPeer,
                Client!DumpFails, Client!Deliver, Client!ErrorStatus, Client!Drain
  <2>3. r \in Members => thread[r] = "fetching"
    BY <2>1 DEF Linked
  <2> HIDE DEF FetchInv, Matched
  <2>4. r \in Members => \/ pc'[r] \in InPipeline \cup {"failed"}
                         \/ pc'[r] = "returned" /\ body'[r] = "open"
    BY <1>4, PipelineMatches
  <2> QED
    BY <1>02, <2>1, <2>2, <2>3, <2>4 DEF Clients, FetchInv, Matched
<1>5. ASSUME NEW r \in Others, OtherStep(r) PROVE Matched'
  <2>1. UNCHANGED thread /\ \A i \in Members : pc'[i] = pc[i] /\ body'[i] = body[i]
    BY <1>5, FetchAssumption DEF OtherStep, vars, ClientOK, Client!TypeOK, Client!Goto, Client!CloseIt,
       Client!Build, Client!Cleanup, Client!Cancel
  <2> QED
    BY <1>02, <2>1
<1>6. ASSUME NEW i \in Members, MemberStep(i) PROVE Matched'
  <2>1. CASE FetchBegin(i)
    <3>1. thread' = [thread EXCEPT ![i] = "fetching"] /\ UNCHANGED body
      BY <2>1 DEF FetchBegin, GetBegin, Goto, Client!Build
    <3>2. /\ pc'[i] \in {"queued", "failed"}
          /\ \A j \in Members \ {i} : pc'[j] = pc[j]
      BY <1>01, <2>1 DEF FetchBegin, Client!Build, ClientOK, Client!Goto, Clients
    <3> QED
      BY <1>0, <1>02, <3>1, <3>2 DEF InPipeline
  <2>2. CASE FetchOk(i) \/ FetchBad(i)
    <3>1. thread' = [thread EXCEPT ![i] = "got"] /\ UNCHANGED pc
      BY <2>2 DEF FetchOk, FetchBad, GetObject, GetFails, Goto, Client!Cleanup, clientVars
    <3>2. \A j \in Members \ {i} : body'[j] = body[j]
      BY <2>2 DEF FetchOk, FetchBad, Client!Cleanup, Client!CloseIt, clientVars, ClientOK, Client!TypeOK
    <3> QED
      BY <1>0, <1>02, <3>1, <3>2
  <2> QED
    BY <1>6, <2>1, <2>2 DEF MemberStep
<1> QED
  BY <1>1, <1>2, <1>3, <1>4, <1>5, <1>6 DEF FetchNext, Clients

THEOREM FetchInvariant == FetchSpec => []FetchInv
<1>1. FetchInv /\ [FetchNext]_fetchVars => FetchInv'
  BY FetchIsPool, NextIsStep, StepKeepsIInv, FetchIsClient, ClientStep, LinkedStep, MatchedStep,
     UnreadStep DEF FetchInv
<1> QED
  BY <1>1, InitFetchInv, PTL DEF FetchSpec

(* The collection keeps its bound on the requests in the pipeline, and the  *)
(* client its bound on those in an exchange, at the same time.              *)
THEOREM BoundsHoldTogether == FetchSpec => []BothBounds
<1>1. ASSUME FetchInv PROVE BothBounds
  <2> DEFINE fetching == {i \in Members : thread[i] = "fetching"}
             asked == {i \in Members : pc[i] \in InPipeline}
  <2>1. asked \in SUBSET fetching
    BY <1>1 DEF FetchInv, Linked
  <2>2. IsFiniteSet(fetching) /\ Cardinality(fetching) \in Nat /\ Cardinality(asked) \in Nat
    BY SetsAreFinite
  <2>3. Cardinality(asked) <= Cardinality(fetching)
    BY <2>1, <2>2, FS_Subset
  <2>4. /\ Cardinality(fetching) <= LimiterCap + 1
        /\ ~ctxDone => Cardinality(fetching) <= LimiterCap
    BY <1>1, FetchesBounded DEF FetchInv, FetchBound
  <2>5. Cardinality(asked) <= LimiterCap + (IF ctxDone THEN 1 ELSE 0)
    BY <2>2, <2>3, <2>4
  <2> QED
    BY <1>1, <2>5 DEF FetchInv, ClientOK, BothBounds
<1> QED
  BY <1>1, FetchInvariant, PTL

(* When the call has returned no request of it is under way, no permit is   *)
(* held by one and no body of one is open.                                  *)
THEOREM NothingIsLeft == FetchSpec => []NothingLeftBehind
<1>1. FetchInv => NothingLeftBehind
  BY DEF FetchInv, IInv, Quiet, Linked, NothingLeftBehind
<1> QED
  BY <1>1, FetchInvariant, PTL

(* Slots and permits are never waited for in a circle: who holds a slot and *)
(* waits for a permit waits for a request that has one, and that is in an   *)
(* exchange or about to give the permit back.                               *)
THEOREM NoCircularWait == FetchSpec => []NoCircle
<1>1. ASSUME FetchInv, dpc # "returned" PROVE NoCircle
  <2> USE DEF FetchInv
  <2>1. CASE DispatcherMoves
    BY <2>1 DEF NoCircle
  <2>2. ASSUME NEW i \in Members, MemberMoves(i) PROVE NoCircle
    <3>1. thread[i] = "called" => pc[i] = "idle"
      BY <1>1 DEF Matched
    <3> QED
      BY <2>2, <3>1 DEF NoCircle, FetchMoves
  <2>3. ASSUME NEW i \in Members, thread[i] = "fetching" PROVE NoCircle
    <3>1. CASE pc[i] \in {"failed", "returned"}
      BY <1>1, <2>3, <3>1 DEF NoCircle, FetchMoves, Matched, InPipeline
    <3>2. CASE pc[i] \in {"doing", "answered", "inspecting", "draining"}
      <4>1. RequestMoves(i)
        BY <1>1, <3>2 DEF RequestMoves, Unread, Clients
      <4> QED
        BY <4>1 DEF NoCircle
    <3>3. CASE pc[i] = "queued" /\ sem < Client!Permits
      <4>1. RequestMoves(i)
        BY <3>3 DEF RequestMoves
      <4> QED
        BY <4>1 DEF NoCircle
    <3>4. CASE ~(sem < Client!Permits)
      <4>1. sem # 0
        BY <1>1, <3>4, FetchAssumption DEF ClientOK, Client!TypeOK, Client!Permits
      <4>2. PICK r : r \in Client!Holders
        BY <1>1, <4>1, ClientCounts, FS_EmptySet DEF ClientOK, Client!PermitsConserved
      <4>3. RequestMoves(r)
        BY <4>2 DEF RequestMoves, Client!Holders
      <4> QED
        BY <4>2, <4>3 DEF NoCircle
    <3> QED
      BY <1>1, <2>3, <3>1, <3>2, <3>3, <3>4 DEF Matched, InPipeline
  <2> QED
    BY <1>1, <2>1, <2>2, <2>3, PoolMoves
<1>2. FetchInv => NoCircle
  BY <1>1 DEF NoCircle
<1> QED
  BY <1>2, FetchInvariant, PTL

(* What is left of the requests, those made elsewhere included. *)
ToRequest(r, s) ==
    \/ s = "built" /\ pc[r] = "idle"
    \/ s = "granted" /\ pc[r] \in {"idle", "queued"}
    \/ s = "answered" /\ pc[r] \in {"idle", "queued", "doing"}
    \/ s = "released" /\ pc[r] \in {"idle", "queued", "doing", "answered"}
    \/ s = "inspected" /\ pc[r] \in {"idle", "queued", "doing", "answered", "inspecting"}
    \/ s = "drained" /\ pc[r] \notin Client!Ended
    \/ s = "closed" /\ (pc[r] \in {"idle", "queued", "doing"} \/ body[r] = "open")
    \/ s = "dead" /\ r \notin dead

Stages == {"built", "granted", "answered", "released", "inspected", "drained", "closed", "dead"}

RequestLeft == {m \in Clients \X Stages : ToRequest(m[1], m[2])}

LEMMA RequestsShrink ==
    ASSUME \A q \in Clients : \A s \in Stages : ToRequest(q, s)' => ToRequest(q, s),
           NEW r \in Clients, NEW t \in Stages, ToRequest(r, t), ~ToRequest(r, t)'
    PROVE  Shorter(RequestLeft', RequestLeft)
<1>1. <<r, t>> \in RequestLeft /\ <<r, t>> \notin RequestLeft'
  BY DEF RequestLeft
<1>2. RequestLeft' \subseteq RequestLeft
  BY DEF RequestLeft
<1> QED
  BY <1>1, <1>2 DEF Shorter

(* Every step of a request shortens what is left of it. *)
LEMMA RequestGoesOn ==
    ASSUME ClientOK, Unread, NEW r \in Clients,
           Client!Step(r) \/ (r \notin dead /\ Client!Cancel({r}))
    PROVE  Shorter(RequestLeft', RequestLeft)
<1> USE DEF ClientOK, Client!TypeOK, Client!Goto, Client!CloseIt, Client!Ended, ToRequest, Clients
<1> DEFINE Fewer == \A q \in Clients : \A s \in Stages : ToRequest(q, s)' => ToRequest(q, s)
           Once(t) == t \in Stages /\ ToRequest(r, t) /\ ~ToRequest(r, t)'
<1>1. CASE Client!Build(r)
  <2>1. Fewer
    BY <1>1 DEF Client!Build
  <2>2. Once("built")
    BY <1>1 DEF Client!Build, Stages
  <2> QED
    BY <2>1, <2>2, RequestsShrink
<1>2. CASE Client!Acquire(r) \/ Client!GiveUp(r)
  <2>1. Fewer
    BY <1>2 DEF Client!Acquire, Client!GiveUp
  <2>2. Once("granted")
    BY <1>2 DEF Client!Acquire, Client!GiveUp, Stages
  <2> QED
    BY <2>1, <2>2, RequestsShrink
<1>3. CASE Client!Answer(r) \/ Client!DoError(r)
  <2>1. Fewer
    BY <1>3 DEF Client!Answer, Client!DoError
  <2>2. Once("answered")
    BY <1>3 DEF Client!Answer, Client!DoError, Stages
  <2> QED
    BY <2>1, <2>2, RequestsShrink
<1>4. CASE Client!Release(r)
  <2>1. Fewer
    BY <1>4 DEF Client!Release
  <2>2. Once("released")
    BY <1>4 DEF Client!Release, Stages
  <2> QED
    BY <2>1, <2>2, RequestsShrink
<1>5. CASE Client!Inspect(r)
  <2>1. Fewer
    BY <1>5 DEF Client!Inspect, Client!NoResponse, Client!RejectPeer, Client!DumpFails,
                Client!Deliver, Client!ErrorStatus
  <2>2. Once("inspected")
    BY <1>5 DEF Client!Inspect, Client!NoResponse, Client!RejectPeer, Client!DumpFails,
                Client!Deliver, Client!ErrorStatus, Stages
  <2> QED
    BY <2>1, <2>2, RequestsShrink
<1>6. CASE Client!Drain(r)
  <2>1. Fewer
    BY <1>6 DEF Client!Drain
  <2>2. Once("drained")
    BY <1>6 DEF Client!Drain, Stages
  <2> QED
    BY <2>1, <2>2, RequestsShrink
<1>7. CASE Client!Cleanup(r)
  <2>1. Fewer
    BY <1>7 DEF Client!Cleanup
  <2>2. Once("closed")
    BY <1>7 DEF Client!Cleanup, Stages
  <2> QED
    BY <2>1, <2>2, RequestsShrink
<1>8. CASE r \notin dead /\ Client!Cancel({r})
  <2>1. Fewer
    BY <1>8 DEF Client!Cancel
  <2>2. Once("dead")
    BY <1>8 DEF Client!Cancel, Stages
  <2> QED
    BY <2>1, <2>2, RequestsShrink
<1> QED
  BY <1>1, <1>2, <1>3, <1>4, <1>5, <1>6, <1>7, <1>8 DEF Client!Step

LEMMA RequestLeftIsFinite == ASSUME IsFiniteSet(Others) PROVE IsFiniteSet(RequestLeft)
<1>1. IsFiniteSet(Clients)
  <2>1. IsFiniteSet(Members)
    BY FS_Interval
  <2> QED
    BY <2>1, FS_Union DEF Clients
<1>2. IsFiniteSet(Stages)
  <2> DEFINE f == <<"built", "granted", "answered", "released", "inspected", "drained", "closed",
                    "dead">>
  <2>1. f \in [1..8 -> Stages]
    BY DEF Stages
  <2>2. /\ f[1] = "built" /\ f[2] = "granted" /\ f[3] = "answered" /\ f[4] = "released"
        /\ f[5] = "inspected" /\ f[6] = "drained" /\ f[7] = "closed" /\ f[8] = "dead"
    OBVIOUS
  <2> HIDE DEF f
  <2>3. \A t \in Stages : \E k \in 1..8 : f[k] = t
    BY <2>2 DEF Stages
  <2>4. 1 \in Int /\ 8 \in Int
    OBVIOUS
  <2>5. IsFiniteSet(1..8)
    BY <2>4, FS_Interval
  <2> QED
    BY <2>1, <2>3, <2>5, FS_Surjection DEF Surjection
<1>3. IsFiniteSet(Clients \X Stages)
  BY <1>1, <1>2, FS_Product
<1> QED
  BY <1>3, FS_Subset DEF RequestLeft

LEMMA FetchProgress ==
    ASSUME FetchInv, FetchNext
    PROVE  /\ Left' \subseteq Left /\ RequestLeft' \subseteq RequestLeft
           /\ Left' # Left \/ RequestLeft' # RequestLeft
<1> USE DEF FetchInv
<1>1. ASSUME UNCHANGED vars PROVE Left' = Left
  BY <1>1 DEF vars, Left, ToDo
<1>2. ASSUME UNCHANGED clientVars PROVE RequestLeft' = RequestLeft
  BY <1>2 DEF clientVars, RequestLeft, ToRequest
<1>3. ASSUME Next PROVE Shorter(Left', Left)
  BY <1>3, StepIsProgress DEF Next, Step, Thread, Fetched, GetObject, GetFails, Delivered
<1>4. CASE LocalStep
  <2>1. Next /\ UNCHANGED clientVars
    BY <1>4 DEF LocalStep, Next, Thread
  <2> QED
    BY <1>2, <1>3, <2>1 DEF Shorter
<1>5. CASE CancelFetches
  <2>1. Next
    BY <1>5 DEF CancelFetches, Next
  <2>2. RequestLeft' \subseteq RequestLeft
    BY <1>5 DEF CancelFetches, Client!Cancel, RequestLeft, ToRequest
  <2> QED
    BY <1>3, <2>1, <2>2 DEF Shorter
<1>6. ASSUME NEW r \in Clients, Pipeline(r)
      PROVE  Left' = Left /\ Shorter(RequestLeft', RequestLeft)
  BY <1>1, <1>6, RequestGoesOn DEF Pipeline, Client!Step
<1>7. ASSUME NEW r \in Others, OtherStep(r)
      PROVE  Left' = Left /\ Shorter(RequestLeft', RequestLeft)
  BY <1>1, <1>7, RequestGoesOn DEF OtherStep, Client!Step, Clients
<1>8. ASSUME NEW i \in Members, MemberStep(i)
      PROVE  Shorter(Left', Left) /\ RequestLeft' \subseteq RequestLeft
  <2>1. Next
    BY <1>8 DEF MemberStep, FetchBegin, FetchOk, FetchBad, Next, Thread, Fetched
  <2>2. CASE Client!Build(i) \/ Client!Cleanup(i)
    <3>1. i \in Clients /\ Client!Step(i)
      BY <2>2 DEF Clients, Client!Step
    <3> QED
      BY <1>3, <2>1, <3>1, RequestGoesOn DEF Shorter
  <2>3. CASE UNCHANGED clientVars
    BY <1>2, <1>3, <2>1, <2>3
  <2> QED
    BY <1>8, <2>2, <2>3 DEF MemberStep, FetchBegin, FetchOk, FetchBad
<1> QED
  BY <1>4, <1>5, <1>6, <1>7, <1>8 DEF FetchNext, Clients, Shorter

(* The same of the composition, while finitely many requests are made       *)
(* elsewhere with the client.  Together with NoCircularWait: when every     *)
(* exchange ends, those that compete for the permits included, so does the  *)
(* call, for any number of members, slots and permits.                      *)
THEOREM FetchesGetShorter ==
    ASSUME IsFiniteSet(Others)
    PROVE  FetchSpec => [][Cardinality(Left') + Cardinality(RequestLeft') <
                               Cardinality(Left) + Cardinality(RequestLeft)]_fetchVars
<1>1. ASSUME FetchInv, FetchNext
      PROVE  Cardinality(Left') + Cardinality(RequestLeft') <
                 Cardinality(Left) + Cardinality(RequestLeft)
  <2>1. /\ Cardinality(Left') \in Nat /\ Cardinality(Left) \in Nat
        /\ Cardinality(Left') <= Cardinality(Left)
        /\ Left' # Left => Cardinality(Left') < Cardinality(Left)
    BY <1>1, FetchProgress, LeftIsFinite, SmallerSets
  <2>2. /\ Cardinality(RequestLeft') \in Nat /\ Cardinality(RequestLeft) \in Nat
        /\ Cardinality(RequestLeft') <= Cardinality(RequestLeft)
        /\ RequestLeft' # RequestLeft => Cardinality(RequestLeft') < Cardinality(RequestLeft)
    BY <1>1, FetchProgress, RequestLeftIsFinite, SmallerSets
  <2>3. Left' # Left \/ RequestLeft' # RequestLeft
    BY <1>1, FetchProgress
  <2> QED
    BY <2>1, <2>2, <2>3
<1> QED
  BY <1>1, FetchInvariant, PTL DEF FetchSpec

(* Each step of the composition is one of the pool or leaves it alone: with *)
(* the pipeline in the place of the abstract fetches, the pool still keeps  *)
(* all it promises.  (Its fairness is part of ImplementsPool, which is      *)
(* model-checked.)                                                          *)
THEOREM FetchRefinesPool == FetchSpec => Init /\ [][Next]_vars
<1>1. FetchInit => Init
  BY DEF FetchInit
<1> QED
  BY <1>1, FetchIsPool, PTL DEF FetchSpec

THEOREM PoolServesFetches ==
    FetchSpec => [](EveryMemberOnce /\ OrderedOutcome /\ CountersExact)
<1>1. FetchInv => EveryMemberOnce /\ OrderedOutcome /\ CountersExact
  BY MembersOnce, OutcomeIsOrdered DEF FetchInv, IInv
<1> QED
  BY <1>1, FetchInvariant, PTL
=============================================================================
