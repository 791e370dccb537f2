-------------------------- MODULE Pagination_proofs --------------------------
(***************************************************************************)
(* Safety of a listing, for any number of pages, any next links, circles   *)
(* included, and any answers of the service.                               *)
(*                                                                         *)
(* The invariant says at every place of the code which page comes next in  *)
(* the service's order and how many requests it may have cost so far.      *)
(***************************************************************************)
EXTENDS Pagination, TLAPS

Asking == {"query", "failed", "retry"}

Last == members[Len(members)]

(* The page at hand is the one after those gathered, or the last of them.   *)
Place ==
    /\ Follows(members)
    /\ pc \in Asking => IF members = <<>> THEN page = 1 ELSE service.next[Last] = page
    /\ pc = "gathered" => members # <<>> /\ Last = page
    /\ pc = "returned" =>
        IF failed THEN members = <<>> \/ service.next[Last] # 0
        ELSE members # <<>> /\ service.next[Last] = 0

(* Every page can be had by the query the call makes for it, or by the      *)
(* fallback's: nothing stands in the way of a complete listing.             *)
Listable ==
    /\ fallback /\ ~ctxDone /\ ~service.flaky
    /\ \A p \in PageNumbers : service.plain[p] \/ (expand /\ service.expanded[p])

(* A page that is tried again is one that its first query was refused.      *)
Complete == Listable => /\ pc = "failed" => expand
                        /\ pc \in {"failed", "retry"} => ~service.expanded[page]
                        /\ pc = "returned" => ~failed

Cost ==
    /\ pc \in {"query", "gathered"} => Len(log) <= 2 * Len(members)
    /\ pc \in {"failed", "retry"} => Len(log) <= 2 * Len(members) + 1
    /\ Len(log) <= 2 * (Len(members) + 1)

(* A request under a dead context was the last one. *)
Dead(r) == r.dead
LastDead ==
    /\ \A k \in 1..Len(log) : Dead(log[k]) => ctxDone /\ pc \in {"failed", "returned"}
    /\ \A j, k \in 1..Len(log) : Dead(log[j]) /\ Dead(log[k]) => j = k

ListingInv == TypeOK /\ Place /\ Complete /\ Cost /\ LastDead

-----------------------------------------------------------------------------
LEMMA FollowsAppend ==
  ASSUME NEW s \in Seq(PageNumbers), NEW p \in PageNumbers, Follows(s),
         IF s = <<>> THEN p = 1 ELSE service.next[s[Len(s)]] = p
  PROVE  Follows(Append(s, p))
<1> DEFINE t == Append(s, p)
<1>1. /\ Len(t) = Len(s) + 1 /\ t[Len(s) + 1] = p /\ Len(s) \in Nat
      /\ \A k \in 1..Len(s) : t[k] = s[k]
  OBVIOUS
<1>2. t[1] = 1
  <2>1. CASE s = <<>>
    BY <1>1, <2>1
  <2>2. CASE s # <<>>
    BY <1>1, <2>2 DEF Follows
  <2> QED BY <2>1, <2>2
<1>3. ASSUME NEW k \in 1..(Len(t) - 1) PROVE t[k + 1] = service.next[t[k]]
  <2>1. CASE k = Len(s)
    BY <1>1, <2>1
  <2>2. CASE k # Len(s)
    BY <1>1, <2>2 DEF Follows
  <2> QED BY <2>1, <2>2
<1> QED BY <1>2, <1>3 DEF Follows

(* What the history of requests is after one more. *)
LEMMA Asked ==
  ASSUME TypeOK, NEW e \in BOOLEAN, Ask(e)
  PROVE  /\ log' \in Seq(Requests) /\ Len(log) <= Len(log') /\ Len(log') <= Len(log) + 1
         /\ \A k \in 1..Len(log) : log'[k] = log[k]
         /\ \A k \in 1..Len(log') : k > Len(log) => log'[k].dead = ctxDone
<1> DEFINE r == [page |-> page, expand |-> e, dead |-> ctxDone]
<1>1. r \in Requests /\ r.dead = ctxDone
  BY DEF TypeOK, Requests
<1>2. log \in Seq(Requests) /\ Len(log) \in Nat
  BY DEF TypeOK
<1>3. CASE log' = log
  BY <1>2, <1>3
<1>4. CASE log' = Append(log, r)
  <2> HIDE DEF r
  <2>1. /\ log' \in Seq(Requests) /\ Len(log') = Len(log) + 1 /\ log'[Len(log) + 1] = r
        /\ \A k \in 1..Len(log) : log'[k] = log[k]
    BY <1>1, <1>2, <1>4
  <2>2. ASSUME NEW k \in 1..Len(log'), k > Len(log) PROVE k = Len(log) + 1
    BY <1>2, <2>1, <2>2
  <2> QED BY <1>1, <1>2, <2>1, <2>2
<1> QED BY <1>3, <1>4 DEF Ask

LEMMA InitListing == Init => ListingInv
<1> SUFFICES ASSUME Init PROVE ListingInv
  OBVIOUS
<1>1. TypeOK
  <2>1. 1 \in PageNumbers
    BY PaginationAssumption DEF PageNumbers
  <2>2. log \in Seq(Requests) /\ members \in Seq(PageNumbers)
    BY DEF Init
  <2>3. {expand, fallback, ctxDone, failed} \subseteq BOOLEAN
    BY DEF Init
  <2> QED BY <2>1, <2>2, <2>3 DEF Init, TypeOK
<1>2. Place
  BY DEF Init, Place, Follows, Asking
<1>3. Complete /\ Cost /\ LastDead
  BY DEF Init, Complete, Cost, LastDead
<1> QED BY <1>1, <1>2, <1>3 DEF ListingInv

(* The page at hand is gathered. *)
LEMMA GatherKeeps ==
  ASSUME TypeOK, Place, pc \in Asking, Gather, UNCHANGED <<service, page>>
  PROVE  /\ members' \in Seq(PageNumbers) /\ Len(members') = Len(members) + 1
         /\ Place'
<1>1. members \in Seq(PageNumbers) /\ page \in PageNumbers /\ members' = Append(members, page)
  BY DEF TypeOK, Gather
<1>2. Follows(members')
  BY <1>1, FollowsAppend DEF Place, Last
<1>3. Follows(members)' <=> Follows(members')
  BY DEF Follows
<1>4. /\ members' \in Seq(PageNumbers) /\ Len(members') = Len(members) + 1
      /\ members'[Len(members')] = page
  BY <1>1
<1>5. pc' = "gathered"
  BY DEF Gather
<1> QED BY <1>2, <1>3, <1>4, <1>5 DEF Place, Last, Asking

LEMMA QueryKeeps == ListingInv /\ Query => ListingInv'
<1> SUFFICES ASSUME ListingInv, Query PROVE ListingInv'
  OBVIOUS
<1> USE DEF ListingInv
<1>0. /\ pc = "query" /\ Ask(expand) /\ expand \in BOOLEAN
      /\ UNCHANGED <<service, expand, fallback, ctxDone, page>>
  BY DEF Query, call, TypeOK
<1>1. /\ log' \in Seq(Requests) /\ Len(log) <= Len(log') /\ Len(log') <= Len(log) + 1
      /\ \A k \in 1..Len(log) : log'[k] = log[k]
      /\ \A k \in 1..Len(log') : k > Len(log) => log'[k].dead = ctxDone
      /\ Len(log) \in Nat /\ Len(log') \in Nat /\ Len(members) \in Nat
  BY <1>0, Asked DEF TypeOK
<1>2. \A k \in 1..Len(log) : ~Dead(log[k])
  BY <1>0 DEF LastDead
<1>3. \A k \in 1..Len(log') : Dead(log'[k]) => ctxDone /\ k = Len(log) + 1
  BY <1>1, <1>2 DEF Dead
<1>4. CASE Answers(expand) /\ Gather
  <2>1. members' \in Seq(PageNumbers) /\ Len(members') = Len(members) + 1 /\ Place'
    BY <1>0, <1>4, GatherKeeps DEF Asking
  <2>2. pc' = "gathered" /\ failed' = failed /\ ~ctxDone
    BY <1>4 DEF Gather, Answers
  <2>3. TypeOK'
    BY <1>0, <1>1, <2>1, <2>2 DEF TypeOK
  <2>4. Complete' /\ Cost'
    BY <1>0, <1>1, <2>1, <2>2 DEF Complete, Cost
  <2>5. LastDead'
    BY <1>0, <1>3, <2>2 DEF LastDead
  <2> QED BY <2>1, <2>3, <2>4, <2>5
<1>5. CASE Refuses(expand) /\ pc' = "failed" /\ UNCHANGED <<members, failed>>
  <2>1. TypeOK'
    BY <1>0, <1>1, <1>5 DEF TypeOK
  <2>2. Place'
    BY <1>0, <1>5 DEF Place, Last, Asking, Follows
  <2>3. Complete'
    BY <1>0, <1>5 DEF Complete, Listable, Refuses, Answers, TypeOK
  <2>4. Cost'
    BY <1>0, <1>1, <1>5 DEF Cost
  <2>5. LastDead'
    BY <1>0, <1>3, <1>5 DEF LastDead
  <2> QED BY <2>1, <2>2, <2>3, <2>4, <2>5
<1> QED BY <1>4, <1>5 DEF Query

LEMMA RetryKeeps == ListingInv /\ Retry => ListingInv'
<1> SUFFICES ASSUME ListingInv, Retry PROVE ListingInv'
  OBVIOUS
<1> USE DEF ListingInv
<1>0. /\ pc = "retry" /\ Ask(FALSE)
      /\ UNCHANGED <<service, expand, fallback, ctxDone, page>>
  BY DEF Retry, call
<1>1. /\ log' \in Seq(Requests) /\ Len(log) <= Len(log') /\ Len(log') <= Len(log) + 1
      /\ \A k \in 1..Len(log) : log'[k] = log[k]
      /\ \A k \in 1..Len(log') : k > Len(log) => log'[k].dead = ctxDone
      /\ Len(log) \in Nat /\ Len(log') \in Nat /\ Len(members) \in Nat
  <2>1. PICK e \in BOOLEAN : Ask(e)
    BY <1>0
  <2>2. log \in Seq(Requests) /\ members \in Seq(PageNumbers) /\ TypeOK
    BY DEF TypeOK
  <2> QED BY <2>1, <2>2, Asked
<1>2. \A k \in 1..Len(log) : ~Dead(log[k])
  BY <1>0 DEF LastDead
<1>3. \A k \in 1..Len(log') : Dead(log'[k]) => ctxDone /\ k = Len(log) + 1
  BY <1>1, <1>2 DEF Dead
<1>4. CASE Answers(FALSE) /\ Gather
  <2>1. members' \in Seq(PageNumbers) /\ Len(members') = Len(members) + 1 /\ Place'
    BY <1>0, <1>4, GatherKeeps DEF Asking
  <2>2. pc' = "gathered" /\ failed' = failed /\ ~ctxDone
    BY <1>4 DEF Gather, Answers
  <2>3. TypeOK'
    BY <1>0, <1>1, <2>1, <2>2 DEF TypeOK
  <2>4. Complete' /\ Cost'
    BY <1>0, <1>1, <2>1, <2>2 DEF Complete, Cost
  <2>5. LastDead'
    BY <1>0, <1>3, <2>2 DEF LastDead
  <2> QED BY <2>1, <2>3, <2>4, <2>5
<1>5. CASE Refuses(FALSE) /\ Return(TRUE) /\ UNCHANGED members
  <2>0. pc' = "returned" /\ failed' = TRUE
    BY <1>5 DEF Return
  <2>1. TypeOK'
    BY <1>0, <1>1, <1>5, <2>0 DEF TypeOK
  <2>2. Place'
    BY <1>0, <1>5, <2>0 DEF Place, Last, Asking, Follows, TypeOK, PageNumbers
  <2>3. ~Listable
    <3>1. Listable => ~service.expanded[page]
      BY <1>0 DEF Complete
    <3>2. page \in PageNumbers /\ (~service.plain[page] \/ ctxDone \/ service.flaky)
      BY <1>5 DEF Refuses, Answers, TypeOK
    <3> QED BY <3>1, <3>2 DEF Listable
  <2>4. Complete'
    BY <1>0, <2>3 DEF Complete, Listable
  <2>5. Cost'
    BY <1>0, <1>1, <1>5, <2>0 DEF Cost
  <2>6. LastDead'
    BY <1>0, <1>3, <2>0 DEF LastDead
  <2> QED BY <2>1, <2>2, <2>4, <2>5, <2>6
<1> QED BY <1>4, <1>5 DEF Retry

LEMMA QueryFailedKeeps == ListingInv /\ QueryFailed => ListingInv'
<1> SUFFICES ASSUME ListingInv, QueryFailed PROVE ListingInv'
  OBVIOUS
<1> USE DEF ListingInv
<1>0. /\ pc = "failed" /\ UNCHANGED <<service, expand, fallback, ctxDone, page, members, log>>
      /\ \/ pc' = "returned" /\ failed' = TRUE /\ (ctxDone \/ ~expand \/ ~fallback)
         \/ pc' = "retry" /\ failed' = failed /\ ~ctxDone
  BY DEF QueryFailed, call, Return
<1>1. TypeOK'
  BY <1>0 DEF TypeOK
<1>2. Place'
  BY <1>0 DEF Place, Last, Asking, Follows, TypeOK, PageNumbers
<1>3. Complete'
  BY <1>0 DEF Complete, Listable
<1>4. Cost'
  BY <1>0 DEF Cost, TypeOK
<1>5. LastDead'
  BY <1>0 DEF LastDead
<1> QED BY <1>1, <1>2, <1>3, <1>4, <1>5

LEMMA NextPageKeeps == ListingInv /\ NextPage => ListingInv'
<1> SUFFICES ASSUME ListingInv, NextPage PROVE ListingInv'
  OBVIOUS
<1> USE DEF ListingInv
<1>0. /\ pc = "gathered" /\ UNCHANGED <<service, expand, fallback, ctxDone, members, log>>
      /\ \/ service.next[page] = 0 /\ pc' = "returned" /\ failed' = FALSE /\ page' = page
         \/ service.next[page] # 0 /\ ctxDone /\ pc' = "returned" /\ failed' = TRUE /\ page' = page
         \/ service.next[page] # 0 /\ pc' = "query" /\ failed' = failed /\ page' = service.next[page]
  BY DEF NextPage, call, Return
<1>1. TypeOK'
  BY <1>0 DEF TypeOK, Services
<1>2. Place'
  BY <1>0 DEF Place, Last, Asking, Follows
<1>3. Complete'
  BY <1>0 DEF Complete, Listable
<1>4. Cost'
  BY <1>0 DEF Cost, TypeOK
<1>5. LastDead'
  BY <1>0 DEF LastDead
<1> QED BY <1>1, <1>2, <1>3, <1>4, <1>5

LEMMA CancelKeeps == ListingInv /\ Cancel => ListingInv'
BY DEF ListingInv, Cancel, call, TypeOK, Place, Last, Asking, Follows, Complete, Listable, Cost, LastDead

LEMMA ListingInvariant == Spec => []ListingInv
<1>1. ListingInv /\ UNCHANGED vars => ListingInv'
  BY DEF vars, call, ListingInv, TypeOK, Place, Last, Asking, Follows, Complete, Listable, Cost, LastDead
<1>2. ListingInv /\ [Next]_vars => ListingInv'
  BY <1>1, QueryKeeps, RetryKeeps, QueryFailedKeeps, NextPageKeeps, CancelKeeps DEF Next, Step
<1> QED BY <1>2, InitListing, PTL DEF Spec

-----------------------------------------------------------------------------
(* A listing without an error is complete and in order, and one with an     *)
(* error has exactly the pages before the failure, whatever the next links. *)
THEOREM PartialsAreReported == Spec => []PartialIsReported
<1>1. ListingInv => PartialIsReported
  BY DEF ListingInv, Place, Last, PartialIsReported
<1> QED BY <1>1, ListingInvariant, PTL

(* With the fallback, a collection whose first page is only to be had       *)
(* without $expand is listed in full, for any number of pages after it.     *)
THEOREM FallbacksComplete == Spec => []FallbackCompletes
<1>1. ListingInv => FallbackCompletes
  <2> SUFFICES ASSUME Complete, pc = "returned", fallback, ~ctxDone, ~service.flaky,
                      service.plain[1],
                      \A p \in PageNumbers : p # 1 =>
                          IF expand THEN service.expanded[p] ELSE service.plain[p]
               PROVE  ~failed
    BY DEF ListingInv, FallbackCompletes
  <2>1. \A p \in PageNumbers : service.plain[p] \/ (expand /\ service.expanded[p])
    OBVIOUS
  <2> QED BY <2>1 DEF Complete, Listable
<1> QED BY <1>1, ListingInvariant, PTL

(* At most one request after the death of the context, and two for a page,  *)
(* for a listing of any length.                                             *)
THEOREM RequestsAreNeeded == Spec => []NoWastedRequest
<1>1. ListingInv => NoWastedRequest
  BY DEF ListingInv, Cost, LastDead, Dead, NoWastedRequest
<1> QED BY <1>1, ListingInvariant, PTL

-----------------------------------------------------------------------------
(* The next links never come back to a page, up to the numbers of the pages. *)
Forward == \A p \in PageNumbers : service.next[p] = 0 \/ service.next[p] > p

(* The steps of the call that are left: four for a page at most.            *)
Stage ==
    CASE pc = "query" -> 4 [] pc = "failed" -> 3 [] pc = "retry" -> 2
      [] pc = "gathered" -> 1 [] OTHER -> 0

StepsLeft == IF pc = "returned" THEN 0 ELSE 4 * (Pages - page) + Stage

LEMMA ListingShortens ==
    ASSUME ListingInv, Step, Forward \/ ctxDone
    PROVE  StepsLeft' < StepsLeft
<1>1. page \in 1..Pages /\ Pages \in Nat /\ pc \in {"query", "failed", "retry", "gathered", "returned"}
  BY PaginationAssumption DEF ListingInv, TypeOK, PageNumbers
<1>2. CASE Query
  BY <1>1, <1>2 DEF Query, Gather, StepsLeft, Stage
<1>3. CASE QueryFailed
  BY <1>1, <1>3 DEF QueryFailed, Return, StepsLeft, Stage
<1>4. CASE Retry
  <2>1. pc = "retry" /\ pc' \in {"gathered", "returned"} /\ page' = page
    BY <1>4 DEF Retry, Gather, Return
  <2> QED BY <1>1, <2>1 DEF StepsLeft, Stage
<1>5. CASE NextPage
  <2>1. CASE pc' = "returned" /\ page' = page
    BY <1>1, <1>5, <2>1 DEF NextPage, StepsLeft, Stage
  <2>2. CASE /\ service.next[page] # 0 /\ ~ctxDone
             /\ pc' = "query" /\ page' = service.next[page]
    <3>1. page' > page /\ page' \in 1..Pages
      BY <1>1, <2>2 DEF Forward, ListingInv, TypeOK, Services, PageNumbers
    <3>2. pc = "gathered"
      BY <1>5 DEF NextPage
    <3> QED BY <1>1, <2>2, <3>1, <3>2 DEF StepsLeft, Stage
  <2> QED BY <1>5, <2>1, <2>2 DEF NextPage, Return
<1> QED BY <1>2, <1>3, <1>4, <1>5 DEF Step

(* A listing takes no more than four steps a page when its next links never *)
(* come back to a page, and whatever they are once its context is dead:     *)
(* every step of the call is one less that is left.                         *)
THEOREM ListingsGetShorter ==
    Spec => /\ [](StepsLeft \in 0..4 * Pages)
            /\ [][Step /\ (Forward \/ ctxDone) => StepsLeft' < StepsLeft]_vars
<1>1. ListingInv => StepsLeft \in 0..4 * Pages
  BY PaginationAssumption DEF ListingInv, TypeOK, PageNumbers, StepsLeft, Stage
<1>2. ListingInv /\ [Next]_vars =>
        [Step /\ (Forward \/ ctxDone) => StepsLeft' < StepsLeft]_vars
  BY ListingShortens
<1> QED BY <1>1, <1>2, ListingInvariant, PTL DEF Spec
=============================================================================
