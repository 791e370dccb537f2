----------------------------- MODULE Pagination -----------------------------
(***************************************************************************)
(* collectMembersWithContext (common/collection.go): enumerate the members *)
(* of a collection page by page, following Members@odata.nextLink, with    *)
(* $expand and its fallback.  The recursion on the next link is a loop     *)
(* here: every level appends what the deeper ones return to its own page,  *)
(* which is the pages in order.                                            *)
(*                                                                         *)
(* A page stands for its members.  The service decides per page whether it *)
(* answers a query with $expand, whether it answers a plain one, and which *)
(* page its next link names; the connection may fail at any request.       *)
(***************************************************************************)
EXTENDS Naturals, Sequences

CONSTANTS
    Pages,          \* how many pages the collection has
    RequestBound    \* the requests after which a circular listing is cut off,
                    \* unless the context is dead and ends it

ASSUME PaginationAssumption ==
    Pages \in Nat \ {0} /\ RequestBound \in Nat

PageNumbers == 1..Pages

VARIABLES
    service,    \* what the service does with each page
    expand,     \* the effective expand option of the call is not ExpandNone
    fallback,   \* the effective expandFallback of the call
    ctxDone,
    pc,         \* where collectMembersWithContext is
    page,       \* the page it is at
    members,    \* the pages whose members it has gathered
    failed,     \* whether it returns an error
    log         \* history: the requests made, with what each asked for

call == <<expand, fallback>>
vars == <<service, call, ctxDone, pc, page, members, failed, log>>

Services ==
    [expanded : [PageNumbers -> BOOLEAN],
     plain    : [PageNumbers -> BOOLEAN],
     flaky    : BOOLEAN,
     next     : [PageNumbers -> PageNumbers \cup {0}]]

Requests == [page : PageNumbers, expand : BOOLEAN, dead : BOOLEAN]

TypeOK ==
    /\ service \in Services
    /\ {expand, fallback, ctxDone, failed} \subseteq BOOLEAN
    /\ pc \in {"query", "failed", "retry", "gathered", "returned"}
    /\ page \in PageNumbers
    /\ members \in Seq(PageNumbers)
    /\ log \in Seq(Requests)

Init ==
    /\ service \in Services
    /\ expand \in BOOLEAN /\ fallback \in BOOLEAN
    /\ expand \/ \A p \in PageNumbers : ~service.expanded[p]  \* bound: nobody asks
    /\ ctxDone = FALSE
    /\ pc = "query" /\ page = 1
    /\ members = <<>> /\ failed = FALSE
    /\ log = <<>>

Return(err) == pc' = "returned" /\ failed' = err

(* GetResourceCollectionWithContext: what a request for the page can bring. *)
(* The history is kept up to the requests that a dead context may add.      *)
Ask(withExpand) ==
    /\ Len(log) < RequestBound \/ ctxDone
    /\ log' = IF Len(log) > RequestBound THEN log
              ELSE Append(log, [page |-> page, expand |-> withExpand, dead |-> ctxDone])

Answers(withExpand) ==
    ~ctxDone /\ (IF withExpand THEN service.expanded[page] ELSE service.plain[page])

Refuses(withExpand) == ~Answers(withExpand) \/ service.flaky

(* The page decodes, and its members join those gathered. *)
Gather == pc' = "gathered" /\ members' = Append(members, page) /\ UNCHANGED failed

(* The first query of a page, with the options of the call. *)
Query ==
    /\ pc = "query"
    /\ Ask(expand)
    /\ \/ Answers(expand) /\ Gather
       \/ Refuses(expand) /\ pc' = "failed" /\ UNCHANGED <<members, failed>>
    /\ UNCHANGED <<service, call, ctxDone, page>>

(* Deviation: the fallback runs although the context is dead. *)
QueryFailed_IgnoresContext ==
    /\ pc = "failed"
    /\ IF ~expand \/ ~fallback
       THEN Return(TRUE)
       ELSE pc' = "retry" /\ UNCHANGED failed
    /\ UNCHANGED <<service, call, ctxDone, page, members, log>>

(* Deviation: a query that failed with the context is made again. *)
QueryFailed_RetriesForever ==
    /\ pc = "failed"
    /\ IF ctxDone THEN pc' = "query" /\ UNCHANGED failed
       ELSE IF ~expand \/ ~fallback THEN Return(TRUE)
       ELSE pc' = "retry" /\ UNCHANGED failed
    /\ UNCHANGED <<service, call, ctxDone, page, members, log>>

(* It failed: a dead context is surfaced as it is, and without an expand    *)
(* that may fall back the error is returned with the pages before.          *)
QueryFailed ==
    /\ pc = "failed"
    /\ IF ctxDone \/ ~expand \/ ~fallback
       THEN Return(TRUE)
       ELSE pc' = "retry" /\ UNCHANGED failed
    /\ UNCHANGED <<service, call, ctxDone, page, members, log>>

(* Deviation: the fallback keeps the options of the call. *)
Retry_KeepsExpand ==
    /\ pc = "retry"
    /\ Ask(expand)
    /\ \/ Answers(expand) /\ Gather
       \/ Refuses(expand) /\ Return(TRUE) /\ UNCHANGED members
    /\ UNCHANGED <<service, call, ctxDone, page>>

(* The fallback: the same page once more, without $expand. *)
Retry ==
    /\ pc = "retry"
    /\ Ask(FALSE)
    /\ \/ Answers(FALSE) /\ Gather
       \/ Refuses(FALSE) /\ Return(TRUE) /\ UNCHANGED members
    /\ UNCHANGED <<service, call, ctxDone, page>>

(* Deviation: a dead context ends the listing without an error. *)
NextPage_HidesCancel ==
    /\ pc = "gathered"
    /\ \/ (service.next[page] = 0 \/ ctxDone) /\ Return(FALSE) /\ UNCHANGED page
       \/ /\ service.next[page] # 0 /\ ~ctxDone
          /\ pc' = "query" /\ page' = service.next[page] /\ UNCHANGED failed
    /\ UNCHANGED <<service, call, ctxDone, members, log>>

(* The end of the listing, or the next page with the options of the call,   *)
(* unless the context died.                                                 *)
NextPage ==
    /\ pc = "gathered"
    /\ \/ service.next[page] = 0 /\ Return(FALSE) /\ UNCHANGED page
       \/ service.next[page] # 0 /\ ctxDone /\ Return(TRUE) /\ UNCHANGED page
       \/ /\ service.next[page] # 0 /\ ~ctxDone
          /\ pc' = "query" /\ page' = service.next[page] /\ UNCHANGED failed
    /\ UNCHANGED <<service, call, ctxDone, members, log>>

Cancel ==
    /\ ~ctxDone /\ ctxDone' = TRUE
    /\ UNCHANGED <<service, call, pc, page, members, failed, log>>

Step == Query \/ QueryFailed \/ Retry \/ NextPage
Next == Step \/ Cancel

(* Every request ends: the client's pipeline gives up with its context. *)
Spec == Init /\ [][Next]_vars /\ WF_vars(Step)

-----------------------------------------------------------------------------
(* Properties. *)

(* The pages from the first on, as the next links name them. *)
Follows(s) ==
    /\ s # <<>> => s[1] = 1
    /\ \A k \in 1..(Len(s) - 1) : s[k + 1] = service.next[s[k]]

(* A listing that is reported without an error is complete, in the order of *)
(* the service; one that is cut short comes with an error and with exactly  *)
(* the pages that precede the failure.                                      *)
PartialIsReported ==
    /\ Follows(members)
    /\ pc = "returned" =>
        IF failed
        THEN members = <<>> \/ service.next[members[Len(members)]] # 0
        ELSE members # <<>> /\ service.next[members[Len(members)]] = 0

(* With the fallback on, a service that refuses to expand the first page of *)
(* a collection but can be read plainly there, and answers the later pages  *)
(* as they are asked for, is listed in full while the context lives.  The   *)
(* code falls back on later pages too; its comment says it does not, and    *)
(* FallbackIsForTheFirstQuery is that claim.                                *)
FallbackCompletes ==
    (/\ pc = "returned" /\ fallback /\ ~ctxDone /\ ~service.flaky
     /\ service.plain[1]
     /\ \A p \in PageNumbers :
            /\ p # 1 => IF expand THEN service.expanded[p] ELSE service.plain[p]
            /\ service.next[p] # 1) => ~failed

(* The claim of the comment in the fallback (common/collection.go:190-191): *)
(* "allow for auto-fallback from $expand to regular this will only run on   *)
(* the first query, not future pages".  The options of the call go with the *)
(* next link, so every page that is refused falls back.                     *)
FallbackIsForTheFirstQuery == pc = "retry" => members = <<>>

(* No request is made in vain: at most one is still made after the context  *)
(* died, and a page costs at most two, however the service fails.           *)
NoWastedRequest ==
    /\ \A j, k \in 1..Len(log) : log[j].dead /\ log[k].dead => j = k
    /\ Len(log) <= 2 * (Len(members) + 1)

(* The call ends with its context, even on a listing whose next links form  *)
(* a circle.                                                                *)
CancelEndsListing == ctxDone ~> pc = "returned"
=============================================================================
