----------------------------- MODULE APIClient ------------------------------
(***************************************************************************)
(* The request pipeline of APIClient (client.go): what every HTTP verb of  *)
(* the library goes through.  A call builds the request, waits for one of  *)
(* the client's permits or for its context, performs the exchange, gives   *)
(* the permit back, and only then inspects what came: the peer             *)
(* certificate, the dump, the status.  Each element of Requests is one     *)
(* call, on a goroutine of its own; they share the semaphore, the dump     *)
(* writer and the pinned certificate.                                      *)
(*                                                                         *)
(* net/http is external: an exchange ends with a response or an error, and *)
(* with an error once the context is done.  A response that races with the *)
(* cancellation is one that arrived just before it.                        *)
(***************************************************************************)
EXTENDS Integers, FiniteSets

CONSTANTS
    Requests,               \* the calls made on the client
    MaxConcurrentRequests,  \* ClientConfig.MaxConcurrentRequests, any int64
    Certs,                  \* the certificates a peer may present
    NoCert                  \* no TLS, or the hash of no certificate

ASSUME RequestAssumption ==
    MaxConcurrentRequests \in Int /\ NoCert \notin Certs

VARIABLES
    sem,        \* how many tokens are in the channel c.sem
    pc,         \* where each call is
    method,     \* DELETE, whose wrapper closes the body, or another verb
    ctxDone,    \* the calls whose context is done
    dumping,    \* whether a dump writer is set
    certHash,   \* the certificate pinned when the client was set up
    monitoring, \* ClientConfig.EnableTLSHashMonitoring
    peer,       \* the certificate that came with the response
    body        \* the network body of each response

vars == <<sem, pc, method, ctxDone, dumping, certHash, monitoring, peer, body>>
settings == <<method, certHash, monitoring>>

(* The capacity of the channel: one permit when the caller asked for none. *)
Permits == IF MaxConcurrentRequests <= 0 THEN 1 ELSE MaxConcurrentRequests

Ended == {"returned", "failed", "panicked"}

TypeOK ==
    /\ sem \in Nat
    /\ pc \in [Requests -> {"idle", "queued", "doing", "answered", "inspecting",
                            "draining"} \cup Ended]
    /\ method \in [Requests -> {"DELETE", "OTHER"}]
    /\ ctxDone \in SUBSET Requests
    /\ dumping \in BOOLEAN
    /\ certHash \in Certs \cup {NoCert}
    /\ monitoring \in BOOLEAN
    /\ peer \in [Requests -> Certs \cup {NoCert}]
    /\ body \in [Requests -> {"none", "open", "closed"}]

Init ==
    /\ sem = 0
    /\ pc = [r \in Requests |-> "idle"]
    /\ method \in [Requests -> {"DELETE", "OTHER"}]
    /\ ctxDone = {}
    /\ dumping \in BOOLEAN
    /\ certHash \in Certs \cup {NoCert}
    /\ monitoring \in BOOLEAN
    /\ peer = [r \in Requests |-> NoCert]
    /\ body = [r \in Requests |-> "none"]

Goto(r, to) == pc' = [pc EXCEPT ![r] = to]

-----------------------------------------------------------------------------
(* The steps of one call. *)

(* The request is built and, when a writer is set, dumped.  Building fails *)
(* on an empty target, a payload that does not marshal, a malformed header *)
(* or a dump that cannot be made; a writer that fails panics.              *)
Build(r) ==
    /\ pc[r] = "idle"
    /\ \/ Goto(r, "queued")
       \/ Goto(r, "failed")
       \/ dumping /\ Goto(r, "panicked")
    /\ UNCHANGED <<sem, ctxDone, dumping, peer, body, settings>>

(* Deviation: the permit is taken without waiting for a free one. *)
Acquire_Unbounded(r) ==
    /\ pc[r] = "queued"
    /\ sem' = sem + 1
    /\ Goto(r, "doing")
    /\ UNCHANGED <<ctxDone, dumping, peer, body, settings>>

(* The two branches of the select; Go picks at random when both are ready. *)
Acquire(r) ==
    /\ pc[r] = "queued"
    /\ sem < Permits
    /\ sem' = sem + 1
    /\ Goto(r, "doing")
    /\ UNCHANGED <<ctxDone, dumping, peer, body, settings>>

(* Deviation: the context is looked at only once a permit is free. *)
GiveUp_OnlyWithPermit(r) ==
    /\ pc[r] = "queued" /\ sem < Permits
    /\ r \in ctxDone
    /\ Goto(r, "failed")
    /\ UNCHANGED <<sem, ctxDone, dumping, peer, body, settings>>

GiveUp(r) ==
    /\ pc[r] = "queued"
    /\ r \in ctxDone
    /\ Goto(r, "failed")
    /\ UNCHANGED <<sem, ctxDone, dumping, peer, body, settings>>

(* HTTPClient.Do returns: a response with an open body, or an error. *)
Answer(r) ==
    /\ pc[r] = "doing"
    /\ r \notin ctxDone
    /\ Goto(r, "answered")
    /\ \E c \in Certs \cup {NoCert} : peer' = [peer EXCEPT ![r] = c]
    /\ body' = [body EXCEPT ![r] = "open"]
    /\ UNCHANGED <<sem, ctxDone, dumping, settings>>

DoError(r) ==
    /\ pc[r] = "doing"
    /\ Goto(r, "answered")
    /\ UNCHANGED <<sem, ctxDone, dumping, peer, body, settings>>

(* Deviation: the error of Do returns before the permit is given back. *)
Release_OnlyWithResponse(r) ==
    /\ pc[r] = "answered"
    /\ sem' = IF body[r] = "open" THEN sem - 1 ELSE sem
    /\ Goto(r, "inspecting")
    /\ UNCHANGED <<ctxDone, dumping, peer, body, settings>>

(* The permit goes back before the error of Do is looked at. *)
Release(r) ==
    /\ pc[r] = "answered"
    /\ sem' = sem - 1
    /\ Goto(r, "inspecting")
    /\ UNCHANGED <<ctxDone, dumping, peer, body, settings>>

(* checkCertHashMismatch: only a response that carries a certificate can  *)
(* disagree with the pinned one.                                          *)
Mismatch(r) ==
    /\ monitoring /\ certHash # NoCert
    /\ peer[r] # NoCert /\ peer[r] # certHash

CloseIt(r) == body' = [body EXCEPT ![r] = "closed"]

NoResponse(r) == body[r] = "none" /\ Goto(r, "failed") /\ UNCHANGED body

(* Deviation: the mismatch returns without the deferred cleanup. *)
RejectPeer_LeavesBody(r) ==
    body[r] = "open" /\ Mismatch(r) /\ Goto(r, "failed") /\ UNCHANGED body

RejectPeer(r) ==
    body[r] = "open" /\ Mismatch(r) /\ Goto(r, "failed") /\ CloseIt(r)

(* DumpResponse reads the body to its end and closes it before the copy is *)
(* written; when it cannot read it, the deferred cleanup closes it.        *)
DumpFails(r) ==
    /\ dumping
    /\ Goto(r, "failed") \/ Goto(r, "panicked")
    /\ CloseIt(r)

(* The status is 200, 201, 202 or 204.  The DELETE wrapper closes the body *)
(* of the response it returns.                                             *)
Deliver(r) ==
    /\ Goto(r, "returned")
    /\ IF dumping \/ method[r] = "DELETE" THEN CloseIt(r) ELSE UNCHANGED body

(* Any other status: the body still has to be read into the error. *)
ErrorStatus(r) ==
    /\ Goto(r, "draining")
    /\ IF dumping THEN CloseIt(r) ELSE UNCHANGED body

(* Deviation: the certificate is not compared. *)
Inspect_SkipsPeer(r) ==
    /\ pc[r] = "inspecting"
    /\ \/ NoResponse(r)
       \/ body[r] = "open" /\ (DumpFails(r) \/ Deliver(r) \/ ErrorStatus(r))
    /\ UNCHANGED <<sem, ctxDone, dumping, peer, settings>>

(* Everything between the release of the permit and the return.  The dump  *)
(* writer is read again here: it need not be the one Build saw.            *)
Inspect(r) ==
    /\ pc[r] = "inspecting"
    /\ \/ NoResponse(r)
       \/ RejectPeer(r)
       \/ /\ body[r] = "open" /\ ~Mismatch(r)
          /\ DumpFails(r) \/ Deliver(r) \/ ErrorStatus(r)
    /\ UNCHANGED <<sem, ctxDone, dumping, peer, settings>>

(* ReadAll of an error response ends, well or not, and the call fails. *)
Drain(r) ==
    /\ pc[r] = "draining"
    /\ Goto(r, "failed")
    /\ CloseIt(r)
    /\ UNCHANGED <<sem, ctxDone, dumping, peer, settings>>

-----------------------------------------------------------------------------
(* The steps of the callers. *)

(* The caller is done with the response (DeferredCleanupHTTPResponse). *)
Cleanup(r) ==
    /\ pc[r] = "returned" /\ body[r] = "open"
    /\ CloseIt(r)
    /\ UNCHANGED <<sem, pc, ctxDone, dumping, peer, settings>>

SetDumpWriter ==
    /\ dumping' = ~dumping
    /\ UNCHANGED <<sem, pc, ctxDone, peer, body, settings>>

(* A context dies, and with it every call made under it. *)
Cancel(R) ==
    /\ ctxDone' = ctxDone \cup R
    /\ UNCHANGED <<sem, pc, dumping, peer, body, settings>>

Step(r) ==
    \/ Build(r) \/ Acquire(r) \/ GiveUp(r) \/ Answer(r) \/ DoError(r)
    \/ Release(r) \/ Inspect(r) \/ Drain(r) \/ Cleanup(r)

Next ==
    \/ \E r \in Requests : Step(r) \/ Cancel({r})
    \/ SetDumpWriter

(* The goroutine of a call keeps running.  Nothing is assumed of the       *)
(* service: an exchange or the read of a body need not end before the      *)
(* context of the call is done.                                            *)
Fairness == \A r \in Requests :
    /\ WF_vars(Acquire(r) \/ GiveUp(r))
    /\ WF_vars(Release(r))
    /\ WF_vars(r \in ctxDone /\ (DoError(r) \/ Inspect(r) \/ Drain(r)))

Spec == Init /\ [][Next]_vars /\ Fairness

-----------------------------------------------------------------------------
(* Properties. *)

Holders == {r \in Requests : pc[r] \in {"doing", "answered"}}

(* The tokens in the channel are exactly the calls between acquireSemaphore *)
(* and releaseSemaphore, whatever error, panic or cancellation ends them:   *)
(* a token that outlived its call would in the end block every caller.      *)
PermitsConserved ==
    IsFiniteSet(Holders) /\ sem = Cardinality(Holders) /\ sem <= Permits

(* A call that ends with an error or a panic leaves no network body open,  *)
(* since its caller gets no response to close, and neither does a DELETE.  *)
BodyDiscipline == \A r \in Requests :
    body[r] = "open" =>
        \/ pc[r] \in {"answered", "inspecting", "draining"}
        \/ pc[r] = "returned" /\ method[r] # "DELETE"

(* With monitoring on, neither the caller nor the error constructor reads a *)
(* body that came with another certificate than the pinned one.             *)
PinnedPeer == \A r \in Requests :
    pc[r] \in {"returned", "draining"} => ~Mismatch(r)

(* A call whose context is done ends, even when the service never answers  *)
(* anyone and every permit stays taken.                                    *)
CancelledCallEnds == \A r \in Requests :
    (r \in ctxDone /\ pc[r] # "idle") ~> pc[r] \in Ended

(* The semaphore is a counting semaphore over the calls in an exchange. *)
Slot == INSTANCE BoundedSlots WITH
            Users <- Requests, Slots <- Permits, holding <- Holders
ImplementsSlots == Slot!Spec
=============================================================================
