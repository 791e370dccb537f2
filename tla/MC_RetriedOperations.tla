------------------------- MODULE MC_RetriedOperations -------------------------
(***************************************************************************)
(* RetriedOperations with two attributes, one of which is ordered, and two  *)
(* values: enough for a change that is pending, taken back, or overtaken.   *)
(***************************************************************************)
EXTENDS RetriedOperations

\* Configurations that differ in nothing the operation looks at are taken once: the values
\* of an attribute are alike, an operation that is not called is any of them, and only
\* settings have attributes.
MCInit ==
    /\ Init
    /\ \A a \in Attributes : raw[a] = 0
    /\ monitor.manager = "known" => ~monitor.reset
    /\ monitor.loop = "idrac" /\ (monitor.manager # "known" \/ monitor.retries < 0) => op = "subscribe"
    /\ op \notin Settings => want = raw /\ pending = raw
    /\ op \notin Settings \cup {"account"} => tags
    /\ op # "account" => matching

MCSpec == MCInit /\ [][Next]_allVars /\ Fairness
=============================================================================
