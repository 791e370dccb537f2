---------------------------- MODULE Subscriptions ----------------------------
(***************************************************************************)
(* Event subscriptions: CreateEventDestination and its Instance form,       *)
(* DeleteEventDestination, their wrappers in EventService, Subscribe and    *)
(* SubmitTestEvent of the ZT extension.  A subscription is known to the     *)
(* application by the link it got from the Location header (or, with ZT,    *)
(* from the body) of the answer.                                            *)
(***************************************************************************)
EXTENDS ServiceCall

VARIABLES
    subs,    \* the subscriptions at the service
    links,   \* those the application has a link to
    made     \* how many were ever made

subscriptions == <<subs, links, made>>

(* One subscription exists, made earlier. *)
SubscriptionsInit == subs = {0} /\ links = {0} /\ made = 1

(* The parameters are looked at before anything is sent. *)
Invalid ==
    /\ opc = "send" /\ op \in {"subscribe", "unsubscribe"}
    /\ Finish("final")
    /\ NoEffect
    /\ UNCHANGED subscriptions

(* Deviation: a Location that does not parse goes back to the caller        *)
(* without an error.                                                        *)
CreateSubscription_AnyLocation ==
    /\ opc = "send" /\ op \in {"subscribe", "ztSubscribe"}
    /\ \/ \E reply \in {"ok", "lost", "unusable"} :
            /\ Effect(reply, "nil")
            /\ subs' = subs \cup {made} /\ made' = made + 1
            /\ links' = IF reply = "ok" THEN links \cup {made} ELSE links
       \/ NotTaken /\ UNCHANGED subscriptions

(* A Location that does not parse comes back as it is, with the error: a     *)
(* caller that looks at the error first has no link, and that is the case    *)
(* taken here.                                                               *)
CreateSubscription ==
    /\ opc = "send" /\ op \in {"subscribe", "ztSubscribe"}
    /\ \/ \E reply \in {"ok", "lost", "unusable"} :
            /\ Effect(reply, "final")
            /\ subs' = subs \cup {made} /\ made' = made + 1
            /\ links' = IF reply = "ok" THEN links \cup {made} ELSE links
       \/ NotTaken /\ UNCHANGED subscriptions

(* A subscription that is gone is one the service does not know. *)
DeleteSubscription ==
    /\ opc = "send" /\ op = "unsubscribe"
    /\ \E link \in links :
        \/ /\ link \in subs
           /\ \E reply \in {"ok", "lost"} :
                /\ Effect(reply, "nil")
                /\ subs' = subs \ {link}
                /\ links' = IF reply = "ok" THEN links \ {link} ELSE links
                /\ UNCHANGED made
        \/ NotTaken /\ UNCHANGED subscriptions

(* An answer other than 202 Accepted is no error of the client's, but one of *)
(* SubmitTestEvent, which does not send the event again then.                *)
SubmitTestEvent ==
    /\ opc = "send" /\ op = "testEvent"
    /\ \/ \E reply \in {"ok", "lost", "unusable"} : Effect(reply, "notAccepted")
       \/ NotTaken
    /\ UNCHANGED subscriptions

Subscribing == Invalid \/ CreateSubscription \/ DeleteSubscription \/ SubmitTestEvent
=============================================================================
