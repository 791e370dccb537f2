-------------------------- MODULE SessionLifecycle --------------------------
(***************************************************************************)
(* How clients come by a session of the service, share it and give it up   *)
(* (client.go, redfish/session.go): Connect with a login, basic auth or a  *)
(* session from elsewhere; WithContext, whose copy shares the auth token;  *)
(* CloneWithSession, which logs in anew; GetSession; Logout.  Any number   *)
(* of these are under way at once, on clients that share an auth token or  *)
(* not, and a session may be handed to any number of Connects.             *)
(*                                                                         *)
(* A session created on the service stays there until it is deleted or     *)
(* expires, and a management controller has only a few of them, so losing  *)
(* track of one matters.                                                   *)
(***************************************************************************)
EXTENDS Naturals, FiniteSets

CONSTANTS
    Clients,        \* the APIClient values a program may hold
    NoAuth,         \* a client without authentication: a nil *AuthToken
    SessionBound,   \* how many sessions the service ever creates
    Given           \* whether a session made elsewhere may be handed to Connect

ASSUME SessionAssumption ==
    /\ NoAuth \notin Clients
    /\ SessionBound \in Nat /\ Given \in BOOLEAN /\ (Given => SessionBound # 0)

Sessions == 1..SessionBound
None == 0
Maybe == Sessions \cup {None}

VARIABLES
    up,         \* the clients the program holds
    authOf,     \* the auth object a client points to
    auth,       \* the auth objects, each named after the client it was made for
    ctxDead,    \* the clients whose cached context is done
    held,       \* the sessions whose location and token the program has as a value
    op,         \* the operation under way for each client
    server,     \* the sessions the service has
    created,    \* how many sessions it has created
    reliable,   \* whether requests and replies are never lost
    lost,       \* history: sessions whose creation the client was not told of
    confirmed   \* history: the sessions a Logout was told are gone, and through
                \* which auth object

clientVars == <<up, authOf, auth, ctxDead, held>>
serverVars == <<server, created>>
vars == <<clientVars, op, serverVars, reliable, lost, confirmed>>

(* An auth object, *redfish.AuthToken: every Connect and every CloneWithSession *)
(* makes one, every copy by WithContext shares that of its original.         *)
AuthRefs == Clients \cup {NoAuth}
Tokens == [session : Maybe, token : Maybe, credentials : BOOLEAN]
EmptyToken == [session |-> None, token |-> None, credentials |-> FALSE]
SessionToken(s) == [session |-> s, token |-> s, credentials |-> FALSE]
BasicToken == [session |-> None, token |-> None, credentials |-> TRUE]

Idle == [kind |-> "none", from |-> NoAuth, sid |-> None, ok |-> FALSE]
Ops == [kind : {"none", "root", "post", "reply", "delete", "deleted"},
        from : AuthRefs, sid : Maybe, ok : BOOLEAN]

TypeOK ==
    /\ up \in SUBSET Clients
    /\ authOf \in [Clients -> AuthRefs]
    /\ auth \in [Clients -> Tokens]
    /\ ctxDead \in SUBSET Clients /\ held \in SUBSET Sessions
    /\ op \in [Clients -> Ops]
    /\ \A c \in Clients : op[c].kind \in {"reply", "delete", "deleted"} => op[c].sid # None
    /\ server \in SUBSET Sessions /\ created \in 0..SessionBound
    /\ reliable \in BOOLEAN
    /\ lost \in SUBSET Sessions /\ confirmed \in SUBSET [session : Sessions, through : Clients]

Init ==
    /\ up = {} /\ ctxDead = {}
    /\ authOf = [c \in Clients |-> NoAuth]
    /\ auth = [a \in Clients |-> EmptyToken]
    /\ op = [c \in Clients |-> Idle]
    /\ IF Given THEN server = {1} /\ created = 1 ELSE server = {} /\ created = 0
    /\ reliable \in BOOLEAN
    /\ lost = server /\ held = server
    /\ confirmed = {}

Set(c, o) == op' = [op EXCEPT ![c] = o]
Session(c) == IF authOf[c] = NoAuth THEN None ELSE auth[authOf[c]].session

-----------------------------------------------------------------------------
(* Getting a client. *)

(* Connect without a login: no auth, basic auth, or a session the program   *)
(* has the location and the token of.  The new client has an auth object of *)
(* its own, whoever else uses that session.                                 *)
ConnectPlain(c) ==
    /\ c \notin up /\ op[c] = Idle
    /\ up' = up \cup {c}
    /\ \/ UNCHANGED <<authOf, auth, lost>>
       \/ /\ authOf' = [authOf EXCEPT ![c] = c]
          /\ auth' = [auth EXCEPT ![c] = BasicToken] /\ UNCHANGED lost
       \/ \E s \in held :
             /\ authOf' = [authOf EXCEPT ![c] = c]
             /\ auth' = [auth EXCEPT ![c] = SessionToken(s)]
             /\ lost' = lost \ {s}
    /\ UNCHANGED <<ctxDead, held, op, serverVars, reliable, confirmed>>

(* The session of a client, as a value that Connect takes. *)
GetSession(c) ==
    /\ c \in up /\ Session(c) # None
    /\ held' = held \cup {Session(c)}
    /\ UNCHANGED <<up, authOf, auth, ctxDead, op, serverVars, reliable, lost, confirmed>>

(* Connect with a login.  The root is read first, without credentials; when *)
(* that fails nothing has happened.                                         *)
ConnectLogin(c) ==
    /\ c \notin up /\ op[c] = Idle
    /\ Set(c, [Idle EXCEPT !.kind = "root"])
    /\ UNCHANGED <<clientVars, serverVars, reliable, lost, confirmed>>

(* CloneWithSession of p: refused when p has a session. *)
CloneWithSession(p, c) ==
    /\ p \in up /\ c \notin up /\ op[c] = Idle
    /\ authOf[p] # NoAuth /\ Session(p) = None
    /\ Set(c, [Idle EXCEPT !.kind = "root", !.from = authOf[p]])
    /\ UNCHANGED <<clientVars, serverVars, reliable, lost, confirmed>>

(* The service root: fetched, or the operation ends with an error. *)
ReadRoot(c) ==
    /\ op[c].kind = "root"
    /\ \/ Set(c, [op[c] EXCEPT !.kind = "post"])
       \/ ~reliable /\ Set(c, Idle)
    /\ UNCHANGED <<clientVars, serverVars, reliable, lost, confirmed>>

(* The login arrives and the service creates a session, or it does not      *)
(* arrive, or it is refused.  A clone of a logged out client has no         *)
(* credentials left to log in with.                                         *)
PostSession(c) ==
    /\ op[c].kind = "post"
    /\ \/ /\ created < SessionBound
          /\ op[c].from # NoAuth => auth[op[c].from].credentials
          /\ created' = created + 1 /\ server' = server \cup {created'}
          /\ \/ Set(c, [op[c] EXCEPT !.kind = "reply", !.sid = created']) /\ UNCHANGED lost
             \/ ~reliable /\ Set(c, Idle) /\ lost' = lost \cup {created'}
       \/ Set(c, Idle) /\ UNCHANGED <<serverVars, lost>>
    /\ UNCHANGED <<clientVars, reliable, confirmed>>

(* The reply: the token and the location go into a new auth object, which   *)
(* becomes that of the new client.  Without a Location header nobody can    *)
(* ever delete the session.                                                 *)
CreateSession(c) ==
    /\ op[c].kind = "reply"
    /\ LET s == op[c].sid IN
        \/ auth' = [auth EXCEPT ![c] = SessionToken(s)] /\ UNCHANGED lost
        \/ /\ ~reliable
           /\ auth' = [auth EXCEPT ![c] = [SessionToken(s) EXCEPT !.session = None]]
           /\ lost' = lost \cup {s}
    /\ authOf' = [authOf EXCEPT ![c] = c]
    /\ up' = up \cup {c}
    /\ Set(c, Idle)
    /\ UNCHANGED <<ctxDead, held, serverVars, reliable, confirmed>>

(* Deviation: the copy gets an auth object of its own. *)
WithContext_OwnAuth(p, c) ==
    /\ p \in up /\ c \notin up /\ op[c] = Idle /\ authOf[p] # NoAuth
    /\ up' = up \cup {c}
    /\ authOf' = [authOf EXCEPT ![c] = c]
    /\ auth' = [auth EXCEPT ![c] = auth[authOf[p]]]
    /\ UNCHANGED <<ctxDead, held, op, serverVars, reliable, lost, confirmed>>

(* A copy under another context; the auth object is shared. *)
WithContext(p, c) ==
    /\ p \in up /\ c \notin up /\ op[c] = Idle
    /\ up' = up \cup {c}
    /\ authOf' = [authOf EXCEPT ![c] = authOf[p]]
    /\ ctxDead' = ctxDead \ {c}
    /\ UNCHANGED <<auth, held, op, serverVars, reliable, lost, confirmed>>

-----------------------------------------------------------------------------
(* Giving it up. *)

(* Deviation: the cached context is used although it is dead. *)
Logout_CachedContext(c) ==
    /\ c \in up /\ op[c] = Idle /\ Session(c) # None /\ c \notin ctxDead
    /\ Set(c, [Idle EXCEPT !.kind = "delete", !.sid = Session(c)])
    /\ UNCHANGED <<clientVars, serverVars, reliable, lost, confirmed>>

(* Logout replaces a dead context by a live one, LogoutWithContext uses the *)
(* one it is given.  Without a location DELETE has no target and fails.     *)
Logout(c) ==
    /\ c \in up /\ op[c] = Idle /\ Session(c) # None
    /\ Set(c, [Idle EXCEPT !.kind = "delete", !.sid = Session(c)])
    /\ UNCHANGED <<clientVars, serverVars, reliable, lost, confirmed>>

(* The service deletes the session of a valid token; the request or the     *)
(* reply may be lost, and a session that is gone gives an error.            *)
DeleteSession(c) ==
    /\ op[c].kind = "delete"
    /\ \/ /\ op[c].sid \in server
          /\ server' = server \ {op[c].sid}
          /\ \E told \in BOOLEAN :
                /\ reliable => told
                /\ Set(c, [op[c] EXCEPT !.kind = "deleted", !.ok = told])
       \/ /\ op[c].sid \notin server \/ ~reliable
          /\ Set(c, [op[c] EXCEPT !.kind = "deleted"])
          /\ UNCHANGED server
    /\ UNCHANGED <<clientVars, created, reliable, lost, confirmed>>

Closed(c) == [session |-> op[c].sid, through |-> authOf[c]]

(* Deviation: the auth object is cleared before the error is looked at. *)
LogoutEnds_Always(c) ==
    /\ op[c].kind = "deleted"
    /\ auth' = [auth EXCEPT ![authOf[c]].session = None, ![authOf[c]].token = None]
    /\ confirmed' = IF op[c].ok THEN confirmed \cup {Closed(c)} ELSE confirmed
    /\ Set(c, Idle)
    /\ UNCHANGED <<up, authOf, ctxDead, held, serverVars, reliable, lost>>

(* Only a deletion without an error clears the auth object, for every client *)
(* that shares it; the credentials of basic auth are not touched.           *)
LogoutEnds(c) ==
    /\ op[c].kind = "deleted"
    /\ IF op[c].ok
       THEN /\ auth' = [auth EXCEPT ![authOf[c]].session = None, ![authOf[c]].token = None]
            /\ confirmed' = confirmed \cup {Closed(c)}
       ELSE UNCHANGED <<auth, confirmed>>
    /\ Set(c, Idle)
    /\ UNCHANGED <<up, authOf, ctxDead, held, serverVars, reliable, lost>>

-----------------------------------------------------------------------------
(* The world. *)

ContextDies(c) ==
    /\ c \in up \ ctxDead
    /\ ctxDead' = ctxDead \cup {c}
    /\ UNCHANGED <<up, authOf, auth, held, op, serverVars, reliable, lost, confirmed>>

SessionExpires(s) ==
    /\ s \in server /\ ~reliable
    /\ server' = server \ {s}
    /\ UNCHANGED <<clientVars, op, created, reliable, lost, confirmed>>

Progress(c) ==
    ReadRoot(c) \/ PostSession(c) \/ CreateSession(c) \/ DeleteSession(c) \/ LogoutEnds(c)

Next ==
    \/ \E c \in Clients : \/ ConnectPlain(c) \/ ConnectLogin(c) \/ Progress(c)
                          \/ GetSession(c) \/ Logout(c) \/ ContextDies(c)
    \/ \E p, c \in Clients : CloneWithSession(p, c) \/ WithContext(p, c)
    \/ \E s \in Sessions : SessionExpires(s)

(* Operations under way proceed, and the program logs out of each client it *)
(* holds, as the deferred call in the package's example does.               *)
Fairness == \A c \in Clients : WF_vars(Progress(c)) /\ WF_vars(Logout(c))

Spec == Init /\ [][Next]_vars /\ Fairness

-----------------------------------------------------------------------------
(* Properties. *)

(* No session is lost track of: whatever fails, and whoever shares the auth *)
(* object, each session of the service can still be logged out through some *)
(* client, unless the reply to its creation was lost or named no location.  *)
(* In particular a Logout that fails can be repeated.                       *)
SessionHasOwner == \A s \in server :
    \/ s \in lost
    \/ \E c \in Clients : op[c].kind = "reply" /\ op[c].sid = s
    \/ \E c \in up : Session(c) = s

(* Logging in, out and cloning leave basic authentication as it was: the    *)
(* parent of a clone never comes to use the session of its clone.           *)
BasicStaysBasic == \A a \in Clients :
    auth[a].credentials => auth[a].session = None /\ auth[a].token = None

(* After a confirmed Logout no client goes on sending the token of the      *)
(* session that is gone: not the one logged out, no copy of it by           *)
(* WithContext, and nobody at all unless the program took the session as a  *)
(* value, which it may have handed to other Connects, whose clients have    *)
(* auth objects that this Logout does not reach.                            *)
NoDeadToken == \A c \in up, x \in confirmed :
    authOf[c] # NoAuth /\ auth[authOf[c]].token = x.session =>
        x.session \in held /\ authOf[c] # x.through

(* When nothing is lost on the way, a program that defers Logout leaves no  *)
(* session of its own behind, whichever contexts have died by then.         *)
SessionsCleanedUp == \A s \in Sessions :
    (reliable /\ \E c \in up : Session(c) = s) ~> s \notin server
=============================================================================
