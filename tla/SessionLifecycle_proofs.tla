----------------------- MODULE SessionLifecycle_proofs -----------------------
(***************************************************************************)
(* Ownership of sessions, for any number of clients and of sessions.       *)
(*                                                                         *)
(* That every session has an owner is kept only because a Logout under way *)
(* is about the session of the auth object its client points to, or about  *)
(* one that this object was already rid of; and because nobody knows of a  *)
(* session whose reply is on its way.  A token outlives its session only   *)
(* in a second auth object, and only a session that the program took as a  *)
(* value is in two of them.                                                *)
(***************************************************************************)
EXTENDS SessionLifecycle, TLAPS

(* The session of an auth object is that of its token, and it has either a  *)
(* token or credentials.  Two objects with one token are of a held session. *)
Objects == \A a \in Clients :
    /\ auth[a].session \in {None, auth[a].token}
    /\ auth[a].credentials => auth[a].token = None
    /\ \A b \in Clients : a # b /\ auth[a].token = auth[b].token =>
         auth[a].token = None \/ auth[a].token \in held

(* A Logout under way is about the session of the auth object, unless       *)
(* another one through the same object was confirmed before it.             *)
Deleting(c) ==
    \/ auth[authOf[c]] = SessionToken(op[c].sid)
    \/ auth[authOf[c]] = EmptyToken /\ Closed(c) \in confirmed

(* Who logs in has no client yet, who logs out has one and a session; a     *)
(* deletion that was confirmed happened.  An auth object in use is that of  *)
(* a client that is up.                                                     *)
Roles == \A c \in Clients :
    /\ authOf[c] \in up \cup {NoAuth}
    /\ c \notin up => authOf[c] = NoAuth
    /\ op[c].kind \in {"root", "post", "reply"} => c \notin up
    /\ op[c].kind \in {"delete", "deleted"} => c \in up /\ authOf[c] # NoAuth /\ Deleting(c)
    /\ op[c].ok => op[c].kind = "deleted" /\ op[c].sid \notin server

(* A session that nobody knows of. *)
Unclaimed(s) ==
    /\ \A a \in Clients : auth[a].token # s
    /\ s \notin held /\ \A x \in confirmed : x.session # s

Pending == \A c \in Clients : op[c].kind = "reply" =>
    /\ Unclaimed(op[c].sid) /\ op[c].sid <= created
    /\ \A d \in Clients : op[d].kind = "reply" /\ op[d].sid = op[c].sid => d = c

(* Nothing is known of sessions that do not exist yet. *)
Fresh == \A s \in Sessions : s > created => Unclaimed(s) /\ s \notin server

(* The auth object of a confirmed Logout is empty for good, and a token of  *)
(* that session that is left is of a session the program holds.             *)
Gone == \A x \in confirmed :
    /\ x.through \in up /\ auth[x.through] = EmptyToken
    /\ \A a \in Clients : auth[a].token = x.session => x.session \in held

Ownership == TypeOK /\ Objects /\ Roles /\ Pending /\ Fresh /\ Gone /\ SessionHasOwner

-----------------------------------------------------------------------------
LEMMA IdsApart ==
    /\ NoAuth \notin Clients /\ AuthRefs = Clients \cup {NoAuth}
    /\ Sessions \subseteq Nat /\ None \notin Sessions /\ SessionBound \in Nat
BY SessionAssumption DEF AuthRefs, Sessions, None

LEMMA RecordTypes ==
    /\ EmptyToken \in Tokens /\ BasicToken \in Tokens /\ Idle \in Ops
    /\ \A s \in Maybe : SessionToken(s) \in Tokens
BY DEF EmptyToken, BasicToken, SessionToken, Tokens, Maybe, Idle, Ops, AuthRefs

Others(c) == \A d \in Clients : d # c => op'[d] = op[d]

LEMMA SetFacts ==
  ASSUME TypeOK, NEW c \in Clients, NEW o \in Ops, Set(c, o)
  PROVE  op' \in [Clients -> Ops] /\ op'[c] = o /\ Others(c)
BY DEF TypeOK, Set, Others

(* What an operation of c may have become, as Roles has it. *)
Role(c) ==
    /\ op[c].kind \in {"root", "post", "reply"} => c \notin up
    /\ op[c].kind \in {"delete", "deleted"} =>
         c \in up /\ authOf[c] # NoAuth /\ Deleting(c) /\ op[c].sid # None
    /\ op[c].ok => op[c].kind = "deleted" /\ op[c].sid \notin server

(* Steps that change only the operation of c, and not from or to a reply.   *)
LEMMA OpOnly ==
  ASSUME Ownership, NEW c \in Clients, op' \in [Clients -> Ops], Others(c),
         op[c].kind # "reply", op'[c].kind # "reply", Role(c)',
         UNCHANGED <<up, authOf, auth, ctxDead, held, server, created, reliable, lost, confirmed>>
  PROVE  Ownership'
<1> USE DEF Ownership, Others
<1>1. TypeOK'
  BY DEF TypeOK, Role
<1>2. Objects' /\ Gone' /\ Fresh'
  BY DEF Objects, Gone, Fresh, Unclaimed
<1>3. Roles'
  BY DEF Roles, Role, Deleting, Closed
<1>4. Pending'
  BY DEF Pending, Unclaimed
<1>5. SessionHasOwner'
  BY DEF SessionHasOwner, Session
<1> QED BY <1>1, <1>2, <1>3, <1>4, <1>5

LEMMA LoginKeeps ==
  ASSUME NEW c \in Clients, Ownership, ConnectLogin(c) \/ \E p \in Clients : CloneWithSession(p, c)
  PROVE  Ownership'
<1>1. PICK o \in Ops : Set(c, o) /\ o.kind = "root" /\ ~o.ok
  <2>1. CASE ConnectLogin(c)
    <3>1. [Idle EXCEPT !.kind = "root"] \in Ops
      BY DEF Idle, Ops, Maybe, AuthRefs
    <3>2. Set(c, [Idle EXCEPT !.kind = "root"])
      BY <2>1 DEF ConnectLogin
    <3> QED BY <3>1, <3>2 DEF Idle
  <2>2. CASE \E p \in Clients : CloneWithSession(p, c)
    <3>1. PICK p \in Clients : Set(c, [Idle EXCEPT !.kind = "root", !.from = authOf[p]])
      BY <2>2 DEF CloneWithSession
    <3>2. [Idle EXCEPT !.kind = "root", !.from = authOf[p]] \in Ops
      BY DEF Idle, Ops, Maybe, Ownership, TypeOK
    <3> QED BY <3>1, <3>2 DEF Idle
  <2> QED BY <2>1, <2>2
<1>2. op' \in [Clients -> Ops] /\ op'[c] = o /\ Others(c)
  BY <1>1, SetFacts DEF Ownership
<1>3. op[c] = Idle /\ c \notin up /\ UNCHANGED <<clientVars, serverVars, reliable, lost, confirmed>>
  BY DEF ConnectLogin, CloneWithSession
<1> QED BY <1>1, <1>2, <1>3, OpOnly DEF Role, clientVars, serverVars, Idle

LEMMA ReadRootKeeps == ASSUME NEW c \in Clients, Ownership, ReadRoot(c) PROVE Ownership'
<1>1. op[c].kind = "root" /\ ~op[c].ok /\ c \notin up /\ op[c] \in Ops
  BY DEF ReadRoot, Ownership, Roles, TypeOK
<1>2. PICK o \in Ops : Set(c, o) /\ o.kind \in {"none", "post"} /\ ~o.ok
  <2>1. Idle \in Ops /\ Idle.kind = "none" /\ ~Idle.ok
    BY RecordTypes DEF Idle
  <2>2. /\ [op[c] EXCEPT !.kind = "post"] \in Ops
        /\ [op[c] EXCEPT !.kind = "post"].kind = "post" /\ ~[op[c] EXCEPT !.kind = "post"].ok
    BY <1>1 DEF Ops
  <2> QED BY <2>1, <2>2 DEF ReadRoot
<1>3. op' \in [Clients -> Ops] /\ op'[c] = o /\ Others(c)
  BY <1>2, SetFacts DEF Ownership
<1>4. UNCHANGED <<clientVars, serverVars, reliable, lost, confirmed>>
  BY DEF ReadRoot
<1> QED BY <1>1, <1>2, <1>3, <1>4, OpOnly DEF Role, clientVars, serverVars

LEMMA LogoutKeeps == ASSUME NEW c \in Clients, Ownership, Logout(c) PROVE Ownership'
<1> DEFINE s == Session(c)
<1>1. op[c] = Idle /\ c \in up /\ s # None /\ authOf[c] # NoAuth /\ authOf[c] \in Clients
  BY IdsApart DEF Logout, Session, Ownership, TypeOK
<1>2. auth[authOf[c]] \in Tokens /\ auth[authOf[c]].session = s /\ s \in Maybe
  BY <1>1 DEF Session, Ownership, TypeOK, Tokens
<1>3. auth[authOf[c]].token = s /\ auth[authOf[c]].credentials = FALSE
  BY <1>1, <1>2 DEF Ownership, Objects, Tokens
<1>4. auth[authOf[c]] = SessionToken(s)
  BY <1>2, <1>3 DEF Tokens, SessionToken
<1>5. PICK o \in Ops : Set(c, o) /\ o.kind = "delete" /\ ~o.ok /\ o.sid = s
  <2> HIDE DEF s
  <2>1. /\ [Idle EXCEPT !.kind = "delete", !.sid = s] \in Ops
        /\ [Idle EXCEPT !.kind = "delete", !.sid = s].kind = "delete"
        /\ [Idle EXCEPT !.kind = "delete", !.sid = s].sid = s
        /\ ~[Idle EXCEPT !.kind = "delete", !.sid = s].ok
    BY <1>2 DEF Idle, Ops, AuthRefs
  <2>2. Set(c, [Idle EXCEPT !.kind = "delete", !.sid = s])
    BY DEF Logout, s
  <2> QED BY <2>1, <2>2
<1>6. op' \in [Clients -> Ops] /\ op'[c] = o /\ Others(c)
  BY <1>5, SetFacts DEF Ownership
<1>7. UNCHANGED <<up, authOf, auth, ctxDead, held, server, created, reliable, lost, confirmed>>
  BY DEF Logout, clientVars, serverVars
<1>8. Role(c)'
  <2> HIDE DEF s
  <2> QED BY <1>1, <1>4, <1>5, <1>6, <1>7 DEF Role, Deleting
<1>9. op[c].kind # "reply" /\ op'[c].kind # "reply"
  BY <1>1, <1>5, <1>6 DEF Idle
<1> QED BY <1>6, <1>7, <1>8, <1>9, OpOnly

LEMMA ContextDiesKeeps == ASSUME NEW c \in Clients, Ownership, ContextDies(c) PROVE Ownership'
BY DEF Ownership, ContextDies, serverVars, TypeOK, Objects, Roles, Pending, Fresh, Gone, SessionHasOwner,
       Unclaimed, Session, Deleting, Closed

LEMMA SessionExpiresKeeps == ASSUME NEW s \in Sessions, Ownership, SessionExpires(s) PROVE Ownership'
<1> USE DEF Ownership, SessionExpires, clientVars
<1>1. TypeOK' /\ Objects' /\ Pending' /\ Fresh' /\ Gone'
  BY DEF TypeOK, Objects, Pending, Fresh, Gone, Unclaimed
<1>2. Roles' /\ SessionHasOwner'
  BY DEF Roles, Deleting, Closed, SessionHasOwner, Session
<1> QED BY <1>1, <1>2

(* A session that a client has is known, so taking it as a value takes none *)
(* that is still unclaimed.                                                 *)
LEMMA GetSessionKeeps == ASSUME NEW c \in Clients, Ownership, GetSession(c) PROVE Ownership'
<1> USE IdsApart DEF Ownership
<1> PICK s : s = Session(c)
  OBVIOUS
<1>0. /\ s # None /\ held' = held \cup {s}
      /\ UNCHANGED <<up, authOf, auth, ctxDead, op, server, created, reliable, lost, confirmed>>
  BY DEF GetSession, serverVars
<1>1. authOf[c] \in Clients /\ auth[authOf[c]].session = s /\ auth[authOf[c]] \in Tokens
  BY <1>0 DEF Session, TypeOK
<1>2. auth[authOf[c]].token = s /\ s \in Sessions
  BY <1>0, <1>1 DEF Objects, Tokens, Maybe
<1>3. \A t : Unclaimed(t) => Unclaimed(t)'
  BY <1>0, <1>1, <1>2 DEF Unclaimed
<1>4. TypeOK' /\ Objects' /\ Gone'
  BY <1>0, <1>2 DEF TypeOK, Objects, Gone
<1>5. Roles' /\ SessionHasOwner'
  BY <1>0 DEF Roles, Deleting, Closed, SessionHasOwner, Session
<1>6. Pending' /\ Fresh'
  BY <1>0, <1>3 DEF Pending, Fresh
<1> QED BY <1>4, <1>5, <1>6

LEMMA WithContextKeeps == ASSUME NEW p \in Clients, NEW c \in Clients, Ownership, WithContext(p, c) PROVE Ownership'
<1> USE IdsApart DEF Ownership, WithContext, serverVars
<1>1. TypeOK'
  BY DEF TypeOK
<1>2. Objects' /\ Gone' /\ Pending' /\ Fresh'
  BY DEF Objects, Gone, Pending, Fresh, Unclaimed
<1>3. Roles'
  <2>1. op[c].kind = "none" /\ op' = op
    BY DEF Idle
  <2>2. ASSUME NEW d \in Clients, d # c PROVE authOf'[d] = authOf[d] /\ (Deleting(d) => Deleting(d)')
    BY <2>2 DEF TypeOK, Deleting, Closed
  <2>3. authOf'[c] = authOf[p] /\ up' = up \cup {c} /\ c \notin up
    BY DEF TypeOK
  <2> QED BY <2>1, <2>2, <2>3 DEF Roles
<1>4. SessionHasOwner'
  BY DEF TypeOK, Roles, SessionHasOwner, Session
<1> QED BY <1>1, <1>2, <1>3, <1>4

(* A client that comes up with an auth object made for it: nobody used that *)
(* object before, and its token is none, or of a held session, or of one    *)
(* that nobody knew of.                                                     *)
LEMMA NewObject ==
  ASSUME Ownership, NEW c \in Clients, c \notin up, NEW t \in Tokens,
         up' = up \cup {c}, authOf' = [authOf EXCEPT ![c] = c], auth' = [auth EXCEPT ![c] = t],
         UNCHANGED <<held, confirmed, server>>,
         t.session \in {None, t.token}, t.credentials => t.token = None,
         t.token # None => t.token \in held \/ Unclaimed(t.token)
  PROVE  /\ authOf' \in [Clients -> AuthRefs] /\ auth' \in [Clients -> Tokens]
         /\ Objects' /\ Gone' /\ authOf'[c] = c
         /\ \A d \in Clients : d # c => authOf'[d] = authOf[d] /\ authOf[d] \in up \cup {NoAuth}
         /\ \A d \in Clients : d # c /\ op'[d] = op[d] /\ authOf[d] # NoAuth => (Deleting(d) => Deleting(d)')
         /\ \A s \in Sessions : Unclaimed(s) /\ s # t.token => Unclaimed(s)'
         /\ \A d \in up : Session(d)' = Session(d)
         /\ Session(c)' = t.session
<1> USE IdsApart DEF Ownership
<1>1. authOf' \in [Clients -> AuthRefs] /\ auth' \in [Clients -> Tokens] /\ authOf'[c] = c /\ auth'[c] = t
  BY DEF TypeOK
<1>2. \A d \in Clients : d # c => authOf'[d] = authOf[d] /\ auth'[d] = auth[d]
  BY DEF TypeOK
<1>3. \A d \in Clients : authOf[d] \in up \cup {NoAuth} /\ authOf[d] # c
  BY DEF Roles
<1>4. Objects'
  BY <1>1, <1>2 DEF Objects, Unclaimed
<1>5. Gone'
  <2> SUFFICES ASSUME NEW x \in confirmed
               PROVE  /\ x.through \in up' /\ auth'[x.through] = EmptyToken
                      /\ \A a \in Clients : auth'[a].token = x.session => x.session \in held
    BY DEF Gone
  <2>1. x.through \in up /\ x.through \in Clients /\ x.session \in Sessions
    BY DEF Gone, TypeOK
  <2> QED BY <1>1, <1>2, <2>1 DEF Gone, Unclaimed
<1>6. ASSUME NEW d \in Clients, d # c, op'[d] = op[d], authOf[d] # NoAuth, Deleting(d) PROVE Deleting(d)'
  <2>1. authOf'[d] = authOf[d] /\ auth'[authOf[d]] = auth[authOf[d]]
    BY <1>2, <1>3, <1>6 DEF TypeOK
  <2> QED BY <1>6, <2>1 DEF Deleting, Closed
<1>7. ASSUME NEW s \in Sessions, Unclaimed(s), s # t.token PROVE Unclaimed(s)'
  BY <1>1, <1>2, <1>7 DEF Unclaimed
<1>8. ASSUME NEW d \in up PROVE Session(d)' = Session(d)
  <2>1. d \in Clients /\ d # c
    BY DEF TypeOK
  <2>2. authOf[d] # NoAuth => authOf[d] \in Clients /\ auth'[authOf[d]] = auth[authOf[d]]
    BY <1>2, <1>3, <2>1 DEF TypeOK
  <2> QED BY <1>2, <2>1, <2>2 DEF Session
<1>9. Session(c)' = t.session
  BY <1>1 DEF Session
<1> QED BY <1>1, <1>2, <1>3, <1>4, <1>5, <1>6, <1>7, <1>8, <1>9

(* Connect without a login: the client has no auth object, a basic one, or  *)
(* one of the session it was handed.                                        *)
LEMMA ConnectPlainKeeps == ASSUME NEW c \in Clients, Ownership, ConnectPlain(c) PROVE Ownership'
<1> USE IdsApart, RecordTypes DEF Ownership
<1>0. /\ c \notin up /\ up' = up \cup {c} /\ op[c] = Idle /\ authOf[c] = NoAuth
      /\ UNCHANGED <<ctxDead, held, op, server, created, reliable, confirmed>>
  BY DEF ConnectPlain, serverVars, Roles
<1>1. CASE UNCHANGED <<authOf, auth, lost>>
  BY <1>0, <1>1 DEF TypeOK, Objects, Roles, Pending, Fresh, Gone, SessionHasOwner, Unclaimed, Session,
                    Deleting, Closed, Idle
<1>2. CASE \E t \in Tokens :
             /\ authOf' = [authOf EXCEPT ![c] = c] /\ auth' = [auth EXCEPT ![c] = t]
             /\ \/ t = BasicToken /\ UNCHANGED lost
                \/ \E s \in held : t = SessionToken(s) /\ lost' = lost \ {s}
  <2>1. PICK t \in Tokens :
             /\ authOf' = [authOf EXCEPT ![c] = c] /\ auth' = [auth EXCEPT ![c] = t]
             /\ \/ t = BasicToken /\ UNCHANGED lost
                \/ \E s \in held : t = SessionToken(s) /\ lost' = lost \ {s}
    BY <1>2
  <2>2. /\ t.session \in {None, t.token} /\ (t.credentials => t.token = None)
        /\ t.token # None => t.token \in held
    BY <2>1 DEF BasicToken, SessionToken
  <2>3. /\ authOf' \in [Clients -> AuthRefs] /\ auth' \in [Clients -> Tokens]
        /\ Objects' /\ Gone' /\ authOf'[c] = c
        /\ \A d \in Clients : d # c => authOf'[d] = authOf[d] /\ authOf[d] \in up \cup {NoAuth}
        /\ \A d \in Clients : d # c /\ authOf[d] # NoAuth => (Deleting(d) => Deleting(d)')
        /\ \A s \in Sessions : Unclaimed(s) /\ s # t.token => Unclaimed(s)'
        /\ \A d \in up : Session(d)' = Session(d)
        /\ Session(c)' = t.session
    BY <1>0, <2>1, <2>2, NewObject
  <2>4. TypeOK'
    BY <1>0, <2>1, <2>3 DEF TypeOK
  <2>5. Roles'
    BY <1>0, <2>3 DEF Roles, Idle
  <2>6. \A s \in Sessions : Unclaimed(s) => Unclaimed(s)'
    BY <2>2, <2>3 DEF Unclaimed
  <2>7. Pending' /\ Fresh'
    BY <1>0, <2>6 DEF Pending, Fresh, TypeOK, Ops, Maybe
  <2>8. SessionHasOwner'
    <3> SUFFICES ASSUME NEW s \in server, s \notin lost'
                 PROVE  \/ \E d \in Clients : op[d].kind = "reply" /\ op[d].sid = s
                        \/ \E d \in up' : Session(d)' = s
      BY <1>0 DEF SessionHasOwner
    <3>1. CASE s \in lost
      BY <1>0, <2>1, <2>3, <3>1 DEF SessionToken
    <3>2. CASE s \notin lost
      BY <1>0, <2>3, <3>2 DEF SessionHasOwner
    <3> QED BY <3>1, <3>2
  <2> QED BY <2>3, <2>4, <2>5, <2>7, <2>8
<1>3. \A s \in held : SessionToken(s) \in Tokens
  BY DEF TypeOK, Maybe
<1> QED BY <1>1, <1>2, <1>3 DEF ConnectPlain

LEMMA PostSessionKeeps == ASSUME NEW c \in Clients, Ownership, PostSession(c) PROVE Ownership'
<1> USE IdsApart DEF Ownership
<1>0. /\ op[c].kind = "post" /\ c \notin up /\ op[c] \in Ops /\ ~op[c].ok
      /\ UNCHANGED <<up, authOf, auth, ctxDead, held, reliable, confirmed>>
  BY DEF PostSession, clientVars, Roles, TypeOK
<1>1. CASE Set(c, Idle) /\ UNCHANGED <<serverVars, lost>>
  <2>2. op' \in [Clients -> Ops] /\ op'[c] = Idle /\ Others(c)
    BY <1>1, RecordTypes, SetFacts
  <2> QED BY <1>0, <1>1, <2>2, OpOnly DEF Role, Idle, serverVars
<1>2. CASE /\ created < SessionBound /\ created' = created + 1 /\ server' = server \cup {created'}
           /\ \/ Set(c, [op[c] EXCEPT !.kind = "reply", !.sid = created']) /\ UNCHANGED lost
              \/ Set(c, Idle) /\ lost' = lost \cup {created'}
  <2> PICK n : n = created + 1
    OBVIOUS
  <2>1. n \in Sessions /\ n > created /\ created \in Nat
    BY <1>2 DEF Sessions, TypeOK
  <2>2. Unclaimed(n) /\ n \notin server
    BY <2>1 DEF Fresh
  <2>3. PICK o \in Ops : /\ Set(c, o) /\ ~o.ok
                         /\ \/ o.kind = "reply" /\ o.sid = n /\ lost' = lost
                            \/ o.kind = "none" /\ lost' = lost \cup {n}
    <3>1. Idle \in Ops /\ Idle.kind = "none" /\ ~Idle.ok
      BY RecordTypes DEF Idle
    <3>2. /\ [op[c] EXCEPT !.kind = "reply", !.sid = n] \in Ops
          /\ [op[c] EXCEPT !.kind = "reply", !.sid = n].kind = "reply"
          /\ [op[c] EXCEPT !.kind = "reply", !.sid = n].sid = n
          /\ ~[op[c] EXCEPT !.kind = "reply", !.sid = n].ok
      BY <1>0, <2>1 DEF Ops, Maybe
    <3>3. created' = n
      BY <1>2
    <3> QED BY <1>2, <3>1, <3>2, <3>3
  <2>4. op' \in [Clients -> Ops] /\ op'[c] = o /\ Others(c)
    BY <2>3, SetFacts
  <2>5. created' = n /\ server' = server \cup {n}
    BY <1>2
  <2>6. TypeOK'
    <3>1. created' \in 0..SessionBound /\ server' \subseteq Sessions /\ lost' \subseteq Sessions
      BY <1>2, <2>1, <2>3, <2>5 DEF TypeOK, Sessions
    <3>2. \A d \in Clients : op'[d].kind \in {"reply", "delete", "deleted"} => op'[d].sid # None
      BY <2>1, <2>3, <2>4 DEF TypeOK, Others
    <3> QED BY <1>0, <2>4, <3>1, <3>2 DEF TypeOK
  <2>7. Objects' /\ Gone' /\ \A s : Unclaimed(s) => Unclaimed(s)'
    BY <1>0 DEF Objects, Gone, Unclaimed
  <2>8. Roles'
    <3>1. ASSUME NEW d \in Clients, d # c
          PROVE  op'[d] = op[d] /\ (Deleting(d) => Deleting(d)')
      BY <1>0, <2>4, <3>1 DEF Others, Deleting, Closed
    <3>2. ASSUME NEW d \in Clients, d # c, op[d].ok PROVE op[d].kind = "deleted" /\ op[d].sid \notin server'
      <4>1. op[d].kind = "deleted" /\ op[d].sid \notin server /\ authOf[d] \in Clients /\ Deleting(d)
        BY <3>2 DEF Roles, TypeOK
      <4>2. op[d].sid # n
        BY <2>1, <2>2, <4>1 DEF Deleting, Closed, SessionToken, Unclaimed
      <4> QED BY <2>5, <4>1, <4>2
    <3> QED BY <1>0, <2>3, <2>4, <3>1, <3>2 DEF Roles
  <2>9. Pending'
    <3>1. ASSUME NEW d \in Clients, op[d].kind = "reply" PROVE op[d].sid # n /\ op[d].sid <= n
      <4>1. op[d].sid \in Nat /\ op[d].sid <= created
        BY <3>1 DEF Pending, TypeOK, Ops, Maybe, None
      <4> QED BY <2>1, <4>1
    <3>2. ASSUME NEW d \in Clients, d # c, op[d].kind = "reply"
          PROVE  op'[d] = op[d] /\ Unclaimed(op[d].sid)' /\ op[d].sid <= created'
      BY <2>4, <2>5, <2>7, <3>1, <3>2 DEF Pending, Others
    <3>3. Unclaimed(n)' /\ n <= created'
      BY <2>1, <2>2, <2>5, <2>7
    <3> QED BY <2>3, <2>4, <3>1, <3>2, <3>3 DEF Pending, Others
  <2>10. Fresh'
    <3>1. ASSUME NEW s \in Sessions, s > created' PROVE s > created /\ s # n
      BY <2>1, <2>5, <3>1
    <3> QED BY <2>5, <2>7, <3>1 DEF Fresh
  <2>11. SessionHasOwner'
    BY <1>0, <2>3, <2>4, <2>5 DEF SessionHasOwner, Session, Others
  <2> QED BY <2>6, <2>7, <2>8, <2>9, <2>10, <2>11
<1> QED BY <1>1, <1>2 DEF PostSession

LEMMA CreateSessionKeeps == ASSUME NEW c \in Clients, Ownership, CreateSession(c) PROVE Ownership'
<1> USE IdsApart DEF Ownership
<1> PICK s : s = op[c].sid
  OBVIOUS
<1>0. /\ op[c].kind = "reply" /\ c \notin up /\ s \in Sessions
      /\ UNCHANGED <<ctxDead, held, server, created, reliable, confirmed>>
      /\ up' = up \cup {c} /\ authOf' = [authOf EXCEPT ![c] = c]
  BY DEF CreateSession, serverVars, Roles, TypeOK, Ops, Maybe
<1>1. /\ Unclaimed(s) /\ s <= created
      /\ \A d \in Clients : op[d].kind = "reply" /\ op[d].sid = s => d = c
  BY <1>0 DEF Pending
<1>2. op' \in [Clients -> Ops] /\ op'[c] = Idle /\ Others(c)
  BY RecordTypes, SetFacts DEF CreateSession
<1>3. PICK t \in Tokens : /\ auth' = [auth EXCEPT ![c] = t]
                          /\ t.token = s /\ ~t.credentials
                          /\ \/ t.session = s /\ lost' = lost
                             \/ t.session = None /\ lost' = lost \cup {s}
  <2>1. /\ SessionToken(s) \in Tokens
        /\ SessionToken(s).token = s /\ SessionToken(s).session = s /\ ~SessionToken(s).credentials
    BY <1>0 DEF SessionToken, Tokens, Maybe
  <2>2. PICK t : t = [SessionToken(s) EXCEPT !.session = None]
    OBVIOUS
  <2>3. t \in Tokens /\ t.token = s /\ t.session = None /\ ~t.credentials
    BY <2>1, <2>2 DEF Tokens, Maybe
  <2> QED BY <2>1, <2>2, <2>3 DEF CreateSession
<1>4. /\ authOf' \in [Clients -> AuthRefs] /\ auth' \in [Clients -> Tokens]
      /\ Objects' /\ Gone' /\ authOf'[c] = c
      /\ \A d \in Clients : d # c => authOf'[d] = authOf[d] /\ authOf[d] \in up \cup {NoAuth}
      /\ \A d \in Clients : d # c /\ op'[d] = op[d] /\ authOf[d] # NoAuth => (Deleting(d) => Deleting(d)')
      /\ \A u \in Sessions : Unclaimed(u) /\ u # t.token => Unclaimed(u)'
      /\ \A d \in up : Session(d)' = Session(d)
      /\ Session(c)' = t.session
  <2>1. t.session \in {None, t.token} /\ (t.credentials => t.token = None) /\ Unclaimed(t.token)
    BY <1>1, <1>3
  <2> QED BY <1>0, <1>3, <2>1, NewObject
<1>5. TypeOK'
  <2>1. \A d \in Clients : op'[d].kind \in {"reply", "delete", "deleted"} => op'[d].sid # None
    BY <1>2 DEF TypeOK, Others, Idle
  <2>2. lost' \subseteq Sessions
    BY <1>0, <1>3 DEF TypeOK
  <2> QED BY <1>0, <1>2, <1>4, <2>1, <2>2 DEF TypeOK
<1>6. Roles'
  BY <1>0, <1>2, <1>4 DEF Roles, Others, Idle
<1>7. Pending'
  <2>1. ASSUME NEW d \in Clients, op'[d].kind = "reply"
        PROVE  d # c /\ op'[d] = op[d] /\ op[d].sid # s /\ op[d].sid \in Sessions
    BY <1>1, <1>2, <2>1 DEF Others, Idle, TypeOK, Ops, Maybe
  <2>2. ASSUME NEW d \in Clients, op'[d].kind = "reply"
        PROVE  Unclaimed(op[d].sid)' /\ op[d].sid <= created'
    <3>1. Unclaimed(op[d].sid) /\ op[d].sid <= created /\ op'[d] = op[d]
      BY <2>1, <2>2 DEF Pending
    <3> QED BY <1>0, <1>3, <1>4, <2>1, <2>2, <3>1
  <2>3. \A d, e \in Clients : op'[d].kind = "reply" /\ op'[e].kind = "reply" /\ op'[e].sid = op'[d].sid => e = d
    BY <2>1 DEF Pending
  <2> QED BY <2>1, <2>2, <2>3 DEF Pending
<1>8. Fresh'
  <2>1. ASSUME NEW u \in Sessions, u > created PROVE u # s
    BY <1>0, <1>1, <2>1 DEF TypeOK
  <2> QED BY <1>0, <1>3, <1>4, <2>1 DEF Fresh
<1>9. SessionHasOwner'
  <2> SUFFICES ASSUME NEW u \in server, u \notin lost'
               PROVE  \/ \E d \in Clients : op'[d].kind = "reply" /\ op'[d].sid = u
                      \/ \E d \in up' : Session(d)' = u
    BY <1>0 DEF SessionHasOwner
  <2>1. CASE u = s
    BY <1>0, <1>3, <1>4, <2>1
  <2>2. CASE \E d \in up : Session(d) = u
    BY <1>0, <1>4, <2>2
  <2>3. CASE u # s /\ \E d \in Clients : op[d].kind = "reply" /\ op[d].sid = u
    BY <1>2, <2>3 DEF Others
  <2> QED BY <1>3, <2>1, <2>2, <2>3 DEF SessionHasOwner
<1> QED BY <1>4, <1>5, <1>6, <1>7, <1>8, <1>9

LEMMA DeleteSessionKeeps == ASSUME NEW c \in Clients, Ownership, DeleteSession(c) PROVE Ownership'
<1> USE IdsApart DEF Ownership
<1> PICK s : s = op[c].sid
  OBVIOUS
<1>0. /\ op[c].kind = "delete" /\ c \in up /\ authOf[c] # NoAuth /\ Deleting(c) /\ s # None
      /\ op[c] \in Ops /\ ~op[c].ok
      /\ UNCHANGED <<up, authOf, auth, ctxDead, held, created, reliable, lost, confirmed>>
  BY DEF DeleteSession, clientVars, Roles, TypeOK
<1>1. ASSUME NEW o \in Ops, Set(c, o), o.sid = s
      PROVE  op' \in [Clients -> Ops] /\ op'[c] = o /\ Others(c) /\ Deleting(c)'
  <2>1. op' \in [Clients -> Ops] /\ op'[c] = o /\ Others(c)
    BY <1>1, SetFacts
  <2> QED BY <1>0, <1>1, <2>1 DEF Deleting, Closed
<1>2. CASE Set(c, [op[c] EXCEPT !.kind = "deleted"]) /\ UNCHANGED server
  <2>1. PICK o \in Ops : Set(c, o) /\ o.kind = "deleted" /\ ~o.ok /\ o.sid = s
    BY <1>0, <1>2 DEF Ops
  <2>2. op' \in [Clients -> Ops] /\ op'[c] = o /\ Others(c) /\ Deleting(c)'
    BY <1>1, <2>1
  <2> QED BY <1>0, <1>2, <2>1, <2>2, OpOnly DEF Role
<1>3. CASE /\ server' = server \ {s}
           /\ \E told \in BOOLEAN : Set(c, [op[c] EXCEPT !.kind = "deleted", !.ok = told])
  <2>1. PICK o \in Ops : Set(c, o) /\ o.kind = "deleted" /\ o.sid = s
    <3>1. PICK told \in BOOLEAN : Set(c, [op[c] EXCEPT !.kind = "deleted", !.ok = told])
      BY <1>3
    <3>2. /\ [op[c] EXCEPT !.kind = "deleted", !.ok = told] \in Ops
          /\ [op[c] EXCEPT !.kind = "deleted", !.ok = told].kind = "deleted"
          /\ [op[c] EXCEPT !.kind = "deleted", !.ok = told].sid = s
      BY <1>0 DEF Ops
    <3> QED BY <3>1, <3>2
  <2>2. op' \in [Clients -> Ops] /\ op'[c] = o /\ Others(c) /\ Deleting(c)'
    BY <1>1, <2>1
  <2>3. TypeOK'
    BY <1>0, <1>3, <2>1, <2>2 DEF TypeOK, Others
  <2>4. Objects' /\ Gone' /\ Fresh' /\ \A u : Unclaimed(u) => Unclaimed(u)'
    BY <1>0, <1>3 DEF Objects, Gone, Fresh, Unclaimed
  <2>5. Roles'
    <3>1. ASSUME NEW d \in Clients, d # c
          PROVE  op'[d] = op[d] /\ (Deleting(d) => Deleting(d)')
      BY <1>0, <2>2, <3>1 DEF Others, Deleting, Closed
    <3> QED BY <1>0, <1>3, <2>1, <2>2, <3>1 DEF Roles
  <2>6. Pending'
    BY <1>0, <2>1, <2>2, <2>4 DEF Pending, Others
  <2>7. SessionHasOwner'
    BY <1>0, <1>3, <2>1, <2>2 DEF SessionHasOwner, Session, Others
  <2> QED BY <2>3, <2>4, <2>5, <2>6, <2>7
<1> QED BY <1>2, <1>3 DEF DeleteSession

(* A confirmed Logout empties the auth object.  Whoever points to it has no *)
(* token then; another object with the token is of a held session.          *)
LEMMA LogoutEndsKeeps == ASSUME NEW c \in Clients, Ownership, LogoutEnds(c) PROVE Ownership'
<1> USE IdsApart DEF Ownership
<1> PICK s : s = op[c].sid
  OBVIOUS
<1> PICK a : a = authOf[c]
  OBVIOUS
<1>0. /\ op[c].kind = "deleted" /\ c \in up /\ a \in Clients /\ a \in up /\ Deleting(c) /\ s \in Sessions
      /\ UNCHANGED <<up, authOf, ctxDead, held, server, created, reliable, lost>>
  BY DEF LogoutEnds, serverVars, Roles, TypeOK, Ops, Maybe
<1>1. op' \in [Clients -> Ops] /\ op'[c] = Idle /\ Others(c)
  BY RecordTypes, SetFacts DEF LogoutEnds
<1>2. CASE ~op[c].ok
  <2>1. UNCHANGED <<auth, confirmed>>
    BY <1>2 DEF LogoutEnds
  <2> QED BY <1>0, <1>1, <2>1, OpOnly DEF Role, Idle
<1>3. CASE op[c].ok
  <2>1. s \notin server /\ confirmed' = confirmed \cup {Closed(c)}
    BY <1>3 DEF LogoutEnds, Roles
  <2>2. Closed(c).session = s /\ Closed(c).through = a
        /\ Closed(c) \in [session : Sessions, through : Clients]
    BY <1>0 DEF Closed
  <2>3. /\ auth' \in [Clients -> Tokens] /\ auth'[a] = EmptyToken
        /\ \A b \in Clients : b # a => auth'[b] = auth[b]
        /\ auth[a].session \in {None, s} /\ auth[a].token \in {None, s}
    <3>1. auth' = [auth EXCEPT ![a].session = None, ![a].token = None]
      BY <1>3 DEF LogoutEnds
    <3>2. auth[a] = SessionToken(s) \/ auth[a] = EmptyToken
      BY <1>0 DEF Deleting
    <3>3. /\ auth[a].session \in {None, s} /\ auth[a].token \in {None, s}
          /\ auth[a].credentials = FALSE /\ auth[a] \in Tokens
      BY <1>0, <3>2 DEF SessionToken, EmptyToken, TypeOK
    <3>4. auth'[a] = [auth[a] EXCEPT !.session = None, !.token = None]
      BY <1>0, <3>1 DEF TypeOK
    <3>5. auth'[a] = EmptyToken
      BY <3>3, <3>4 DEF Tokens, EmptyToken
    <3> QED BY <1>0, <3>1, <3>3, <3>5, RecordTypes DEF TypeOK
  <2>4. \A b \in Clients : auth'[b].token = s => s \in held
    <3>1. CASE auth[a] = SessionToken(s)
      <4>1. ASSUME NEW b \in Clients, b # a, auth[b].token = s PROVE s \in held
        BY <1>0, <3>1, <4>1 DEF Objects, SessionToken
      <4> QED BY <1>0, <2>3, <4>1 DEF EmptyToken
    <3>2. CASE auth[a] = EmptyToken /\ Closed(c) \in confirmed
      BY <1>0, <2>2, <2>3, <3>2 DEF Gone, EmptyToken
    <3> QED BY <1>0, <3>1, <3>2 DEF Deleting
  <2>5. TypeOK'
    <3>1. \A d \in Clients : op'[d].kind \in {"reply", "delete", "deleted"} => op'[d].sid # None
      BY <1>1 DEF TypeOK, Others, Idle
    <3> QED BY <1>0, <1>1, <2>1, <2>2, <2>3, <3>1 DEF TypeOK
  <2>6. Objects'
    BY <1>0, <2>3 DEF Objects, EmptyToken
  <2>7. Gone'
    <3>1. ASSUME NEW x \in confirmed
          PROVE  /\ x.through \in up /\ auth'[x.through] = EmptyToken
                 /\ \A b \in Clients : auth'[b].token = x.session => x.session \in held
      <4>1. x.through \in Clients /\ x.session \in Sessions
        BY DEF TypeOK
      <4>2. /\ x.through \in up /\ auth[x.through] = EmptyToken
            /\ \A b \in Clients : auth[b].token = x.session => x.session \in held
        BY DEF Gone
      <4>3. auth'[x.through] = EmptyToken
        BY <2>3, <4>1, <4>2
      <4>4. auth'[a].token # x.session
        BY <2>3, <4>1 DEF EmptyToken
      <4> QED BY <2>3, <4>2, <4>3, <4>4
    <3> QED BY <1>0, <2>1, <2>2, <2>3, <2>4, <3>1 DEF Gone
  <2>8. Roles'
    <3>1. ASSUME NEW d \in Clients, d # c, op[d].kind \in {"delete", "deleted"} PROVE Deleting(d)'
      <4>1. Deleting(d) /\ authOf[d] \in Clients /\ op'[d] = op[d] /\ authOf'[d] = authOf[d]
        BY <1>0, <1>1, <3>1 DEF Roles, TypeOK, Others
      <4>2. CASE authOf[d] # a
        BY <2>1, <2>3, <4>1, <4>2 DEF Deleting, Closed
      <4>3. CASE authOf[d] = a /\ auth[a] = EmptyToken
        BY <2>1, <2>3, <4>1, <4>3 DEF Deleting, Closed, EmptyToken, SessionToken
      <4>4. CASE authOf[d] = a /\ auth[a] # EmptyToken
        <5>1. SessionToken(op[d].sid) = SessionToken(s)
          BY <1>0, <4>1, <4>4 DEF Deleting
        <5>2. op[d].sid = s
          BY <5>1 DEF SessionToken
        <5>3. Closed(d)' = Closed(c)
          BY <4>1, <4>4, <5>2 DEF Closed
        <5> QED BY <2>1, <2>3, <4>1, <4>4, <5>3 DEF Deleting
      <4> QED BY <4>2, <4>3, <4>4
    <3> QED BY <1>0, <1>1, <3>1 DEF Roles, Others, Idle
  <2>9. ASSUME NEW u \in Sessions, Unclaimed(u) PROVE Unclaimed(u)'
    <3>1. u # s
      BY <1>0, <2>2, <2>9 DEF Deleting, Unclaimed, SessionToken
    <3> QED BY <1>0, <2>1, <2>2, <2>3, <2>9, <3>1 DEF Unclaimed, EmptyToken
  <2>10. Pending'
    <3>1. ASSUME NEW d \in Clients, op'[d].kind = "reply" PROVE op'[d] = op[d] /\ op[d].sid \in Sessions
      BY <1>1, <3>1 DEF Others, Idle, TypeOK, Ops, Maybe
    <3> QED BY <1>0, <2>9, <3>1 DEF Pending
  <2>11. Fresh'
    BY <1>0, <2>9 DEF Fresh
  <2>12. SessionHasOwner'
    <3> SUFFICES ASSUME NEW u \in server, u \notin lost
                 PROVE  \/ \E d \in Clients : op'[d].kind = "reply" /\ op'[d].sid = u
                        \/ \E d \in up : Session(d)' = u
      BY <1>0 DEF SessionHasOwner
    <3>1. CASE \E d \in up : Session(d) = u
      <4>1. PICK d \in up : Session(d) = u
        BY <3>1
      <4>2. u \in Sessions /\ d \in Clients
        BY <4>1 DEF TypeOK
      <4>3. authOf[d] \in Clients /\ auth[authOf[d]].session = u
        BY <4>1, <4>2 DEF Session, TypeOK
      <4>4. authOf[d] # a
        BY <2>1, <2>3, <4>2, <4>3
      <4> QED BY <1>0, <2>3, <4>1, <4>3, <4>4 DEF Session
    <3>2. CASE \E d \in Clients : op[d].kind = "reply" /\ op[d].sid = u
      BY <1>0, <1>1, <3>2 DEF Others
    <3> QED BY <3>1, <3>2 DEF SessionHasOwner
  <2> QED BY <2>5, <2>6, <2>7, <2>8, <2>10, <2>11, <2>12
<1> QED BY <1>2, <1>3

LEMMA InitOwnership == Init => Ownership
<1> SUFFICES ASSUME Init PROVE Ownership
  OBVIOUS
<1> USE IdsApart, RecordTypes, SessionAssumption
<1>1. server \subseteq Sessions /\ created \in 0..SessionBound /\ lost = server /\ held = server
      /\ server \in {{}, {1}} /\ (server = {1} => created = 1)
  BY DEF Init, Sessions
<1>3. TypeOK
  BY <1>1 DEF Init, TypeOK, Idle
<1>4. Objects /\ Roles /\ Pending /\ Gone /\ SessionHasOwner
  BY <1>1 DEF Init, Objects, Roles, Pending, Gone, SessionHasOwner, EmptyToken, Idle
<1>5. Fresh
  BY <1>1 DEF Init, Fresh, Unclaimed, EmptyToken
<1> QED BY <1>3, <1>4, <1>5 DEF Ownership

LEMMA NextOwnership == Ownership /\ [Next]_vars => Ownership'
<1>1. Ownership /\ UNCHANGED vars => Ownership'
  BY DEF vars, clientVars, serverVars, Ownership, TypeOK, Objects, Roles, Pending, Fresh, Gone,
         SessionHasOwner, Unclaimed, Session, Deleting, Closed
<1> QED BY <1>1, LoginKeeps, ReadRootKeeps, LogoutKeeps, ContextDiesKeeps, SessionExpiresKeeps,
           GetSessionKeeps, WithContextKeeps, ConnectPlainKeeps, PostSessionKeeps, CreateSessionKeeps,
           DeleteSessionKeeps, LogoutEndsKeeps DEF Next, Progress

LEMMA OwnershipInvariant == Spec => []Ownership
BY InitOwnership, NextOwnership, PTL DEF Spec

-----------------------------------------------------------------------------
(* For any number of clients, of sessions and of operations under way: each *)
(* session the service has can still be logged out, unless the client was   *)
(* not told of it.                                                          *)
THEOREM SessionsHaveOwners == Spec => []SessionHasOwner
<1>1. Ownership => SessionHasOwner
  BY DEF Ownership
<1> QED BY <1>1, OwnershipInvariant, PTL

(* For any number of clients and of Connects with one session: after a      *)
(* confirmed Logout no client that points to that auth object has a token,  *)
(* and no other one has the token of that session, unless the program took  *)
(* the session as a value.                                                  *)
THEOREM DeadTokensAreGone == Spec => []NoDeadToken
<1>1. Ownership => NoDeadToken
  <2> SUFFICES ASSUME Ownership, NEW c \in up, NEW x \in confirmed,
                      authOf[c] # NoAuth, auth[authOf[c]].token = x.session
               PROVE  x.session \in held /\ authOf[c] # x.through
    BY DEF NoDeadToken
  <2>1. authOf[c] \in Clients /\ x.session \in Sessions
    BY IdsApart DEF Ownership, TypeOK
  <2>2. auth[x.through].token # x.session
    BY <2>1, IdsApart DEF Ownership, Gone, EmptyToken
  <2> QED BY <2>1, <2>2 DEF Ownership, Gone
<1> QED BY <1>1, OwnershipInvariant, PTL

(* A client of basic authentication never comes to use a session, neither   *)
(* by cloning nor by anybody's logging in or out.                           *)
THEOREM BasicIsKept == Spec => []BasicStaysBasic
<1>1. Ownership => BasicStaysBasic
  BY DEF Ownership, Objects, BasicStaysBasic, None
<1> QED BY <1>1, OwnershipInvariant, PTL

-----------------------------------------------------------------------------
(* A client with nothing under way is ready for a Logout, and without       *)
(* losses one whose DELETE has returned is rid of the session.              *)
Ready == \A c \in Clients : op[c].kind = "none" => op[c] = Idle
Deleted == \A c \in Clients : reliable /\ op[c].kind = "deleted" => op[c].sid \notin server

(* The service makes sessions one after the other, and none twice. *)
Serves ==
  /\ reliable' = reliable
  /\ \/ server' \subseteq server /\ created' = created
     \/ created' = created + 1 /\ server' = server \cup {created'}

LEMMA ServerStep == [Next]_vars => Serves
<1> SUFFICES ASSUME [Next]_vars PROVE Serves
  OBVIOUS
<1> USE DEF serverVars, Serves
<1>1. CASE UNCHANGED vars
  BY <1>1 DEF vars
<1>2. ASSUME NEW c \in Clients, Progress(c) PROVE Serves
  BY <1>2 DEF Progress, ReadRoot, PostSession, CreateSession, DeleteSession, LogoutEnds
<1>3. ASSUME NEW c \in Clients,
             ConnectPlain(c) \/ ConnectLogin(c) \/ GetSession(c) \/ Logout(c) \/ ContextDies(c)
      PROVE  Serves
  BY <1>3 DEF ConnectPlain, ConnectLogin, GetSession, Logout, ContextDies
<1>4. ASSUME NEW p \in Clients, NEW c \in Clients, CloneWithSession(p, c) \/ WithContext(p, c)
      PROVE  Serves
  BY <1>4 DEF CloneWithSession, WithContext
<1>5. ASSUME NEW s \in Sessions, SessionExpires(s) PROVE Serves
  BY <1>5 DEF SessionExpires
<1> QED BY <1>1, <1>2, <1>3, <1>4, <1>5 DEF Next

(* What a step makes of the operation of a client. *)
Moves(c) ==
  \/ op'[c] = op[c] \/ op'[c] = Idle \/ op'[c].kind \in {"root", "post", "reply", "delete"}
  \/ /\ op[c].kind = "delete" /\ op'[c].kind = "deleted" /\ op'[c].sid = op[c].sid
     /\ reliable => op[c].sid \notin server'

LEMMA OperationStep ==
  ASSUME Ownership, [Next]_vars, NEW d \in Clients PROVE Moves(d)
<1>1. op \in [Clients -> Ops] /\ Idle \in Ops
  BY RecordTypes DEF Ownership, TypeOK
<1>2. CASE UNCHANGED op
  BY <1>2 DEF Moves
<1>3. ASSUME NEW c \in Clients, ReadRoot(c) \/ PostSession(c) \/ CreateSession(c) \/ LogoutEnds(c)
      PROVE  Moves(d)
  <2>1. \/ Set(c, Idle) \/ Set(c, [op[c] EXCEPT !.kind = "post"])
        \/ \E t : Set(c, [op[c] EXCEPT !.kind = "reply", !.sid = t])
    <3>1. CASE ReadRoot(c)
      BY <3>1 DEF ReadRoot
    <3>2. CASE PostSession(c)
      BY <3>2 DEF PostSession
    <3>3. CASE CreateSession(c) \/ LogoutEnds(c)
      BY <3>3 DEF CreateSession, LogoutEnds
    <3> QED BY <1>3, <3>1, <3>2, <3>3
  <2>2. CASE d # c
    BY <1>1, <2>1, <2>2 DEF Set, Moves
  <2>3. CASE d = c
    <3>1. op'[c] = Idle \/ op'[c].kind \in {"post", "reply"}
      BY <1>1, <2>1 DEF Set, Ops
    <3> QED BY <2>3, <3>1 DEF Moves
  <2> QED BY <2>2, <2>3
<1>4. ASSUME NEW c \in Clients, DeleteSession(c) PROVE Moves(d)
  <2>1. CASE d # c
    BY <1>1, <1>4, <2>1 DEF DeleteSession, Set, Moves
  <2>2. CASE d = c
    <3>1. op[c].kind = "delete" /\ op'[c].kind = "deleted" /\ op'[c].sid = op[c].sid
      <4>1. \/ \E told : Set(c, [op[c] EXCEPT !.kind = "deleted", !.ok = told])
            \/ Set(c, [op[c] EXCEPT !.kind = "deleted"])
        BY <1>4 DEF DeleteSession
      <4>2. op[c].kind = "delete"
        BY <1>4 DEF DeleteSession
      <4>3. op[c] \in Ops
        BY <1>1
      <4>4. CASE \E told : Set(c, [op[c] EXCEPT !.kind = "deleted", !.ok = told])
        <5>1. PICK told : op'[c] = [op[c] EXCEPT !.kind = "deleted", !.ok = told]
          BY <1>1, <4>4 DEF Set
        <5> QED BY <4>2, <4>3, <5>1 DEF Ops
      <4>5. CASE Set(c, [op[c] EXCEPT !.kind = "deleted"])
        <5>1. op'[c] = [op[c] EXCEPT !.kind = "deleted"]
          BY <1>1, <4>5 DEF Set
        <5> QED BY <4>2, <4>3, <5>1 DEF Ops
      <4> QED BY <4>1, <4>4, <4>5
    <3>2. reliable => op[c].sid \notin server'
      BY <1>4 DEF DeleteSession
    <3> QED BY <2>2, <3>1, <3>2 DEF Moves
  <2> QED BY <2>1, <2>2
<1>5. ASSUME NEW c \in Clients, ConnectLogin(c) \/ Logout(c) PROVE Moves(d)
  BY <1>1, <1>5 DEF ConnectLogin, Logout, Set, Moves, Idle
<1>6. ASSUME NEW p \in Clients, NEW c \in Clients, CloneWithSession(p, c) PROVE Moves(d)
  BY <1>1, <1>6 DEF CloneWithSession, Set, Moves, Idle
<1>7. ASSUME NEW c \in Clients, ConnectPlain(c) \/ GetSession(c) \/ ContextDies(c) PROVE UNCHANGED op
  BY <1>7 DEF ConnectPlain, GetSession, ContextDies
<1>8. ASSUME NEW p \in Clients, NEW c \in Clients, WithContext(p, c) PROVE UNCHANGED op
  BY <1>8 DEF WithContext
<1>9. ASSUME NEW s \in Sessions, SessionExpires(s) PROVE UNCHANGED op
  BY <1>9 DEF SessionExpires
<1>10. UNCHANGED vars => UNCHANGED op
  BY DEF vars
<1> QED BY <1>2, <1>3, <1>4, <1>5, <1>6, <1>7, <1>8, <1>9, <1>10 DEF Next, Progress

(* A Logout under way is about a session that the service has made. *)
LEMMA DeletionOfOwn ==
  ASSUME Ownership, NEW c \in Clients, op[c].kind \in {"delete", "deleted"}
  PROVE  op[c].sid \in Sessions /\ op[c].sid <= created /\ created \in Nat
<1>1. /\ op[c].sid \in Sessions /\ created \in Nat
      /\ authOf[c] \in Clients /\ Deleting(c)
  BY IdsApart DEF Ownership, TypeOK, Roles, Ops, Maybe
<1>2. op[c].sid \in Nat /\ ~Unclaimed(op[c].sid)
  <2>1. CASE auth[authOf[c]] = SessionToken(op[c].sid)
    <3>1. auth[authOf[c]].token = op[c].sid
      BY <2>1 DEF SessionToken
    <3> QED BY <1>1, <3>1, IdsApart DEF Unclaimed
  <2>2. CASE Closed(c) \in confirmed
    <3>1. Closed(c).session = op[c].sid
      BY DEF Closed
    <3> QED BY <1>1, <2>2, <3>1, IdsApart DEF Unclaimed
  <2> QED BY <1>1, <2>1, <2>2 DEF Deleting
<1>3. ~(op[c].sid > created)
  BY <1>1, <1>2 DEF Ownership, Fresh
<1> QED BY <1>1, <1>2, <1>3

LEMMA ReadyStep == Ownership /\ Ready /\ Deleted /\ [Next]_vars => (Ready /\ Deleted)'
<1> SUFFICES ASSUME Ownership, Ready, Deleted, [Next]_vars, NEW c \in Clients
             PROVE  /\ op'[c].kind = "none" => op'[c] = Idle
                    /\ reliable' /\ op'[c].kind = "deleted" => op'[c].sid \notin server'
  BY DEF Ready, Deleted
<1>1. Moves(c)
  BY OperationStep
<1>2. CASE op'[c] = op[c]
  <2>1. ASSUME reliable, op[c].kind = "deleted" PROVE op[c].sid \notin server'
    <3>1. op[c].sid \in Nat /\ op[c].sid <= created /\ created \in Nat
      BY <2>1, IdsApart, DeletionOfOwn
    <3>2. op[c].sid \notin server
      BY <2>1 DEF Deleted
    <3> QED BY <3>1, <3>2, ServerStep DEF Serves
  <2> QED BY <1>2, <2>1, ServerStep DEF Ready, Serves
<1>3. CASE op'[c] = Idle
  BY <1>3 DEF Idle
<1>4. CASE op'[c].kind \in {"root", "post", "reply", "delete"}
  BY <1>4
<1>5. CASE /\ op[c].kind = "delete" /\ op'[c].kind = "deleted" /\ op'[c].sid = op[c].sid
           /\ reliable => op[c].sid \notin server'
  BY <1>5, ServerStep DEF Serves
<1> QED BY <1>1, <1>2, <1>3, <1>4, <1>5 DEF Moves

(* Why a deferred Logout cleans up: each client that has a session is ready *)
(* for a Logout or has one of that session under way, whatever the others   *)
(* do and whichever contexts are done; when nothing is lost the session is  *)
(* gone once the DELETE has returned; and a session that is gone never      *)
(* comes back.                                                              *)
THEOREM LogoutsGetThrough ==
  Spec => /\ [](\A c \in up : Session(c) # None =>
                  \/ op[c] = Idle
                  \/ op[c].kind \in {"delete", "deleted"} /\ op[c].sid = Session(c))
          /\ []Deleted
          /\ [][\A s \in Sessions : s <= created /\ s \notin server => s \notin server']_vars
<1>1. Init => Ready /\ Deleted
  BY DEF Init, Ready, Deleted, Idle
<1>2. Ownership /\ Ready =>
        \A c \in up : Session(c) # None =>
          \/ op[c] = Idle
          \/ op[c].kind \in {"delete", "deleted"} /\ op[c].sid = Session(c)
  <2> SUFFICES ASSUME Ownership, Ready, NEW c \in up, Session(c) # None, op[c] # Idle
               PROVE  op[c].kind \in {"delete", "deleted"} /\ op[c].sid = Session(c)
    OBVIOUS
  <2>1. c \in Clients /\ op[c] \in Ops
    BY DEF Ownership, TypeOK
  <2>2. op[c].kind \in {"delete", "deleted"}
    BY <2>1 DEF Ownership, Roles, Ready, Ops
  <2>3. Deleting(c)
    BY <2>1, <2>2 DEF Ownership, Roles
  <2>4. auth[authOf[c]].session = op[c].sid
    BY <2>3 DEF Deleting, Session, SessionToken, EmptyToken
  <2> QED BY <2>2, <2>4 DEF Session
<1>3. Ownership /\ [Next]_vars =>
        [\A s \in Sessions : s <= created /\ s \notin server => s \notin server']_vars
  <2> SUFFICES ASSUME Ownership, [Next]_vars, NEW s \in Sessions, s <= created, s \notin server
               PROVE  s \notin server'
    OBVIOUS
  <2>1. s \in Nat /\ created \in Nat
    BY IdsApart DEF Ownership, TypeOK
  <2> QED BY <2>1, ServerStep DEF Serves
<1> QED BY <1>1, <1>2, <1>3, ReadyStep, OwnershipInvariant, PTL DEF Spec
=============================================================================
