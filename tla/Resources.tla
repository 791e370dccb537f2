------------------------------ MODULE Resources ------------------------------
(***************************************************************************)
(* An application with one resource in its hands: it decodes the document  *)
(* the service answered with, follows links, runs actions, edits exported  *)
(* properties and commits them with Update.  Catalogue has what each type  *)
(* does, as ResourceTables writes it, so one machine stands for every type *)
(* of the redfish and swordfish packages that is in it.  Requests that are *)
(* sent succeed here: what a failed one does is in APIClient and           *)
(* EntityUpdate.                                                           *)
(***************************************************************************)
EXTENDS ResourceTables, Naturals, FiniteSets, Sequences

CONSTANTS Catalogue,  \* type name |-> its Resource
          MaxEdits,   \* bound on the properties an application edits
          \* What the code does not do as one expects, by type:
          Unread,     \* places that are decoded and that no method reaches
          Shadowed,   \* places that another one hides from their accessor
          Shared,     \* accessors that ask for the same thing as another on purpose
          Crossed,    \* methods that follow, test or post to the link of another, or to none
          Uncounted,  \* counts that are never set, or set from the count of another list
          Unkept,     \* types that do not keep the document their Update compares with
          Drifting,   \* types whose own methods change an exported property
          Parts       \* types of which an exported field of another type holds values

Of(table, T) == IF T \in DOMAIN table THEN table[T] ELSE {}

ASSUME EditsAssumption == MaxEdits \in Nat
ASSUME NameAssumption ==
  /\ "none" \notin DOMAIN Catalogue
  /\ \A T \in DOMAIN Catalogue : DOMAIN Catalogue[T].ops \cap {"none", "Open"} = {}

\* A type with an Update keeps the document it compares with, unless it is one of Unkept,
\* and no property its Update lists contains another one that an application may edit.
ASSUME UpdateAssumption ==
  \A T \in DOMAIN Catalogue : "Update" \in DOMAIN Catalogue[T].ops =>
    /\ Catalogue[T].ops["Update"].how = "patch"
    /\ Catalogue[T].keeps \/ T \in Unkept
    /\ Catalogue[T].ops["Update"].writable \cap Range(Catalogue[T].inside) = {}

\* Only the methods of the types of Drifting set exported properties.
ASSUME DriftingAssumption ==
  \A T \in DOMAIN Catalogue : \A m \in DOMAIN Catalogue[T].ops :
    Catalogue[T].ops[m].how \in {"learn", "postAndSet"} => T \in Drifting

\* No part does: GetSupportedResetTypes has a client.
ASSUME PartsAssumption == Parts \cap Drifting = {}

VARIABLES kind,      \* the type of the resource, or "none"
          client,    \* the resource has the client it was read with
          doc,       \* the places of its document that hold something
          expanded,  \* collections in the document carry their members ($expand)
          edited,    \* the properties the application changed since
          learnt,    \* the properties gofish itself changed since, with the list they fill
          last       \* what the last call did
vars == <<kind, client, doc, expanded, edited, learnt, last>>

Call(op, err, gets, posts, patch) ==
  [op |-> op, err |-> err, gets |-> gets, posts |-> posts, patch |-> patch]
NoCall == Call("none", FALSE, {}, {}, {})

\* The type of the resource in hand.  Below, R is a type as the catalogue has it: This one,
\* or one that is looked at.
This == Catalogue[kind]

\* The documents considered: with everything, with nothing, with one thing, without one thing.
Documents(R) ==
  LET all == R.places
  IN {all, {}} \cup {{p} : p \in all} \cup {all \ {p} : p \in all}

Init == /\ kind = "none" /\ client = TRUE /\ doc = {} /\ expanded = FALSE
        /\ edited = {} /\ learnt = {} /\ last = NoCall

\* The caller has looked at the result of the last call.
Idle == last = NoCall
Return == last # NoCall /\ last' = NoCall /\ UNCHANGED <<kind, client, doc, expanded, edited, learnt>>

\* Whether UnmarshalJSON left something in a field of the resource.
Holds(R, field) ==
  /\ field \in DOMAIN R.paths
  /\ R.paths[field] \in doc
  /\ field \in DOMAIN R.inline => expanded

\* A list of reset types is in the document or was learnt from the ActionInfo.
Listed(R, list) == Holds(R, list) \/ \E l \in learnt : l.list = list

-----------------------------------------------------------------------------
\* GetObjectWithContext of a type: the service answers and the document is decoded.  A
\* reference where the struct has a string makes the whole decoding fail.  Only the
\* resource that was asked for is given the client: what the application takes out of a
\* field of it, decoded with it by the same UnmarshalJSON, has none.
Open(T, R, d, x, c) ==
  /\ kind = "none" /\ Idle
  /\ c \/ T \in Parts
  /\ x => R.inline # <<>>  \* bound: it makes no difference to the others
  /\ IF d \cap Range(R.text) # {}
     THEN /\ kind' = kind /\ client' = TRUE
          /\ doc' = {} /\ expanded' = FALSE
          /\ last' = Call("Open", TRUE, {}, {}, {})
     ELSE /\ kind' = T /\ client' = c
          /\ doc' = d /\ expanded' = x
          /\ last' = Call("Open", FALSE, {}, {}, {})
  /\ UNCHANGED <<edited, learnt>>

Accessors(R) ==
  {m \in DOMAIN R.ops :
     R.ops[m].how \in {"get", "getIf", "objects", "members", "either", "getWhen"}}

\* What an accessor does: the request it sends, or the nothing it returns, or an error
\* of its own or of the client's, which sends no request to an empty reference.  Without a
\* client a request is a panic, an error here.
Answer(R, name) ==
  LET m == R.ops[name]
      asked == IF m.how = "either" /\ Holds(R, m.from) THEN m.from ELSE m.other
      silent == m.how = "getWhen" /\ ~Holds(R, m.from)
      strict == m.how \in {"get", "getWhen"}
  IN IF silent THEN Call(name, FALSE, {}, {}, {})
     ELSE IF client /\ Holds(R, asked) THEN Call(name, FALSE, {R.paths[asked]}, {}, {})
     ELSE Call(name, strict \/ Holds(R, asked), {}, {}, {})

Follow(R, name) ==
  /\ Idle
  /\ edited = {}  \* bound: no accessor looks at what was edited
  /\ last' = Answer(R, name)
  /\ UNCHANGED <<kind, client, doc, expanded, edited, learnt>>

\* GetSupportedResetTypes: an empty list is filled from the ActionInfo, when that says something.
LearnTypes(R, name) ==
  /\ Idle /\ R.ops[name].how = "learn"
  /\ LET m == R.ops[name] IN
     IF ~Listed(R, m.from) /\ Holds(R, m.other)
     THEN \E found \in BOOLEAN :
            /\ last' = Call(name, ~found, {R.paths[m.other]}, {}, {})
            /\ learnt' = IF found THEN learnt \cup {[list |-> m.from, property |-> m.to]} ELSE learnt
     ELSE last' = Call(name, FALSE, {}, {}, {}) /\ UNCHANGED learnt
  /\ UNCHANGED <<kind, client, doc, expanded, edited>>

Actions(R) ==
  {m \in DOMAIN R.ops : R.ops[m].how \in {"post", "postAndSet", "reset"}}

\* An action: the type the caller asks for is known to the list, or not.
Act(R, name, known) ==
  /\ Idle
  /\ edited = {} \/ R.ops[name].how = "postAndSet"  \* bound, as for Follow
  /\ LET m == R.ops[name]
         refused == \/ ~client \/ ~Holds(R, m.from)
                    \/ m.how = "reset" /\ Listed(R, m.other) /\ ~known
     IN /\ last' = IF refused THEN Call(name, TRUE, {}, {}, {})
                   ELSE Call(name, FALSE, {}, {R.paths[m.from]}, {})
        /\ IF m.how = "postAndSet" /\ ~refused  \* the value set may be the one it had
           THEN LET set == [list |-> "", property |-> m.to]
                IN learnt' \in {learnt \ {set}, learnt \cup {set}}
           ELSE UNCHANGED learnt
  /\ UNCHANGED <<kind, client, doc, expanded, edited>>

\* The application assigns to an exported property, at the top or nested in another.
Edit(R, property) ==
  /\ Idle
  /\ doc = R.places \/ learnt # {}  \* bound: Update does not look at the links
  /\ Cardinality(edited) < MaxEdits
  /\ edited' = edited \cup {property}
  /\ UNCHANGED <<kind, client, doc, expanded, learnt, last>>

\* The top-level property that an edit changes.
Key(R, property) == IF property \in DOMAIN R.inside THEN R.inside[property] ELSE property

\* Deviation: the comparison is with a resource of which nothing was decoded.
Changed_FromBlank(R) == {Key(R, p) : p \in edited} \cup {l.property : l \in learnt} \cup
  (IF edited = {} THEN {} ELSE R.fields)

\* The exported properties that differ from those of the document that was kept.
Changed(R) == {Key(R, p) : p \in edited} \cup {l.property : l \in learnt}

\* Deviation: changes outside the list are left out, and the rest is sent.
Update_Partial(R) ==
  /\ Idle /\ "Update" \in DOMAIN R.ops
  /\ last' = IF R.keeps
             THEN Call("Update", FALSE, {}, {}, Changed(R) \cap R.ops["Update"].writable)
             ELSE Call("Update", TRUE, {}, {}, {})
  /\ UNCHANGED <<kind, client, doc, expanded, edited, learnt>>

\* Entity.Update: without the document, or with a change outside the list, nothing is sent;
\* nor without a client, where the panic is recovered and returned.
Update(R) ==
  /\ Idle /\ "Update" \in DOMAIN R.ops
  /\ last' = IF R.keeps /\ Changed(R) \subseteq R.ops["Update"].writable /\ (client \/ Changed(R) = {})
             THEN Call("Update", FALSE, {}, {}, Changed(R))
             ELSE Call("Update", TRUE, {}, {}, {})
  /\ UNCHANGED <<kind, client, doc, expanded, edited, learnt>>

\* The application lets go of the resource and may fetch another.
Drop == /\ kind # "none" /\ Idle
        /\ kind' = "none" /\ client' = TRUE /\ doc' = {} /\ expanded' = FALSE
        /\ edited' = {} /\ learnt' = {} /\ last' = last

\* A call of a method, or an assignment, while a resource of type R is in hand.
Use(R) ==
  \/ \E name \in Accessors(R) : Follow(R, name)
  \/ \E name \in DOMAIN R.ops : LearnTypes(R, name)
  \/ \E name \in Actions(R), known \in BOOLEAN : Act(R, name, known)
  \/ \E property \in R.fields \cup DOMAIN R.inside : Edit(R, property)
  \/ Update(R)

Next ==
  \/ kind = "none" /\ \E T \in DOMAIN Catalogue : \E d \in Documents(Catalogue[T]), x, c \in BOOLEAN :
      Open(T, Catalogue[T], d, x, c)
  \/ kind # "none" /\ Use(This)
  \/ Return
  \/ Drop

Spec == Init /\ [][Next]_vars
-----------------------------------------------------------------------------
\* What a resource in hand is, and what gofish may have set in it.
InHand(R) ==
  /\ edited \subseteq R.fields \cup DOMAIN R.inside
  /\ last.op = "Update" => "Update" \in DOMAIN R.ops
TypeOK ==
  /\ kind \in DOMAIN Catalogue \cup {"none"}
  /\ client \in BOOLEAN /\ (client \/ kind \in Parts)
  /\ kind = "none" => doc = {} /\ edited = {} /\ learnt = {} /\ ~expanded /\ last.op # "Update"
  /\ kind # "none" => InHand(This)
  /\ learnt # {} => kind \in Drifting

\* An accessor that returns nothing and no error says that the document has none of the
\* references it could have followed: a collection that came without its members, and the
\* accessors that test another link than their own (AccessorsFollowTheirOwn below), are the
\* exceptions.  A part without a client is none: it does not say that there is nothing.
AbsentFrom(R, name) ==
  name \in Accessors(R) \ Of(Crossed, kind) =>
    \A f \in {R.ops[name].from, R.ops[name].other} \cap DOMAIN R.paths :
      R.paths[f] \in doc => f \in DOMAIN R.inline /\ ~expanded
SilentMeansAbsent ==
  kind # "none" /\ last # NoCall /\ ~last.err /\ last.gets = {} => AbsentFrom(This, last.op)

\* Whatever the document refers to can be reached: the link is exported, or a method of the
\* type asks for it or posts to it; and no two accessors ask for the same thing by mistake.
Reaches(R, name) ==
  IF name \in Accessors(R) THEN Answer(R, name).gets
  ELSE {R.paths[f] : f \in {R.ops[name].from, R.ops[name].other} \cap DOMAIN R.paths}
ReadersOf(R) ==
  LET mine == Accessors(R) \ (Of(Crossed, kind) \cup Of(Shared, kind))
      asking == {name \in mine : Answer(R, name).gets # {}}
      reached == UNION {Reaches(R, name) : name \in DOMAIN R.ops}
      private == {R.paths[f] : f \in {g \in DOMAIN R.paths \ R.open : Holds(R, g)}}
  IN /\ private \ (reached \cup Of(Unread, kind))
          \subseteq (IF Cardinality(doc) = 1 THEN {} ELSE Of(Shadowed, kind))
     /\ Cardinality(UNION {Answer(R, name).gets : name \in asking}) = Cardinality(asking)
EveryLinkHasItsReader == last.op = "Open" /\ ~last.err /\ client => ReadersOf(This)

\* A document with every list gives every count, but those of CountsAreGiven below; one with
\* a single list gives at most one.
CountsOf(R, but) ==
  LET set == {c \in DOMAIN R.count : R.count[c] \in doc}
  IN /\ doc = R.places => R.counts \ but \subseteq set
     /\ Cardinality(doc) = 1 => Cardinality(set \ but) <= 1
CountsFollowLists == kind # "none" => CountsOf(This, Of(Uncounted, kind))

\* An Update is refused for what the caller did: an edit of a property it does not list,
\* at the top or nested.  Otherwise its type keeps no document, a method of it set a
\* property, or it is a part with no client to send the edit with: UpdateCommitsItsList below
\* has none of these three exceptions.
CallersFault(R) == ~(edited \subseteq R.ops["Update"].writable) \/ edited \cap DOMAIN R.inside # {}
RefusalIsTheCallers ==
  last.op = "Update" /\ last.err =>
    \/ CallersFault(This) \/ kind \in Unkept
    \/ kind \in Drifting /\ learnt # {}
    \/ ~client /\ edited # {}

\* What Update sends is every edit of the caller and nothing it did not edit.
PatchIsTheEdits ==
  last.op = "Update" /\ ~last.err =>
    \/ last.patch = edited
    \/ kind \in Drifting /\ last.patch = edited \cup {l.property : l \in learnt}

\* An action is sent to a target that the document offers, and to its own: no other action
\* of the type goes there.
OfferedBy(R) ==
  /\ last.posts \subseteq doc \cap Range(R.target)
  /\ last.op \in Actions(R) \ Of(Crossed, kind) =>
       \A other \in Actions(R) \ (Of(Crossed, kind) \cup {last.op}) :
          R.paths[R.ops[other].from] \notin last.posts
ActionsAreOffered == last.posts # {} => OfferedBy(This)

\* "SetDeduplicationState will set the dedupe state of the storage pool"
\* (swordfish/storagepool.go:569): an action that the document has a target for by that
\* name is posted to that target.
OwnTarget(R) == "#" \o last.op \in Range(R.target) => last.posts = {"#" \o last.op}
ActionsAreOwn == last.posts # {} => OwnTarget(This)

\* "Outlet get the outlet connected to this power supply." (redfish/powersupplyunit.go:294;
\* coolingloop.go:221, virtualmedia.go:244, swordfish/storageservice.go:363, filesystem.go:234
\* and storagepool.go:416 alike): an accessor asks for what it is named for whenever the
\* document has that, asks for nothing else, and asks for something when it has everything.
OwnPlaces(R, name) ==
  {name, "Links." \o name}
    \cup {t \o "@ActionInfo" : t \in {u \in Range(R.target) : u \o "ActionInfo" = "#" \o name}}
FollowsOwn(R) ==
  LET own == OwnPlaces(R, last.op) \cap R.places
      given == {R.paths[f] : f \in {g \in DOMAIN R.paths : Holds(R, g)}}
  IN /\ given = Range(R.paths) \/ own \cap given # {} => last.gets # {}
     /\ own # {} => last.gets \subseteq own
AccessorsFollowTheirOwn ==
  kind # "none" /\ client /\ last.op \in Accessors(This) => FollowsOwn(This)

\* "DownstreamChassisCount is the number of physical downstream containers connected to this
\* cable." (redfish/cable.go:166; usbcontroller.go:46, chassis.go:386 and :419 and
\* logentry.go:522 alike): the counts follow their lists without exception.
CountsAreGiven == kind # "none" => CountsOf(This, {})

\* "Update commits updates to this object's properties to the running system."
\* (redfish/port.go:993, chassis.go:574, thermal.go:116 and others): an Update after edits of
\* properties that it lists, and of nothing else, is not refused.
UpdateCommitsItsList ==
  last.op = "Update" /\ last.err /\ edited # {} => CallersFault(This)
=============================================================================
