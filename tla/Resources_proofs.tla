-------------------------- MODULE Resources_proofs --------------------------
(***************************************************************************)
(* What an Update of a resource sends, for every catalogue of types and    *)
(* any number of edits, and what accessors and actions do, for every       *)
(* document.  The invariants that carry the proofs have to say that a      *)
(* result the caller has not looked at is still about the resource and the *)
(* edits of now: every other action waits for Return.                      *)
(***************************************************************************)
EXTENDS Resources, FiniteSetTheorems, TLAPS

UpdateInv == TypeOK /\ PatchIsTheEdits /\ RefusalIsTheCallers

LEMMA InitUpdateInv == Init => UpdateInv
BY DEF Init, UpdateInv, TypeOK, PatchIsTheEdits, RefusalIsTheCallers, NoCall, Call

\* What changed is what the caller edited when all of it may be sent: an edit of a nested
\* property changes one that no Update lists.
LEMMA ChangedAreEdits ==
  ASSUME TypeOK, kind # "none", "Update" \in DOMAIN This.ops,
         Changed(This) \subseteq This.ops["Update"].writable
  PROVE  Changed(This) = edited \cup {l.property : l \in learnt}
<1>1. This.ops["Update"].writable \cap Range(This.inside) = {}
  BY UpdateAssumption DEF TypeOK, This
<1>2. ASSUME NEW p \in edited PROVE p \notin DOMAIN This.inside
  <2>1. Key(This, p) \in Changed(This)
    BY DEF Changed
  <2>2. p \in DOMAIN This.inside => Key(This, p) \in Range(This.inside)
    BY DEF Key, Range
  <2> QED BY <1>1, <2>1, <2>2
<1>3. \A p \in edited : Key(This, p) = p
  BY <1>2 DEF Key
<1> QED BY <1>3 DEF Changed

\* A call that is no Update, made by an application that keeps its resource.
LEMMA OtherCall ==
  ASSUME UpdateInv, kind # "none", kind' = kind, client' = client, edited' = edited,
         learnt' # {} => kind \in Drifting, last'.op # "Update"
  PROVE  UpdateInv'
BY DEF UpdateInv, TypeOK, InHand, PatchIsTheEdits, RefusalIsTheCallers, This

LEMMA UpdateKeepsInv == UpdateInv /\ kind # "none" /\ Update(This) => UpdateInv'
<1> SUFFICES ASSUME UpdateInv, kind # "none", Update(This) PROVE UpdateInv'
  OBVIOUS
<1> DEFINE writable == This.ops["Update"].writable
<1>0. /\ kind \in DOMAIN Catalogue /\ "Update" \in DOMAIN This.ops
      /\ kind' = kind /\ client' = client /\ edited' = edited /\ learnt' = learnt
  BY DEF Update, UpdateInv, TypeOK
<1>1. last'.op = "Update"
  BY DEF Update, Call
<1>2. TypeOK'
  BY <1>0 DEF UpdateInv, TypeOK, InHand, This
<1> DEFINE sent == This.keeps /\ Changed(This) \subseteq writable /\ (client \/ Changed(This) = {})
<1>3. CASE sent
  <2>1. ~last'.err /\ last'.patch = Changed(This)
    BY <1>3 DEF Update, Call
  <2>2. Changed(This) = edited \cup {l.property : l \in learnt}
    BY <1>0, <1>3, ChangedAreEdits DEF UpdateInv
  <2>3. learnt = {} => Changed(This) = edited
    BY <2>2
  <2> QED BY <1>0, <1>2, <2>1, <2>2, <2>3 DEF UpdateInv, TypeOK, PatchIsTheEdits, RefusalIsTheCallers
<1>4. CASE ~sent
  <2>1. last'.err
    BY <1>4 DEF Update, Call
  <2>2. ASSUME This.keeps, kind \notin Drifting \/ learnt = {}
        PROVE  CallersFault(This) \/ (~client /\ edited # {})
    <3>1. learnt = {}
      BY <2>2 DEF UpdateInv, TypeOK
    <3>2. CASE ~(Changed(This) \subseteq writable)
      <4>1. PICK p \in edited : Key(This, p) \notin writable
        BY <3>1, <3>2 DEF Changed
      <4> QED BY <4>1 DEF Key, CallersFault
    <3>3. CASE ~client /\ Changed(This) # {}
      BY <3>1, <3>3 DEF Changed
    <3> QED BY <1>4, <2>2, <3>2, <3>3
  <2>3. This.keeps \/ kind \in Unkept
    BY <1>0, UpdateAssumption DEF This
  <2> QED BY <1>0, <1>2, <2>1, <2>2, <2>3
          DEF UpdateInv, PatchIsTheEdits, RefusalIsTheCallers, CallersFault, This
<1> QED BY <1>3, <1>4

LEMMA UseKeepsInv == UpdateInv /\ kind # "none" /\ Use(This) => UpdateInv'
<1> SUFFICES ASSUME UpdateInv, kind # "none", Use(This) PROVE UpdateInv'
  OBVIOUS
<1> USE DEF Call
<1>0. kind \in DOMAIN Catalogue
  BY DEF UpdateInv, TypeOK
<1>1. ASSUME NEW name \in Accessors(This), Follow(This, name) PROVE UpdateInv'
  <2>1. last'.op = name
    BY <1>1 DEF Follow, Answer
  <2>2. name # "Update"
    BY <1>0, <1>1, UpdateAssumption DEF Accessors, This
  <2> QED BY <1>1, <2>1, <2>2, OtherCall DEF Follow, UpdateInv, TypeOK
<1>2. ASSUME NEW name \in DOMAIN This.ops, LearnTypes(This, name) PROVE UpdateInv'
  <2>1. last'.op = name
    BY <1>2 DEF LearnTypes
  <2>2. name # "Update"
    BY <1>0, <1>2, UpdateAssumption DEF LearnTypes, This
  <2>3. kind \in Drifting
    BY <1>0, <1>2, DriftingAssumption DEF LearnTypes, This
  <2> QED BY <1>2, <2>1, <2>2, <2>3, OtherCall DEF LearnTypes
<1>3. ASSUME NEW name \in Actions(This), NEW known \in BOOLEAN, Act(This, name, known) PROVE UpdateInv'
  <2>1. last'.op = name
    BY <1>3 DEF Act
  <2>2. name # "Update"
    BY <1>0, <1>3, UpdateAssumption DEF Actions, This
  <2>3. learnt' = learnt \/ This.ops[name].how = "postAndSet"
    BY <1>3 DEF Act
  <2>4. This.ops[name].how = "postAndSet" => kind \in Drifting
    BY <1>0, <1>3, DriftingAssumption DEF Actions, This
  <2> QED BY <1>3, <2>1, <2>2, <2>3, <2>4, OtherCall DEF Act, UpdateInv, TypeOK
<1>4. ASSUME NEW property \in This.fields \cup DOMAIN This.inside, Edit(This, property) PROVE UpdateInv'
  <2>1. last'.op # "Update" /\ kind' = kind
    BY <1>4 DEF Edit, Idle, NoCall
  <2>2. TypeOK'
    BY <1>4, <2>1 DEF Edit, UpdateInv, TypeOK, InHand, This
  <2> QED BY <2>1, <2>2 DEF UpdateInv, PatchIsTheEdits, RefusalIsTheCallers
<1>5. CASE Update(This)
  BY <1>5, UpdateKeepsInv
<1> QED BY <1>1, <1>2, <1>3, <1>4, <1>5 DEF Use

LEMMA NextKeepsInv == UpdateInv /\ [Next]_vars => UpdateInv'
<1> SUFFICES ASSUME UpdateInv, [Next]_vars PROVE UpdateInv'
  OBVIOUS
<1> USE DEF Call, NoCall
<1>1. ASSUME NEW T \in DOMAIN Catalogue, NEW d, NEW x \in BOOLEAN, NEW c \in BOOLEAN,
             Open(T, Catalogue[T], d, x, c)
      PROVE  UpdateInv'
  <2>1. /\ last'.op = "Open" /\ edited' = {} /\ learnt' = {} /\ kind' \in {"none", T}
        /\ kind' = "none" => doc' = {} /\ ~expanded'
    BY <1>1, NameAssumption DEF Open, UpdateInv, TypeOK
  <2>2. client' \in BOOLEAN /\ (client' \/ kind' \in Parts)
    <3>1. CASE d \cap Range(Catalogue[T].text) # {}
      BY <1>1, <3>1, Zenon DEF Open
    <3>2. CASE d \cap Range(Catalogue[T].text) = {}
      BY <1>1, <3>2, Zenon DEF Open
    <3> QED BY <3>1, <3>2
  <2> QED BY <2>1, <2>2 DEF UpdateInv, TypeOK, InHand, PatchIsTheEdits, RefusalIsTheCallers
<1>2. CASE kind # "none" /\ Use(This)
  BY <1>2, UseKeepsInv
<1>3. CASE Return
  BY <1>3 DEF Return, UpdateInv, TypeOK, InHand, PatchIsTheEdits, RefusalIsTheCallers, This
<1>4. CASE Drop
  BY <1>4 DEF Drop, Idle, UpdateInv, TypeOK, PatchIsTheEdits, RefusalIsTheCallers
<1>5. CASE UNCHANGED vars
  <2>1. This' = This
    BY <1>5 DEF vars, This
  <2>2. TypeOK' /\ PatchIsTheEdits'
    BY <1>5, <2>1 DEF vars, UpdateInv, TypeOK, InHand, PatchIsTheEdits
  <2>3. RefusalIsTheCallers'
    BY <1>5, <2>1 DEF vars, UpdateInv, RefusalIsTheCallers, CallersFault
  <2> QED BY <2>2, <2>3 DEF UpdateInv
<1> QED BY <1>1, <1>2, <1>3, <1>4, <1>5 DEF Next

\* Together with the next two, for every catalogue: the resource in hand is of a type of the
\* catalogue, only a part may be without a client, and only the types of Drifting have
\* properties the library set itself.
THEOREM TypeCorrect == Spec => []TypeOK
<1>1. UpdateInv => TypeOK
  BY DEF UpdateInv
<1> QED BY <1>1, InitUpdateInv, NextKeepsInv, PTL DEF Spec

\* Entity.Update sends every edit of the caller and nothing else, whatever was edited, at the
\* top of the document or nested in it, and however often it was updated before.
THEOREM UpdateSendsTheEdits == Spec => []PatchIsTheEdits
<1>1. UpdateInv => PatchIsTheEdits
  BY DEF UpdateInv
<1> QED BY <1>1, InitUpdateInv, NextKeepsInv, PTL DEF Spec

\* An Update that is refused was refused for an edit of the caller, for want of the raw data
\* or of a client, or for a property that a method of the type set.
THEOREM RefusalsAreEarned == Spec => []RefusalIsTheCallers
<1>1. UpdateInv => RefusalIsTheCallers
  BY DEF UpdateInv
<1> QED BY <1>1, InitUpdateInv, NextKeepsInv, PTL DEF Spec
-----------------------------------------------------------------------------
\* Documents has four shapes of documents for TLC.  Here a resource may be decoded from any.
OpenAny ==
  /\ kind = "none"
  /\ \E T \in DOMAIN Catalogue : \E d \in SUBSET Catalogue[T].places, x, c \in BOOLEAN :
       Open(T, Catalogue[T], d, x, c)
AnyDocument == Init /\ [][Next \/ OpenAny]_vars

\* What has to be right in the table of a type.  Its accessors, but for those of Crossed and
\* those with two references, test the field they follow.
TestsWhatItFollows(T) ==
  \A m \in Accessors(Catalogue[T]) \ Of(Crossed, T) :
    Catalogue[T].ops[m].how # "either" => Catalogue[T].ops[m].from = Catalogue[T].ops[m].other

\* Its actions post to targets, and no two of them, but for those of Crossed, to the same one.
Target(T, m) == Catalogue[T].paths[Catalogue[T].ops[m].from]
HasItsTargets(T) ==
  /\ \A m \in Actions(Catalogue[T]) : Target(T, m) \in Range(Catalogue[T].target)
  /\ \A m, n \in Actions(Catalogue[T]) \ Of(Crossed, T) : Target(T, m) = Target(T, n) => m = n

\* The result of a call, until the caller has looked at it, is what the call gives now.
Fresh ==
  /\ kind \in DOMAIN Catalogue \cup {"none"}
  /\ kind = "none" => last.posts = {}
  /\ kind # "none" /\ last.op \in Accessors(This) => last = Answer(This, last.op)
  /\ kind # "none" /\ last.posts # {} =>
       /\ last.op \in Actions(This) /\ last.posts = {Target(kind, last.op)}
       /\ Target(kind, last.op) \in doc

LEMMA CallNames ==
  ASSUME NEW T \in DOMAIN Catalogue
  PROVE  /\ Accessors(Catalogue[T]) \cap {"none", "Open", "Update"} = {}
         /\ \A m \in DOMAIN Catalogue[T].ops : m \in Accessors(Catalogue[T]) => m \notin Actions(Catalogue[T])
         /\ \A m \in DOMAIN Catalogue[T].ops :
              Catalogue[T].ops[m].how = "learn" => m \notin Accessors(Catalogue[T])
BY NameAssumption, UpdateAssumption DEF Accessors, Actions

\* A Call that only looks leaves everything it looked at as it was.
LEMMA AnswerStable ==
  ASSUME UNCHANGED <<kind, client, doc, expanded>>, NEW m
  PROVE  Answer(This, m)' = Answer(This, m)
BY DEF Answer, This, Holds

LEMMA InitFresh == Init => Fresh
BY DEF Init, Fresh, NoCall, Call

LEMMA OpenKeepsFresh ==
  ASSUME Fresh, NEW T \in DOMAIN Catalogue, NEW d, NEW x, NEW c, Open(T, Catalogue[T], d, x, c)
  PROVE  Fresh'
<1>1. last'.op = "Open" /\ last'.posts = {} /\ kind' \in DOMAIN Catalogue \cup {"none"}
  BY DEF Open, Call
<1>2. kind' # "none" => "Open" \notin Accessors(This')
  BY <1>1, CallNames DEF This
<1> QED BY <1>1, <1>2 DEF Fresh

LEMMA UseKeepsFresh == ASSUME Fresh, kind # "none", Use(This) PROVE Fresh'
<1>0. kind \in DOMAIN Catalogue /\ kind' = kind /\ client' = client /\ doc' = doc /\ expanded' = expanded
  BY DEF Fresh, Use, Follow, LearnTypes, Act, Edit, Update
<1>1. This' = This /\ Accessors(This)' = Accessors(This) /\ Actions(This)' = Actions(This)
  BY <1>0 DEF This, Accessors, Actions
<1>2. ASSUME NEW name \in Accessors(This), Follow(This, name) PROVE Fresh'
  <2>1. last' = Answer(This, name) /\ last'.op = name /\ last'.posts = {}
    BY <1>2 DEF Follow, Answer, Call
  <2>2. last' = Answer(This, name)'
    BY <1>0, <2>1, AnswerStable
  <2> QED BY <1>0, <1>1, <2>1, <2>2 DEF Fresh
<1>3. ASSUME NEW name \in DOMAIN This.ops, LearnTypes(This, name) PROVE Fresh'
  <2>1. last'.op = name /\ last'.posts = {}
    BY <1>3 DEF LearnTypes, Call
  <2>2. name \notin Accessors(This)
    BY <1>0, <1>3, CallNames DEF LearnTypes, This
  <2> QED BY <1>0, <1>1, <2>1, <2>2 DEF Fresh
<1>4. ASSUME NEW name \in Actions(This), NEW known \in BOOLEAN, Act(This, name, known) PROVE Fresh'
  <2>1. last'.op = name /\ name \notin Accessors(This)
    BY <1>0, <1>4, CallNames DEF Act, Call, Actions, This
  <2>2. last'.posts # {} => /\ Holds(This, This.ops[name].from)
                           /\ last'.posts = {This.paths[This.ops[name].from]}
    BY <1>4 DEF Act, Call
  <2>3. last'.posts # {} => Target(kind, name) \in doc /\ last'.posts = {Target(kind, name)}
    BY <2>2 DEF Holds, Target, This
  <2> QED BY <1>0, <1>1, <1>4, <2>1, <2>3 DEF Fresh, Target
<1>5. ASSUME NEW property, Edit(This, property) PROVE Fresh'
  <2>1. last' = last /\ last = NoCall
    BY <1>5 DEF Edit, Idle
  <2>2. last.op \in Accessors(This) => last' = Answer(This, last.op)'
    BY <1>0, <2>1, AnswerStable DEF Fresh
  <2>3. last.posts = {}
    BY <2>1 DEF NoCall, Call
  <2> QED BY <1>0, <1>1, <2>1, <2>2, <2>3 DEF Fresh
<1>6. CASE Update(This)
  <2>1. last'.op = "Update" /\ last'.posts = {}
    BY <1>6 DEF Update, Call
  <2>2. "Update" \notin Accessors(This)
    BY <1>0, CallNames DEF This
  <2> QED BY <1>0, <1>1, <2>1, <2>2 DEF Fresh
<1> QED BY <1>2, <1>3, <1>4, <1>5, <1>6 DEF Use
LEMMA NextKeepsFresh == Fresh /\ [Next \/ OpenAny]_vars => Fresh'
<1>1. ASSUME Fresh, kind = "none",
             NEW T \in DOMAIN Catalogue, NEW d, NEW x, NEW c, Open(T, Catalogue[T], d, x, c)
      PROVE  Fresh'
  BY <1>1, OpenKeepsFresh
<1>2. ASSUME Fresh, kind # "none", Use(This) PROVE Fresh'
  BY <1>2, UseKeepsFresh
<1>3. ASSUME Fresh, Return PROVE Fresh'
  <2>1. kind' = kind /\ last'.op = "none" /\ last'.posts = {}
    BY <1>3 DEF Return, NoCall, Call
  <2>2. kind' # "none" => "none" \notin Accessors(This')
    BY <1>3, <2>1, CallNames DEF Fresh, This
  <2> QED BY <1>3, <2>1, <2>2 DEF Fresh
<1>4. ASSUME Fresh, Drop PROVE Fresh'
  BY <1>4 DEF Drop, Idle, NoCall, Call, Fresh
<1>5. ASSUME Fresh, UNCHANGED vars PROVE Fresh'
  <2>1. This' = This /\ UNCHANGED <<kind, client, doc, expanded, last>>
    BY <1>5 DEF vars, This
  <2>2. Answer(This, last.op)' = Answer(This, last.op)
    BY <2>1, AnswerStable
  <2> QED BY <1>5, <2>1, <2>2 DEF Fresh, Accessors, Actions, Target
<1> QED BY <1>1, <1>2, <1>3, <1>4, <1>5 DEF Next, OpenAny

LEMMA FreshInvariant == AnyDocument => []Fresh
BY InitFresh, NextKeepsFresh, PTL DEF AnyDocument

-----------------------------------------------------------------------------
\* An answer of nothing and no error is about what the accessor tests: a reference it follows
\* is absent, or the field that GetWhen looks at first.
LEMMA SilentAnswer ==
  ASSUME NEW R, NEW name, ~Answer(R, name).err, Answer(R, name).gets = {}
  PROVE  /\ R.ops[name].how = "either" => ~Holds(R, R.ops[name].from)
         /\ R.ops[name].how # "getWhen" => ~Holds(R, R.ops[name].other)
         /\ R.ops[name].how = "getWhen" => ~Holds(R, R.ops[name].from)
<1> DEFINE m == R.ops[name]
           asked == IF m.how = "either" /\ Holds(R, m.from) THEN m.from ELSE m.other
           silent == m.how = "getWhen" /\ ~Holds(R, m.from)
           strict == m.how \in {"get", "getWhen"}
<1>1. Answer(R, name) = IF silent THEN Call(name, FALSE, {}, {}, {})
                        ELSE IF client /\ Holds(R, asked) THEN Call(name, FALSE, {R.paths[asked]}, {}, {})
                        ELSE Call(name, strict \/ Holds(R, asked), {}, {}, {})
  BY DEF Answer
<1>2. silent \/ (~strict /\ ~Holds(R, asked))
  <2> HIDE DEF silent, strict, asked
  <2>1. CASE ~silent /\ client /\ Holds(R, asked)
    BY <1>1, <2>1 DEF Call
  <2>2. CASE ~silent /\ ~(client /\ Holds(R, asked))
    <3> SUFFICES ASSUME strict \/ Holds(R, asked) PROVE FALSE
      OBVIOUS
    <3>1. Answer(R, name) = Call(name, strict \/ Holds(R, asked), {}, {}, {})
      BY <1>1, <2>2, Zenon
    <3>2. (strict \/ Holds(R, asked)) = TRUE
      OBVIOUS
    <3>3. Answer(R, name) = Call(name, TRUE, {}, {}, {})
      BY <3>1, <3>2, Zenon
    <3> QED BY <3>3 DEF Call
  <2> QED BY <2>1, <2>2
<1> QED BY <1>2

\* Whatever the document: an accessor that returns nothing and no error says that the
\* document has no reference it could have followed, if the accessors of the types test what
\* they follow.  The documents TLC looks at show whether they do.
THEOREM SilenceIsAbsence ==
  ASSUME \A T \in DOMAIN Catalogue : TestsWhatItFollows(T)
  PROVE  AnyDocument => []SilentMeansAbsent
<1>1. Fresh => SilentMeansAbsent
  <2> SUFFICES ASSUME Fresh, kind # "none", ~last.err, last.gets = {},
                      last.op \in Accessors(This) \ Of(Crossed, kind),
                      NEW f \in {This.ops[last.op].from, This.ops[last.op].other} \cap DOMAIN This.paths
               PROVE  ~Holds(This, f)
    BY DEF SilentMeansAbsent, AbsentFrom, Holds
  <2> DEFINE m == This.ops[last.op]
  <2>1. last = Answer(This, last.op) /\ kind \in DOMAIN Catalogue
    BY DEF Fresh
  <2>2. CASE m.how = "either"
    BY <2>1, <2>2, SilentAnswer
  <2>3. CASE m.how # "either"
    <3>1. m.from = m.other
      BY <2>1, <2>3 DEF TestsWhatItFollows, This
    <3> QED BY <2>1, <2>3, <3>1, SilentAnswer
  <2> QED BY <2>2, <2>3
<1> QED BY <1>1, FreshInvariant, PTL

\* Whatever the document: an action is sent to a target that it offers and to no other
\* action's, if the actions of the types have targets of their own.
THEOREM ActionsHaveTheirTargets ==
  ASSUME \A T \in DOMAIN Catalogue : HasItsTargets(T)
  PROVE  AnyDocument => []ActionsAreOffered
<1>1. Fresh => ActionsAreOffered
  <2> SUFFICES ASSUME Fresh, last.posts # {} PROVE OfferedBy(This)
    BY DEF ActionsAreOffered
  <2>1. /\ kind \in DOMAIN Catalogue /\ last.op \in Actions(This)
        /\ last.posts = {Target(kind, last.op)} /\ Target(kind, last.op) \in doc
    BY DEF Fresh
  <2>2. last.posts \subseteq doc \cap Range(This.target)
    BY <2>1 DEF HasItsTargets, This
  <2>3. ASSUME last.op \in Actions(This) \ Of(Crossed, kind),
               NEW other \in Actions(This) \ (Of(Crossed, kind) \cup {last.op})
        PROVE  This.paths[This.ops[other].from] \notin last.posts
    BY <2>1, <2>3 DEF HasItsTargets, Target, This
  <2> QED BY <2>2, <2>3 DEF OfferedBy
<1> QED BY <1>1, FreshInvariant, PTL

-----------------------------------------------------------------------------
\* What a decoded document is: places of its type, and of a type only when decoding succeeded.
Decoded ==
  /\ kind \in DOMAIN Catalogue \cup {"none"}
  /\ kind = "none" /\ last.op = "Open" => last.err
  /\ kind # "none" => doc \subseteq This.places

LEMMA DecodedInvariant == AnyDocument => []Decoded
<1>1. Init => Decoded
  BY DEF Init, Decoded, NoCall, Call
<1>2. ASSUME Decoded, kind = "none", NEW T \in DOMAIN Catalogue, NEW d \in SUBSET Catalogue[T].places,
             NEW x, NEW c, Open(T, Catalogue[T], d, x, c)
      PROVE  Decoded'
  <2>1. CASE d \cap Range(Catalogue[T].text) # {}
    <3>1. kind' = kind /\ last'.err = TRUE
      BY <1>2, <2>1 DEF Open, Call
    <3> QED BY <1>2, <3>1 DEF Decoded
  <2>2. CASE d \cap Range(Catalogue[T].text) = {}
    <3>1. kind' = T /\ doc' = d
      BY <1>2, <2>2 DEF Open
    <3>2. T # "none"
      BY NameAssumption
    <3> QED BY <1>2, <3>1, <3>2 DEF Decoded, This
  <2> QED BY <2>1, <2>2
<1>3. ASSUME Decoded, kind # "none", Use(This) PROVE Decoded'
  <2>1. kind' = kind /\ doc' = doc
    BY <1>3 DEF Use, Follow, LearnTypes, Act, Edit, Update
  <2> QED BY <1>3, <2>1 DEF Decoded, This
<1>4. ASSUME Decoded, Return \/ Drop \/ UNCHANGED vars PROVE Decoded'
  BY <1>4 DEF Return, Drop, Idle, vars, Decoded, NoCall, Call, This
<1>5. \A R : Documents(R) \subseteq SUBSET R.places
  BY DEF Documents
<1>6. Decoded /\ [Next \/ OpenAny]_vars => Decoded'
  BY <1>2, <1>3, <1>4, <1>5 DEF Next, OpenAny
<1> QED BY <1>1, <1>6, PTL DEF AnyDocument

\* The counts of a type, but for those of Uncounted, are each set from a list of their own.
CountsItsLists(T) ==
  /\ Catalogue[T].counts \ Of(Uncounted, T) \subseteq DOMAIN Catalogue[T].count
  /\ Range(Catalogue[T].count) \subseteq Catalogue[T].places
  /\ \A c, d \in DOMAIN Catalogue[T].count \ Of(Uncounted, T) :
       Catalogue[T].count[c] = Catalogue[T].count[d] => c = d

\* Whatever the document: one with every list gives every count, and a single list no more
\* than one, if the counts of the types are set from lists of their own.
THEOREM CountsAreOfTheirLists ==
  ASSUME \A T \in DOMAIN Catalogue : CountsItsLists(T) /\ IsFiniteSet(Catalogue[T].places)
  PROVE  AnyDocument => []CountsFollowLists
<1>1. ASSUME Decoded, kind # "none" PROVE CountsOf(This, Of(Uncounted, kind))
  <2> DEFINE set == {c \in DOMAIN This.count : This.count[c] \in doc}
             trusted == set \ Of(Uncounted, kind)
  <2>1. CountsItsLists(kind) /\ IsFiniteSet(This.places) /\ doc \in SUBSET This.places
    BY <1>1 DEF Decoded, This
  <2>2. doc = This.places => This.counts \ Of(Uncounted, kind) \subseteq set
    BY <2>1 DEF CountsItsLists, Range, This
  <2>3. ASSUME Cardinality(doc) = 1 PROVE Cardinality(trusted) <= 1
    <3>1. IsFiniteSet(doc)
      BY <2>1, FS_Subset
    <3>2. PICK p : doc = {p}
      BY <2>3, <3>1, FS_Singleton
    <3>3. \A c, d \in trusted : c = d
      BY <2>1, <3>2 DEF CountsItsLists, This
    <3>4. CASE trusted = {}
      BY <3>4, FS_EmptySet
    <3>5. CASE trusted # {}
      <4>1. PICK c : c \in trusted
        BY <3>5
      <4>2. trusted = {c}
        BY <3>3, <4>1
      <4>3. Cardinality({c}) = 1
        BY FS_Singleton
      <4> QED BY <4>2, <4>3
    <3> QED BY <3>4, <3>5
  <2> QED BY <2>2, <2>3 DEF CountsOf
<1>2. Decoded => CountsFollowLists
  BY <1>1 DEF CountsFollowLists
<1> QED BY <1>2, DecodedInvariant, PTL

\* Field g holds the place of f whenever f holds it.
Same(R, g, f) ==
  /\ g \in DOMAIN R.paths /\ R.paths[g] = R.paths[f]
  /\ g \in DOMAIN R.inline => f \in DOMAIN R.inline

\* Method m comes to the place of field f whenever f holds it: a method of either reference
\* if that is the first one, GetWhen if it tests nothing else.
Finds(R, m, f) ==
  IF m \in Accessors(R)
  THEN /\ R.ops[m].how \in {"either", "getWhen"} => Same(R, R.ops[m].from, f)
       /\ R.ops[m].how # "either" => Same(R, R.ops[m].other, f)
  ELSE \E g \in {R.ops[m].from, R.ops[m].other} \cap DOMAIN R.paths : R.paths[g] = R.paths[f]

\* Each private field of a type, but for those of Unread, has a method that comes to it; or
\* one that does unless it prefers another, and then its place is one of Shadowed.
HasItsReaders(T) ==
  \A f \in DOMAIN Catalogue[T].paths \ Catalogue[T].open :
    \/ Catalogue[T].paths[f] \in Of(Unread, T)
    \/ \E m \in DOMAIN Catalogue[T].ops : Finds(Catalogue[T], m, f)
    \/ /\ Catalogue[T].paths[f] \in Of(Shadowed, T)
       /\ \E m \in Accessors(Catalogue[T]) : /\ Catalogue[T].ops[m].how = "either"
                                            /\ Same(Catalogue[T], Catalogue[T].ops[m].other, f)

\* What an accessor may ask for, and that no two of a type, but for those of Crossed and
\* Shared, may ask for the same.
Asks(R, m) ==
  (IF R.ops[m].how = "either" THEN {R.ops[m].from, R.ops[m].other} ELSE {R.ops[m].other})
    \cap DOMAIN R.paths
Mine(T) == Accessors(Catalogue[T]) \ (Of(Crossed, T) \cup Of(Shared, T))
AsksForItsOwn(T) ==
  \A m, n \in Mine(T) : m # n =>
    \A f \in Asks(Catalogue[T], m), g \in Asks(Catalogue[T], n) :
      Catalogue[T].paths[f] # Catalogue[T].paths[g]

\* The reference an accessor asks for with the document it has.
Asked(R, m) == IF R.ops[m].how = "either" /\ Holds(R, R.ops[m].from) THEN R.ops[m].from ELSE R.ops[m].other

LEMMA WhatIsAsked ==
  ASSUME NEW R, NEW m, client
  PROVE  Answer(R, m).gets =
           IF (R.ops[m].how = "getWhen" => Holds(R, R.ops[m].from)) /\ Holds(R, Asked(R, m))
           THEN {R.paths[Asked(R, m)]} ELSE {}
<1> DEFINE silent == R.ops[m].how = "getWhen" /\ ~Holds(R, R.ops[m].from)
           strict == R.ops[m].how \in {"get", "getWhen"}
           err == strict \/ Holds(R, Asked(R, m))
<1>1. Answer(R, m) = IF silent THEN Call(m, FALSE, {}, {}, {})
                     ELSE IF client /\ Holds(R, Asked(R, m))
                     THEN Call(m, FALSE, {R.paths[Asked(R, m)]}, {}, {})
                     ELSE Call(m, err, {}, {}, {})
  BY DEF Answer, Asked
<1> HIDE DEF err
<1>2. CASE silent
  BY <1>1, <1>2 DEF Call
<1>3. CASE ~silent /\ Holds(R, Asked(R, m))
  BY <1>1, <1>3 DEF Call
<1>4. CASE ~silent /\ ~Holds(R, Asked(R, m))
  BY <1>1, <1>4 DEF Call
<1> QED BY <1>2, <1>3, <1>4

LEMMA SameHolds ==
  ASSUME NEW R, NEW f, NEW g, Same(R, g, f), Holds(R, f) PROVE Holds(R, g)
BY DEF Same, Holds

LEMMA FindersReach ==
  ASSUME NEW R, NEW m \in DOMAIN R.ops, NEW f, Finds(R, m, f), Holds(R, f), client
  PROVE  R.paths[f] \in Reaches(R, m)
<1>1. CASE m \notin Accessors(R)
  BY <1>1 DEF Finds, Reaches
<1>2. CASE m \in Accessors(R)
  <2>1. CASE R.ops[m].how = "either"
    <3>1. Same(R, R.ops[m].from, f) /\ Holds(R, R.ops[m].from)
      BY <1>2, <2>1, SameHolds DEF Finds
    <3> QED BY <1>2, <2>1, <3>1, WhatIsAsked DEF Reaches, Asked, Same
  <2>2. CASE R.ops[m].how # "either"
    <3>1. Same(R, R.ops[m].other, f) /\ Holds(R, R.ops[m].other)
      BY <1>2, <2>2, SameHolds DEF Finds
    <3>2. R.ops[m].how = "getWhen" => Holds(R, R.ops[m].from)
      BY <1>2, SameHolds DEF Finds
    <3> QED BY <1>2, <2>2, <3>1, <3>2, WhatIsAsked DEF Reaches, Asked, Same
  <2> QED BY <2>1, <2>2
<1> QED BY <1>1, <1>2

\* Whatever the document: every reference that was decoded is exported or comes to a method
\* of its type, and no two accessors ask for the same, if that is so of the tables.
THEOREM LinksHaveReaders ==
  ASSUME \A T \in DOMAIN Catalogue : /\ HasItsReaders(T) /\ AsksForItsOwn(T)
                                     /\ IsFiniteSet(Catalogue[T].places)
                                     /\ IsFiniteSet(DOMAIN Catalogue[T].ops)
  PROVE  AnyDocument => []EveryLinkHasItsReader
<1>1. ASSUME Decoded, kind # "none", client PROVE ReadersOf(This)
  <2> DEFINE mine == Accessors(This) \ (Of(Crossed, kind) \cup Of(Shared, kind))
             asking == {name \in mine : Answer(This, name).gets # {}}
             reached == UNION {Reaches(This, name) : name \in DOMAIN This.ops}
             private == {This.paths[f] : f \in {g \in DOMAIN This.paths \ This.open : Holds(This, g)}}
             hidden == IF Cardinality(doc) = 1 THEN {} ELSE Of(Shadowed, kind)
             asked == UNION {Answer(This, name).gets : name \in asking}
  <2>1. /\ HasItsReaders(kind) /\ AsksForItsOwn(kind) /\ IsFiniteSet(DOMAIN This.ops)
        /\ IsFiniteSet(This.places) /\ doc \in SUBSET This.places
    BY <1>1 DEF Decoded, This
  <2>2. ASSUME NEW f \in DOMAIN This.paths \ This.open, Holds(This, f)
        PROVE  This.paths[f] \in reached \/ This.paths[f] \in Of(Unread, kind) \/ This.paths[f] \in hidden
    <3>1. CASE \E m \in DOMAIN This.ops : Finds(This, m, f)
      BY <1>1, <2>2, <3>1, FindersReach
    <3>2. ASSUME NEW m \in Accessors(This), This.ops[m].how = "either", Same(This, This.ops[m].other, f),
                 Cardinality(doc) = 1
          PROVE  This.paths[f] \in reached
      <4>1. IsFiniteSet(doc)
        BY <2>1, FS_Subset
      <4>2. PICK p : doc = {p}
        BY <3>2, <4>1, FS_Singleton
      <4>3. Holds(This, This.ops[m].other)
        BY <2>2, <3>2, SameHolds
      <4>4. Holds(This, Asked(This, m)) /\ This.paths[Asked(This, m)] = This.paths[f]
        BY <2>2, <3>2, <4>2, <4>3 DEF Asked, Holds, Same
      <4>5. This.paths[f] \in Reaches(This, m) /\ m \in DOMAIN This.ops
        BY <1>1, <3>2, <4>4, WhatIsAsked DEF Reaches, Accessors
      <4> QED BY <4>5
    <3> QED BY <2>1, <3>1, <3>2 DEF HasItsReaders, This
  <2>3. private \ (reached \cup Of(Unread, kind)) \subseteq hidden
    BY <2>2
  <2>4. Cardinality(asked) = Cardinality(asking)
    <3> DEFINE place == [name \in asking |-> This.paths[Asked(This, name)]]
    <3>1. ASSUME NEW name \in asking
          PROVE  /\ Answer(This, name).gets = {place[name]} /\ name \in mine
                 /\ Asked(This, name) \in Asks(This, name)
      BY <1>1, <3>1, WhatIsAsked DEF Asked, Asks, Holds
    <3>2. \A m, n \in asking : place[m] = place[n] => m = n
      BY <2>1, <3>1 DEF AsksForItsOwn, Mine, This
    <3>3. asked = {place[name] : name \in asking}
      <4>1. \A name \in asking : Answer(This, name).gets = {place[name]}
        BY <3>1
      <4> HIDE DEF asking, place
      <4>2. \A p : p \in asked <=> \E name \in asking : p = place[name]
        BY <4>1
      <4> QED BY <4>2
    <3>4. place \in Bijection(asking, asked)
      BY <3>2, <3>3 DEF Bijection, Injection, Surjection, IsInjective
    <3>5. IsFiniteSet(asking)
      BY <2>1, FS_Subset DEF Accessors
    <3> QED BY <3>4, <3>5, FS_Bijection DEF ExistsBijection
  <2> QED BY <2>3, <2>4 DEF ReadersOf
<1>2. Decoded => EveryLinkHasItsReader
  BY <1>1 DEF EveryLinkHasItsReader, Decoded
<1> QED BY <1>2, DecodedInvariant, PTL

\* A program that has to do with the documents of Documents only is one of these.
LEMMA SpecIsAnyDocument == Spec => AnyDocument
BY PTL DEF Spec, AnyDocument
=============================================================================
