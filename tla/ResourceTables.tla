---------------------------- MODULE ResourceTables ----------------------------
(***************************************************************************)
(* How the resource types of gofish are written down.  A type is           *)
(*                                                                         *)
(*   - a struct: "fields" are the JSON names of its exported properties,   *)
(*     "counts" the Go names of its exported Count fields, "inside" maps a *)
(*     nested property its Update lists to the field that contains it, and *)
(*     "open" names the decoded links and targets that are exported;       *)
(*   - its UnmarshalJSON: for each shape of link, which Go field is filled *)
(*     from which place of the document; "keeps" says that it also keeps   *)
(*     the document for a later Update;                                    *)
(*   - its methods: what each accessor follows, what each action posts to, *)
(*     and what Update may send.                                           *)
(*                                                                         *)
(* A place is a dotted JSON path, "#A" is the target of action A,          *)
(* "#A@ActionInfo" and "#A@AllowableValues" are that action's hints.  A    *)
(* label is the Go field, or the last part of its path.  The WithContext   *)
(* form of a method, which the plain one calls, is not listed again; nor   *)
(* are getters that only return a field.                                   *)
(***************************************************************************)
EXTENDS TLC, Functions

\* What a type has when its table does not say otherwise.
Blank ==
  [fields |-> {}, counts |-> {}, inside |-> <<>>, open |-> {}, keeps |-> FALSE,
   one |-> <<>>,     \* a common.Link: one reference
   many |-> <<>>,    \* common.Links: a list of references
   inline |-> <<>>,  \* a common.LinksCollection: only the members that came with it
   text |-> <<>>,    \* a Go string, where the schema has a reference
   target |-> <<>>, info |-> <<>>, allowed |-> <<>>,
   count |-> <<>>]

\* A resource type: its document, its methods, the place every link is decoded from, and
\* all the places it decodes.
Resource(document, methods) ==
  LET r == document @@ Blank
      paths == r.one @@ r.many @@ r.inline @@ r.text @@ r.target @@ r.info @@ r.allowed
  IN [ops |-> methods, paths |-> paths, places |-> Range(paths) \cup Range(r.count)] @@ r

Method(how, from, other, to) ==
  [how |-> how, from |-> from, other |-> other, to |-> to, writable |-> {}]

\* One object by its reference; Get lets the client refuse an absent one, GetIf returns nil.
Get(field, type) == Method("get", field, field, type)
GetIf(field, type) == Method("getIf", field, field, type)

\* A list of references, and the members of a collection; an absent one is empty.
Objects(field, type) == Method("objects", field, field, type)
Members(field, type) == Method("members", field, field, type)

\* The members of a collection, with an error when there is no reference to it.
MembersOrFail(field, type) == Method("get", field, field, type)

\* The first of two references that the document has.
Either(field, other, type) == Method("either", field, other, type)

\* Nil when the first field is empty, and else the object the second one refers to.
GetWhen(field, other, type) == Method("getWhen", field, other, type)

\* The list of values in a field; an empty one is filled from the ActionInfo, and with it
\* the exported property "to".
Learn(list, info, to) == Method("learn", list, info, to)

\* A POST to a target; the client refuses an empty one.
Post(target) == Method("post", target, target, "")

\* A POST with a reset type that has to be in the list, when there is one.
Reset(target, list) == Method("reset", target, list, "")

\* A POST that sets an exported property of the object when it succeeds.
PostAndSet(target, property) == Method("postAndSet", target, target, property)

\* Update: a PATCH of the edited properties, all of which must be listed here.
Patch(properties) == [Method("patch", "", "", "") EXCEPT !.writable = properties]
===============================================================================
