---------------------------- MODULE EntityUpdate ----------------------------
(***************************************************************************)
(* A resource that a program has read, edits and writes back               *)
(* (common/entity.go), as some ninety resource types do with               *)
(* UpdateFromRawData; and ClearLog, the action of a LogService that shares *)
(* the entity's ETag with its Update (redfish/logservice.go).              *)
(*                                                                         *)
(* Update compares the fields with those of the JSON the entity was        *)
(* decoded from, refuses when a read-only one differs, and sends the       *)
(* differences in a PATCH with the entity's ETag in If-Match.  Everyone    *)
(* else who writes the resource is OtherWriter, other clients of this      *)
(* library included.                                                       *)
(***************************************************************************)
EXTENDS Naturals

CONSTANTS
    Fields,         \* the fields of the resource
    allowedUpdates, \* those that may be updated
    Values,         \* what a field may hold
    WriteBound      \* how often resource and log are written at most

ASSUME EntityAssumption ==
    allowedUpdates \subseteq Fields /\ Values # {} /\ WriteBound \in Nat

VARIABLES
    resource,   \* the resource at the service: its fields and its ETag
    entries,    \* the ETag of the log's Entries collection
    service,    \* what the service does about ETags and ClearLog
    entity,     \* the program's copy
    op,         \* the operation under way
    alone,      \* history: no other writer wrote since the entity was read
    updates,    \* history: Updates since the entity was read: 0, 1 or more (2)
    clears,     \* history: how often the last ClearLog cleared the log
    quiet       \* history: nothing else happened to the log since it began

history == <<alone, updates, clears, quiet>>
vars == <<resource, entries, service, entity, op, history>>

None == 0
ResourceTags == 1..(WriteBound + 1)
EntriesTags == (WriteBound + 2)..(2 * WriteBound + 2)
Tags == ResourceTags \cup EntriesTags \cup {None}
Contents == [Fields -> Values]
Payloads == UNION {[F -> Values] : F \in (SUBSET allowedUpdates) \ {{}}}
Forms == {"plain", "etag", "action"}

(* tagged: a GET of the resource carries its ETag; entriesTagged: one of    *)
(* the Entries does in its header; accepts: the payload ClearLog must have; *)
(* reliable: no request or reply is lost.                                   *)
Services == [tagged : BOOLEAN, entriesTagged : BOOLEAN, accepts : SUBSET Forms,
             reliable : BOOLEAN]

NoPayload == <<>>
Idle == [kind |-> "idle", what |-> "none", ok |-> TRUE, payload |-> NoPayload, ifMatch |-> None, etag |-> None]

(* What the variables range over. *)
TypeOK ==
    /\ resource \in [fields : Contents, tag : ResourceTags]
    /\ entries \in EntriesTags
    /\ service \in Services
    /\ entity \in [rawData : Contents, fields : Contents, etag : Tags, disableEtagMatch : BOOLEAN]
    /\ op \in [kind : {"idle", "done", "patch", "patched", "plain", "list", "etag", "action"},
              what : {"none", "Update", "ClearLog"}, ok : BOOLEAN,
              payload : Payloads \cup {NoPayload}, ifMatch : Tags, etag : Tags]
    /\ alone \in BOOLEAN /\ updates \in 0..2 /\ clears \in 0..3 /\ quiet \in BOOLEAN

(* The entity as a GET gives it: the ETag of its body or of the header. *)
Decoded(off) == [rawData |-> resource.fields, fields |-> resource.fields,
                 etag |-> IF service.tagged THEN resource.tag ELSE None,
                 disableEtagMatch |-> off]

Init ==
    /\ resource \in [fields : Contents, tag : {1}]
    /\ entries = WriteBound + 2
    /\ service \in Services
    /\ \E off \in BOOLEAN : entity = Decoded(off)
    /\ op = Idle
    /\ alone = TRUE /\ updates = 0 /\ clears = 0 /\ quiet = TRUE

Resting == op.kind \in {"idle", "done"}
Done(w, ok) == op' = [Idle EXCEPT !.kind = "done", !.what = w, !.ok = ok]

-----------------------------------------------------------------------------
(* The program reads, edits and updates. *)

GetObject ==
    /\ Resting
    /\ \E off \in BOOLEAN : entity' = Decoded(off)
    /\ op' = Idle
    /\ alone' = TRUE /\ updates' = 0
    /\ UNCHANGED <<resource, entries, service, clears, quiet>>

Edit(f, v) ==
    /\ Resting /\ entity.fields[f] # v
    /\ entity' = [entity EXCEPT !.fields[f] = v]
    /\ op' = Idle
    /\ UNCHANGED <<resource, entries, service, history>>

(* Headers: the ETag goes along when there is one and it is not disabled. *)
IfMatch == IF entity.disableEtagMatch THEN None ELSE entity.etag

(* getPatchPayloadFromUpdate: the fields that differ, as they are now. *)
Changed == {f \in Fields : entity.fields[f] # entity.rawData[f]}
Payload(F) == [f \in F |-> entity.fields[f]]

(* UpdateFromRawData: one changed field that is read only fails the whole   *)
(* update, and without a change nothing is sent.                            *)
Update ==
    /\ Resting
    /\ IF ~(Changed \subseteq allowedUpdates) THEN Done("Update", FALSE)
       ELSE IF Changed = {} THEN Done("Update", TRUE)
       ELSE op' = [Idle EXCEPT !.kind = "patch", !.payload = Payload(Changed), !.ifMatch = IfMatch]
    /\ updates' = IF updates = 0 THEN 1 ELSE 2
    /\ UNCHANGED <<resource, entries, service, entity, alone, clears, quiet>>

(* The service applies a PATCH or POST whose If-Match, if any, names the    *)
(* version it has, and the reply comes or does not come.                    *)
Matches == op.ifMatch \in {None, resource.tag}
Room == resource.tag < WriteBound + 1

ServicePatch ==
    /\ op.kind = "patch"
    /\ \/ /\ Matches /\ Room
          /\ resource' = [fields |-> [f \in Fields |-> IF f \in DOMAIN op.payload THEN op.payload[f]
                                                       ELSE resource.fields[f]],
                          tag |-> resource.tag + 1]
          /\ \E told \in BOOLEAN :
                /\ service.reliable => told
                /\ op' = [op EXCEPT !.kind = "patched", !.ok = told]
       \/ /\ ~Matches \/ ~service.reliable
          /\ op' = [op EXCEPT !.kind = "patched", !.ok = FALSE]
          /\ UNCHANGED resource
    /\ UNCHANGED <<entries, service, entity, history>>

(* Deviation: the entity takes over the new ETag and keeps its old fields. *)
PatchReturns_TakesTag ==
    /\ op.kind = "patched"
    /\ Done("Update", op.ok)
    /\ entity' = IF op.ok /\ service.tagged THEN [entity EXCEPT !.etag = resource.tag] ELSE entity
    /\ UNCHANGED <<resource, entries, service, history>>

(* Deviation: the error of the PATCH is not passed on. *)
PatchReturns_HidesError ==
    /\ op.kind = "patched"
    /\ Done("Update", TRUE)
    /\ UNCHANGED <<resource, entries, service, entity, history>>

(* PatchWithContext returns; neither the raw data nor the ETag of the       *)
(* entity is brought up to date.                                            *)
PatchReturns ==
    /\ op.kind = "patched"
    /\ Done("Update", op.ok)
    /\ UNCHANGED <<resource, entries, service, entity, history>>

-----------------------------------------------------------------------------
(* ClearLog. *)

Post(form) == op' = [Idle EXCEPT !.kind = form, !.ifMatch = IfMatch]

ClearLog ==
    /\ Resting
    /\ Post("plain")
    /\ clears' = 0 /\ quiet' = TRUE
    /\ UNCHANGED <<resource, entries, service, entity, alone, updates>>

EntriesRoom == entries < 2 * WriteBound + 2

(* The service clears the log when it takes this form of the action, with   *)
(* the ETag of the Entries it has where the form needs it.                  *)
Takes(form) ==
    /\ Matches /\ form \in service.accepts
    /\ form = "etag" => op.etag = entries

(* What follows when a form of the action fails. *)
Failed(form) ==
    CASE form = "plain"  -> op' = [Idle EXCEPT !.kind = "list"]
      [] form = "etag"   -> Post("action")
      [] form = "action" -> Done("ClearLog", FALSE)

Attempt(form) ==
    /\ op.kind = form
    /\ \/ /\ Takes(form) /\ EntriesRoom
          /\ entries' = entries + 1
          /\ clears' = clears + 1
          /\ Done("ClearLog", TRUE) \/ (~service.reliable /\ Failed(form))
       \/ /\ ~Takes(form) \/ ~service.reliable
          /\ Failed(form)
          /\ UNCHANGED <<entries, clears>>
    /\ UNCHANGED <<resource, service, entity, alone, updates, quiet>>

(* Deviation: the second attempt is skipped without an ETag header. *)
ListEntries_NeedsHeader ==
    /\ op.kind = "list"
    /\ IF service.entriesTagged
       THEN /\ entity' = [entity EXCEPT !.etag = IF @ = None THEN entries ELSE @]
            /\ op' = [Idle EXCEPT !.kind = "etag", !.ifMatch = IF entity.disableEtagMatch THEN None ELSE entity'.etag,
                                  !.etag = entries]
       ELSE Post("action") /\ UNCHANGED entity
    /\ UNCHANGED <<resource, entries, service, history>>

(* The Entries are read, through the entity: without an ETag of its own, it *)
(* takes theirs.                                                            *)
ListEntries ==
    /\ op.kind = "list"
    /\ \/ /\ entity' = [entity EXCEPT !.etag = IF @ = None /\ service.entriesTagged THEN entries ELSE @]
          /\ op' = [Idle EXCEPT !.kind = "etag", !.ifMatch = IF entity.disableEtagMatch THEN None ELSE entity'.etag,
                                !.etag = entries]
       \/ ~service.reliable /\ Post("action") /\ UNCHANGED entity
    /\ UNCHANGED <<resource, entries, service, history>>

-----------------------------------------------------------------------------
(* The world. *)

OtherWriter(f, v) ==
    /\ Room /\ resource.fields[f] # v
    /\ resource' = [fields |-> [resource.fields EXCEPT ![f] = v], tag |-> resource.tag + 1]
    /\ alone' = FALSE
    /\ UNCHANGED <<entries, service, entity, op, updates, clears, quiet>>

LogGrows ==
    /\ EntriesRoom
    /\ entries' = entries + 1 /\ quiet' = FALSE
    /\ UNCHANGED <<resource, service, entity, op, alone, updates, clears>>

Next ==
    \/ GetObject \/ Update \/ ServicePatch \/ PatchReturns
    \/ ClearLog \/ ListEntries \/ LogGrows
    \/ \E form \in Forms : Attempt(form)
    \/ \E f \in Fields, v \in Values : Edit(f, v) \/ OtherWriter(f, v)

Spec == Init /\ [][Next]_vars

-----------------------------------------------------------------------------
(* Properties. *)

(* An Update never undoes what someone else wrote: it writes only fields    *)
(* the program changed, and with an ETag only onto the version the program  *)
(* has read.                                                                *)
Applied == op.kind = "patch" /\ resource' # resource /\ op' # op
NoLostUpdate == [][Applied =>
    /\ op.ifMatch # None => resource.fields = entity.rawData
    /\ \A f \in Fields : resource'.fields[f] # resource.fields[f] => entity.fields[f] # entity.rawData[f]]_vars

Succeeded(what) == op.kind = "done" /\ op.what = what /\ op.ok

(* The first Update after a read that reports success has made the resource *)
(* what the program asked for, unless others wrote as well: an error of the *)
(* service, or a lost reply, is never taken for a success.                  *)
FirstUpdateCommits ==
    Succeeded("Update") /\ updates = 1 /\ alone => resource.fields = entity.fields

(* ClearLog reports success only of a log that was cleared, and on a        *)
(* reliable service it clears it once.  There its attempts also stand in    *)
(* for each other: it succeeds when any of them is one the service takes,   *)
(* the log holds still, and the entity has no ETag but the current one.     *)
ClearLogClears ==
    /\ Succeeded("ClearLog") => clears > 0
    /\ service.reliable => clears <= 1
    /\ (op.kind = "done" /\ op.what = "ClearLog" /\ service.reliable /\ quiet
          /\ service.accepts # {} /\ IfMatch \in {None, resource.tag}) => op.ok

(* common/entity.go:43-45: ODataEtag "contains either the entity's declared *)
(* ETag or the ETag header when fetching the object".                       *)
EtagIsOwn == entity.etag \in ResourceTags \cup {None}

(* redfish/logservice.go:176: UpdateWithContext "commits updates to this    *)
(* object's properties to the running system", so one that reports success  *)
(* has done that, and not the first after a read only.                      *)
UpdateCommits ==
    Succeeded("Update") /\ alone => resource.fields = entity.fields

(* One of these two comments is true of the code, in every state.  The      *)
(* violation is a state in which neither is: the entity has the ETag of the *)
(* Entries, and an Update that set a field back has reported success.       *)
EntityClaimHolds == EtagIsOwn \/ UpdateCommits
=============================================================================
