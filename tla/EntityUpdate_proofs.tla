------------------------ MODULE EntityUpdate_proofs ------------------------
(***************************************************************************)
(* Safety of Update and ClearLog, for every set of fields and values and   *)
(* any number of writes.                                                   *)
(*                                                                         *)
(* What a reported success means depends on what the entity is a copy of.  *)
(* The invariant says which version of the resource that is (Copy), that   *)
(* the PATCH under way is made of the edits and the ETag of the entity as  *)
(* it still is (Sent), and what each attempt of ClearLog says about the    *)
(* attempts before it (Cleared, Refused).                                  *)
(***************************************************************************)
EXTENDS EntityUpdate, TLAPS

Clearing == {"plain", "list", "etag", "action"}

(* The entity is a copy of the version its ETag names, if the resource has  *)
(* that version still, and no ETag of the resource is from later.           *)
Copy ==
    /\ entity.etag \in ResourceTags => entity.etag <= resource.tag
    /\ entity.etag = resource.tag => resource.fields = entity.rawData
    /\ alone /\ updates = 0 => resource.fields = entity.rawData

Sent ==
    /\ op.kind \in {"patch", "patched"} =>
          /\ updates # 0 /\ op.what = "none"
          /\ op.payload = Payload(Changed) /\ Changed \subseteq allowedUpdates
    /\ op.kind \in {"patch", "plain", "etag", "action"} => op.ifMatch = IfMatch
    /\ op.kind = "patch" /\ alone /\ updates = 1 => resource.fields = entity.rawData
    /\ op.kind = "patched" /\ op.ok /\ alone /\ updates = 1 => resource.fields = entity.fields
    /\ FirstUpdateCommits

(* How often the log may have been cleared on the way. *)
Cleared ==
    /\ op.kind = "plain" => clears = 0
    /\ op.kind \in {"list", "etag"} => clears <= 1
    /\ op.kind = "action" => clears <= 2
    /\ service.reliable => clears <= (IF op.kind \in Clearing THEN 0 ELSE 1)
    /\ Succeeded("ClearLog") => clears > 0

(* The program has no ETag but the current one. *)
Current == IfMatch \in {None, resource.tag}

(* On a reliable service and an undisturbed log, an attempt that failed is  *)
(* one that the service does not take.                                      *)
Refused ==
    /\ op.kind = "etag" /\ quiet => op.etag = entries
    /\ service.reliable /\ quiet /\ Current =>
          /\ op.kind \in {"list", "etag", "action"} => "plain" \notin service.accepts
          /\ op.kind = "action" => "etag" \notin service.accepts
          /\ op.kind = "done" /\ op.what = "ClearLog" /\ ~op.ok => service.accepts = {}

EntityInv == TypeOK /\ Copy /\ Sent /\ Cleared /\ Refused
-----------------------------------------------------------------------------
(* The tags of the resource and of the entries are never taken for each     *)
(* other, nor for no tag.                                                   *)
LEMMA TagFacts ==
    /\ WriteBound \in Nat
    /\ ResourceTags \subseteq Nat \ {None} /\ EntriesTags \subseteq Nat \ {None}
    /\ ResourceTags \cap EntriesTags = {}
    /\ Tags = ResourceTags \cup EntriesTags \cup {None}
BY EntityAssumption DEF ResourceTags, EntriesTags, Tags, None

LEMMA IfMatchType == TypeOK => IfMatch \in Tags
BY TagFacts DEF TypeOK, IfMatch

(* A payload of the edits is one that may be sent. *)
LEMMA PayloadType ==
    TypeOK /\ Changed \subseteq allowedUpdates /\ Changed # {} => Payload(Changed) \in Payloads
<1> SUFFICES ASSUME TypeOK, Changed \subseteq allowedUpdates, Changed # {}
             PROVE  Payload(Changed) \in Payloads
  OBVIOUS
<1>1. Changed \in (SUBSET allowedUpdates) \ {{}} /\ Changed \subseteq Fields
  BY DEF Changed
<1>2. \A f \in Fields : entity.fields[f] \in Values
  BY DEF TypeOK, Contents
<1>3. Payload(Changed) \in [Changed -> Values]
  BY <1>1, <1>2 DEF Payload
<1> QED BY <1>1, <1>3 DEF Payloads

LEMMA NothingChanged == TypeOK /\ Changed = {} => entity.fields = entity.rawData
<1> SUFFICES ASSUME TypeOK, Changed = {} PROVE entity.fields = entity.rawData
  OBVIOUS
<1>1. entity.fields \in [Fields -> Values] /\ entity.rawData \in [Fields -> Values]
  BY DEF TypeOK, Contents
<1>2. \A f \in Fields : entity.fields[f] = entity.rawData[f]
  BY DEF Changed
<1> QED BY <1>1, <1>2

(* On the version the entity was read from, a PATCH of the edits makes the  *)
(* resource what the program has.                                           *)
LEMMA PatchMakesEdits ==
    ASSUME TypeOK, resource.fields = entity.rawData, op.payload = Payload(Changed)
    PROVE  [f \in Fields |-> IF f \in DOMAIN op.payload THEN op.payload[f] ELSE resource.fields[f]]
           = entity.fields
<1>1. entity.fields \in [Fields -> Values]
  BY DEF TypeOK, Contents
<1>2. \A f \in Fields : IF f \in DOMAIN op.payload THEN op.payload[f] = entity.fields[f]
                        ELSE resource.fields[f] = entity.fields[f]
  BY DEF Payload, Changed
<1> QED BY <1>1, <1>2

LEMMA DecodedType ==
    ASSUME resource \in [fields : Contents, tag : ResourceTags], service \in Services, NEW off \in BOOLEAN
    PROVE  Decoded(off) \in [rawData : Contents, fields : Contents, etag : Tags, disableEtagMatch : BOOLEAN]
BY TagFacts DEF Decoded

LEMMA DecodedIsCopy ==
    ASSUME resource.tag \in ResourceTags, NEW off \in BOOLEAN
    PROVE  /\ Decoded(off).rawData = resource.fields
           /\ Decoded(off).etag \in ResourceTags => Decoded(off).etag <= resource.tag
<1>1. Decoded(off).rawData = resource.fields
  BY DEF Decoded
<1>2. Decoded(off).etag \in {resource.tag, None}
  BY DEF Decoded
<1>3. resource.tag \in Nat /\ None \notin ResourceTags
  BY TagFacts
<1>4. resource.tag <= resource.tag
  BY <1>3
<1> QED BY <1>1, <1>2, <1>3, <1>4

LEMMA IdleType ==
    Idle \in [kind : {"idle", "done", "patch", "patched", "plain", "list", "etag", "action"},
              what : {"none", "Update", "ClearLog"}, ok : BOOLEAN,
              payload : Payloads \cup {NoPayload}, ifMatch : Tags, etag : Tags]
BY TagFacts DEF Idle

LEMMA InitEntity == Init => EntityInv
<1> SUFFICES ASSUME Init PROVE EntityInv
  OBVIOUS
<1>1. PICK off \in BOOLEAN : entity = Decoded(off)
  BY DEF Init
<1>2. 1 \in ResourceTags /\ WriteBound + 2 \in EntriesTags
  BY EntityAssumption DEF ResourceTags, EntriesTags
<1>3. TypeOK
  <2>1. resource \in [fields : Contents, tag : ResourceTags] /\ service \in Services /\ entries \in EntriesTags
    BY <1>2 DEF Init
  <2>2. entity \in [rawData : Contents, fields : Contents, etag : Tags, disableEtagMatch : BOOLEAN]
    BY <1>1, <2>1, DecodedType
  <2> QED BY <2>1, <2>2, IdleType DEF Init, TypeOK
<1>4. Copy
  BY <1>1, <1>2, DecodedIsCopy DEF Init, Copy
<1>5. Sent /\ Cleared /\ Refused
  BY DEF Init, Idle, Sent, FirstUpdateCommits, Cleared, Clearing, Refused, Succeeded
<1> QED BY <1>3, <1>4, <1>5 DEF EntityInv

-----------------------------------------------------------------------------
(* The steps of the program. *)

LEMMA GetObjectKeeps == EntityInv /\ GetObject => EntityInv'
<1> SUFFICES ASSUME EntityInv, GetObject PROVE EntityInv'
  OBVIOUS
<1>1. PICK off \in BOOLEAN : entity' = Decoded(off)
  BY DEF GetObject
<1>2. TypeOK'
  BY <1>1, DecodedType, IdleType DEF EntityInv, GetObject, TypeOK
<1>3. Copy'
  BY <1>1, DecodedIsCopy DEF EntityInv, TypeOK, GetObject, Copy
<1>4. Sent' /\ Refused'
  BY DEF GetObject, Idle, Sent, FirstUpdateCommits, Succeeded, Refused
<1>5. Cleared'
  BY DEF EntityInv, GetObject, Resting, Idle, Cleared, Clearing, Succeeded
<1> QED BY <1>2, <1>3, <1>4, <1>5 DEF EntityInv

LEMMA EditKeeps == ASSUME NEW f \in Fields, NEW v \in Values PROVE EntityInv /\ Edit(f, v) => EntityInv'
<1> SUFFICES ASSUME EntityInv, Edit(f, v) PROVE EntityInv'
  OBVIOUS
<1>1. entity' \in [rawData : Contents, fields : Contents, etag : Tags, disableEtagMatch : BOOLEAN]
  BY DEF EntityInv, TypeOK, Contents, Edit
<1>2. TypeOK'
  BY <1>1 DEF EntityInv, TypeOK, Edit, Idle, NoPayload, Tags, history
<1>3. entity'.etag = entity.etag /\ entity'.rawData = entity.rawData
  BY DEF EntityInv, TypeOK, Edit
<1>4. Copy'
  BY <1>3 DEF EntityInv, Copy, Edit, history
<1>5. Sent' /\ Refused'
  BY DEF Edit, Idle, Sent, FirstUpdateCommits, Succeeded, Refused
<1>6. Cleared'
  BY DEF EntityInv, Edit, history, Resting, Idle, Cleared, Clearing, Succeeded
<1> QED BY <1>2, <1>4, <1>5, <1>6 DEF EntityInv

LEMMA UpdateKeeps == EntityInv /\ Update => EntityInv'
<1> SUFFICES ASSUME EntityInv, Update PROVE EntityInv'
  OBVIOUS
<1> USE DEF EntityInv
<1>1. updates' \in 1..2 /\ (updates' = 1 => updates = 0)
  BY DEF TypeOK, Update
<1>2. UNCHANGED <<resource, entries, service, entity, alone, clears, quiet>> /\ op.kind \notin Clearing
  BY DEF Update, Resting, Clearing
<1>3. UNCHANGED <<IfMatch, Changed>>
  BY <1>2 DEF IfMatch, Changed
<1>4. Copy'
  BY <1>1, <1>2 DEF Copy
<1>5. CASE Done("Update", FALSE)
  <2>1. op' = [kind |-> "done", what |-> "Update", ok |-> FALSE, payload |-> NoPayload, ifMatch |-> None, etag |-> None]
    BY <1>5 DEF Done, Idle
  <2>2. TypeOK'
    BY <1>1, <1>2, <2>1, TagFacts DEF TypeOK
  <2>3. Sent' /\ Refused'
    BY <2>1 DEF Sent, FirstUpdateCommits, Succeeded, Refused
  <2>4. Cleared'
    BY <1>2, <2>1 DEF Cleared, Clearing, Succeeded
  <2> QED BY <1>4, <2>2, <2>3, <2>4
<1>6. CASE Changed = {} /\ Done("Update", TRUE)
  <2>1. op' = [kind |-> "done", what |-> "Update", ok |-> TRUE, payload |-> NoPayload, ifMatch |-> None, etag |-> None]
    BY <1>6 DEF Done, Idle
  <2>2. TypeOK'
    BY <1>1, <1>2, <2>1, TagFacts DEF TypeOK
  <2>3. alone' /\ updates' = 1 => resource'.fields = entity'.fields
    BY <1>1, <1>2, <1>6, NothingChanged DEF Copy
  <2>4. Sent' /\ Refused'
    BY <2>1, <2>3 DEF Sent, FirstUpdateCommits, Succeeded, Refused
  <2>5. Cleared'
    BY <1>2, <2>1 DEF Cleared, Clearing, Succeeded
  <2> QED BY <1>4, <2>2, <2>4, <2>5
<1>7. CASE /\ Changed \subseteq allowedUpdates /\ Changed # {}
           /\ op' = [Idle EXCEPT !.kind = "patch", !.payload = Payload(Changed), !.ifMatch = IfMatch]
  <2>1. op' = [kind |-> "patch", what |-> "none", ok |-> TRUE, payload |-> Payload(Changed),
               ifMatch |-> IfMatch, etag |-> None]
    BY <1>7 DEF Idle
  <2>2. TypeOK'
    <3>1. Payload(Changed) \in Payloads /\ IfMatch \in Tags /\ None \in Tags
      BY <1>7, TagFacts, IfMatchType, PayloadType
    <3> QED BY <1>1, <1>2, <2>1, <3>1 DEF TypeOK
  <2>3. Payload(Changed)' = Payload(Changed)
    BY <1>2, <1>3 DEF Payload
  <2>4. Sent'
    <3>1. Changed' \subseteq allowedUpdates /\ updates' # 0 /\ IfMatch' = IfMatch
      BY <1>1, <1>3, <1>7
    <3>2. op'.payload = Payload(Changed)' /\ op'.ifMatch = IfMatch /\ op'.kind = "patch" /\ op'.what = "none"
      BY <2>1, <2>3
    <3>3. alone' /\ updates' = 1 => resource'.fields = entity'.rawData
      BY <1>1, <1>2 DEF Copy
    <3> QED BY <3>1, <3>2, <3>3 DEF Sent, FirstUpdateCommits, Succeeded
  <2>5. Refused'
    BY <2>1 DEF Refused
  <2>6. Cleared'
    BY <1>2, <2>1 DEF Cleared, Clearing, Succeeded
  <2> QED BY <1>4, <2>2, <2>4, <2>5, <2>6
<1> QED BY <1>5, <1>6, <1>7 DEF Update

(* The reply to the PATCH ends the Update as it was given. *)
LEMMA PatchReturnsKeeps == EntityInv /\ PatchReturns => EntityInv'
<1> SUFFICES ASSUME EntityInv, PatchReturns PROVE EntityInv'
  OBVIOUS
<1> USE DEF EntityInv
<1>1. /\ UNCHANGED <<resource, entries, service, entity, alone, updates, clears, quiet>>
      /\ op.kind \notin Clearing
  BY DEF PatchReturns, history, Clearing
<1>2. op' = [kind |-> "done", what |-> "Update", ok |-> op.ok, payload |-> NoPayload, ifMatch |-> None, etag |-> None]
  BY DEF PatchReturns, Done, Idle
<1>3. TypeOK'
  BY <1>1, <1>2, TagFacts DEF TypeOK
<1>4. Copy'
  BY <1>1 DEF Copy
<1>5. Sent' /\ Refused'
  <2>1. op.ok /\ alone /\ updates = 1 => resource.fields = entity.fields
    BY DEF PatchReturns, Sent
  <2> QED BY <1>1, <1>2, <2>1 DEF Sent, FirstUpdateCommits, Succeeded, Refused
<1>6. Cleared'
  BY <1>1, <1>2 DEF Cleared, Clearing, Succeeded
<1> QED BY <1>3, <1>4, <1>5, <1>6

LEMMA ClearLogKeeps == EntityInv /\ ClearLog => EntityInv'
<1> SUFFICES ASSUME EntityInv, ClearLog PROVE EntityInv'
  OBVIOUS
<1> USE DEF EntityInv
<1>1. UNCHANGED <<resource, entries, service, entity, alone, updates>> /\ clears' = 0 /\ quiet' = TRUE
  BY DEF ClearLog
<1>2. op' = [kind |-> "plain", what |-> "none", ok |-> TRUE, payload |-> NoPayload, ifMatch |-> IfMatch, etag |-> None]
  BY DEF ClearLog, Post, Idle
<1>3. TypeOK'
  BY <1>1, <1>2, TagFacts, IfMatchType DEF TypeOK
<1>4. Copy'
  BY <1>1 DEF Copy
<1>5. IfMatch' = IfMatch
  BY <1>1 DEF IfMatch
<1>6. Sent' /\ Refused'
  BY <1>2, <1>5 DEF Sent, FirstUpdateCommits, Succeeded, Refused
<1>7. Cleared'
  BY <1>1, <1>2 DEF Cleared, Clearing, Succeeded
<1> QED BY <1>3, <1>4, <1>6, <1>7

-----------------------------------------------------------------------------
(* The service and the other writers. *)

(* A later version of the resource is one the entity is no copy of, and     *)
(* that an ETag of the entity does not name.                                *)
LEMMA NewVersion ==
    ASSUME TypeOK, Copy, Room, resource'.tag = resource.tag + 1
    PROVE  /\ resource'.tag \in ResourceTags
           /\ entity.etag # resource'.tag
           /\ entity.etag \in ResourceTags => entity.etag <= resource'.tag
<1>1. resource.tag \in ResourceTags /\ entity.etag \in Tags
  BY DEF TypeOK
<1>2. resource'.tag \in ResourceTags
  BY <1>1, TagFacts DEF Room, ResourceTags
<1>3. resource.tag \in Nat /\ ResourceTags \subseteq Nat
  BY <1>1, TagFacts
<1>4. resource.tag < resource'.tag /\ resource'.tag \in Nat
  BY <1>3
<1>5. entity.etag \in ResourceTags => entity.etag \in Nat /\ entity.etag <= resource.tag
  BY <1>3 DEF Copy
<1>6. entity.etag \in ResourceTags => entity.etag <= resource'.tag /\ entity.etag # resource'.tag
  BY <1>3, <1>4, <1>5
<1> QED BY <1>2, <1>6

LEMMA ServicePatchKeeps == EntityInv /\ ServicePatch => EntityInv'
<1> SUFFICES ASSUME EntityInv, ServicePatch PROVE EntityInv'
  OBVIOUS
<1> USE DEF EntityInv
<1>1. /\ UNCHANGED <<entries, service, entity, alone, updates, clears, quiet>>
      /\ op.kind = "patch" /\ updates # 0
  BY DEF ServicePatch, history, Sent
<1>2. UNCHANGED <<IfMatch, Changed>> /\ Payload(Changed)' = Payload(Changed)
  BY <1>1 DEF IfMatch, Changed, Payload
<1>3. PICK told \in BOOLEAN : op' = [op EXCEPT !.kind = "patched", !.ok = told]
  BY DEF ServicePatch
<1>4. /\ op'.kind = "patched" /\ op'.ok = told /\ op'.what = "none"
      /\ op'.payload = op.payload /\ op'.ifMatch = op.ifMatch /\ op'.etag = op.etag
  BY <1>1, <1>3 DEF TypeOK, Sent
<1>5. op' \in [kind : {"idle", "done", "patch", "patched", "plain", "list", "etag", "action"},
               what : {"none", "Update", "ClearLog"}, ok : BOOLEAN,
               payload : Payloads \cup {NoPayload}, ifMatch : Tags, etag : Tags]
  BY <1>3 DEF TypeOK
<1>6. Refused'
  BY <1>4 DEF Refused
<1>7. Cleared'
  BY <1>1, <1>4 DEF Cleared, Clearing, Succeeded
<1>8. Changed \subseteq allowedUpdates /\ op.payload = Payload(Changed)
  BY <1>1 DEF Sent
<1>9. CASE /\ Matches /\ Room
           /\ resource' = [fields |-> [f \in Fields |-> IF f \in DOMAIN op.payload THEN op.payload[f]
                                                        ELSE resource.fields[f]],
                           tag |-> resource.tag + 1]
  <2>1. resource'.tag = resource.tag + 1
    BY <1>9
  <2>2. \A f \in Fields : (IF f \in DOMAIN op.payload THEN op.payload[f] ELSE resource.fields[f]) \in Values
    BY <1>8 DEF TypeOK, Contents, Payload
  <2>3. resource' \in [fields : Contents, tag : ResourceTags]
    BY <1>9, <2>1, <2>2, NewVersion DEF Contents
  <2>4. TypeOK'
    BY <1>1, <1>5, <2>3 DEF TypeOK
  <2>5. Copy'
    BY <1>1, <1>9, <2>1, NewVersion DEF Copy
  <2>6. alone /\ updates = 1 => resource'.fields = entity.fields
    <3> SUFFICES ASSUME alone, updates = 1 PROVE resource'.fields = entity.fields
      OBVIOUS
    <3>1. resource.fields = entity.rawData
      BY <1>1 DEF Sent
    <3> QED BY <1>8, <1>9, <3>1, PatchMakesEdits
  <2>7. Sent'
    BY <1>1, <1>2, <1>4, <1>8, <2>6 DEF Sent, FirstUpdateCommits, Succeeded
  <2> QED BY <1>6, <1>7, <2>4, <2>5, <2>7
<1>10. CASE op' = [op EXCEPT !.kind = "patched", !.ok = FALSE] /\ UNCHANGED resource
  <2>1. op'.ok = FALSE
    BY <1>10 DEF TypeOK
  <2>2. TypeOK'
    BY <1>1, <1>5, <1>10 DEF TypeOK
  <2>3. Copy'
    BY <1>1, <1>10 DEF Copy
  <2>4. Sent'
    BY <1>1, <1>2, <1>4, <1>8, <2>1 DEF Sent, FirstUpdateCommits, Succeeded
  <2> QED BY <1>6, <1>7, <2>2, <2>3, <2>4
<1> QED BY <1>9, <1>10 DEF ServicePatch

LEMMA OtherWriterKeeps ==
    ASSUME NEW f \in Fields, NEW v \in Values PROVE EntityInv /\ OtherWriter(f, v) => EntityInv'
<1> SUFFICES ASSUME EntityInv, OtherWriter(f, v) PROVE EntityInv'
  OBVIOUS
<1> USE DEF EntityInv
<1>1. UNCHANGED <<entries, service, entity, op, updates, clears, quiet>> /\ alone' = FALSE
  BY DEF OtherWriter
<1>2. UNCHANGED <<IfMatch, Changed>> /\ Payload(Changed)' = Payload(Changed)
  BY <1>1 DEF IfMatch, Changed, Payload
<1>3. Room /\ resource'.tag = resource.tag + 1
  BY DEF OtherWriter
<1>4. resource' \in [fields : Contents, tag : ResourceTags]
  <2>1. resource'.fields \in Contents
    BY DEF OtherWriter, TypeOK, Contents
  <2> QED BY <1>3, <2>1, NewVersion DEF OtherWriter
<1>5. TypeOK'
  BY <1>1, <1>4 DEF TypeOK
<1>6. Copy'
  BY <1>1, <1>3, NewVersion DEF Copy
<1>7. Sent'
  BY <1>1, <1>2 DEF Sent, FirstUpdateCommits, Succeeded
<1>8. Current' => Current
  BY <1>1, <1>2, <1>3, NewVersion DEF Current, IfMatch
<1>9. Refused'
  BY <1>1, <1>8 DEF Refused
<1>10. Cleared'
  BY <1>1 DEF Cleared, Succeeded
<1> QED BY <1>5, <1>6, <1>7, <1>9, <1>10

LEMMA LogGrowsKeeps == EntityInv /\ LogGrows => EntityInv'
<1> SUFFICES ASSUME EntityInv, LogGrows PROVE EntityInv'
  OBVIOUS
<1> USE DEF EntityInv
<1>1. /\ UNCHANGED <<resource, service, entity, op, alone, updates, clears>>
      /\ entries' = entries + 1 /\ quiet' = FALSE /\ EntriesRoom
  BY DEF LogGrows
<1>2. UNCHANGED <<IfMatch, Changed>> /\ Payload(Changed)' = Payload(Changed)
  BY <1>1 DEF IfMatch, Changed, Payload
<1>3. entries' \in EntriesTags
  BY <1>1, TagFacts DEF TypeOK, EntriesTags, EntriesRoom
<1>4. TypeOK'
  BY <1>1, <1>3 DEF TypeOK
<1>5. Copy' /\ Sent'
  BY <1>1, <1>2 DEF Copy, Sent, FirstUpdateCommits, Succeeded
<1>6. Refused' /\ Cleared'
  BY <1>1 DEF Refused, Cleared, Succeeded
<1> QED BY <1>4, <1>5, <1>6
-----------------------------------------------------------------------------
(* The attempts of ClearLog. *)

LEMMA FailedSteps ==
    ASSUME NEW form \in Forms, Failed(form)
    PROVE  \/ /\ form = "plain"
              /\ op' = [kind |-> "list", what |-> "none", ok |-> TRUE, payload |-> NoPayload,
                        ifMatch |-> None, etag |-> None]
           \/ /\ form = "etag"
              /\ op' = [kind |-> "action", what |-> "none", ok |-> TRUE, payload |-> NoPayload,
                        ifMatch |-> IfMatch, etag |-> None]
           \/ /\ form = "action"
              /\ op' = [kind |-> "done", what |-> "ClearLog", ok |-> FALSE, payload |-> NoPayload,
                        ifMatch |-> None, etag |-> None]
<1>1. CASE form = "plain"
  BY <1>1 DEF Failed, Idle
<1>2. CASE form = "etag"
  BY <1>2 DEF Failed, Post, Idle
<1>3. CASE form = "action"
  BY <1>3 DEF Failed, Done, Idle
<1> QED BY <1>1, <1>2, <1>3 DEF Forms

(* On a reliable service and an undisturbed log, a form that was refused    *)
(* although the program has the right ETag is one the service never takes.  *)
LEMMA RefusedForGood ==
    ASSUME EntityInv, NEW form \in Forms, op.kind = form, ~Takes(form), quiet, Current
    PROVE  form \notin service.accepts
<1>1. Matches
  BY DEF EntityInv, Sent, Forms, Current, Matches
<1>2. form = "etag" => op.etag = entries
  BY DEF EntityInv, Refused
<1> QED BY <1>1, <1>2 DEF Takes

LEMMA FailedKeeps ==
    ASSUME EntityInv, NEW form \in Forms, op.kind = form, Failed(form),
           UNCHANGED <<resource, service, entity, alone, updates, quiet>>,
           entries' \in EntriesTags, clears' \in {clears, clears + 1},
           service.reliable => clears' = clears /\ ~Takes(form)
    PROVE  EntityInv'
<1> USE DEF EntityInv
<1>1. clears' \in 0..3 /\ clears' <= clears + 1
  BY DEF TypeOK, Cleared, Forms
<1>2. Copy'
  BY DEF Copy
<1>3. IfMatch' = IfMatch /\ Current' = Current
  BY DEF IfMatch, Current
<1>4. service.reliable => clears' = 0
  BY DEF TypeOK, Cleared, Clearing, Forms
<1>5. service.reliable /\ quiet /\ Current => form \notin service.accepts
  BY RefusedForGood
<1>6. CASE /\ form = "plain"
           /\ op' = [kind |-> "list", what |-> "none", ok |-> TRUE, payload |-> NoPayload,
                     ifMatch |-> None, etag |-> None]
  <2>1. TypeOK'
    BY <1>1, <1>6, TagFacts DEF TypeOK
  <2>2. Sent'
    BY <1>6 DEF Sent, FirstUpdateCommits, Succeeded
  <2>3. Cleared'
    BY <1>1, <1>4, <1>6 DEF TypeOK, Cleared, Clearing, Succeeded
  <2>4. Refused'
    BY <1>3, <1>5, <1>6 DEF Refused
  <2> QED BY <1>2, <2>1, <2>2, <2>3, <2>4
<1>7. CASE /\ form = "etag"
           /\ op' = [kind |-> "action", what |-> "none", ok |-> TRUE, payload |-> NoPayload,
                     ifMatch |-> IfMatch, etag |-> None]
  <2>1. TypeOK'
    BY <1>1, <1>7, TagFacts, IfMatchType DEF TypeOK
  <2>2. Sent'
    BY <1>3, <1>7 DEF Sent, FirstUpdateCommits, Succeeded
  <2>3. Cleared'
    BY <1>1, <1>4, <1>7 DEF TypeOK, Cleared, Clearing, Succeeded
  <2>4. Refused'
    BY <1>3, <1>5, <1>7 DEF Refused
  <2> QED BY <1>2, <2>1, <2>2, <2>3, <2>4
<1>8. CASE /\ form = "action"
           /\ op' = [kind |-> "done", what |-> "ClearLog", ok |-> FALSE, payload |-> NoPayload,
                     ifMatch |-> None, etag |-> None]
  <2>1. TypeOK'
    BY <1>1, <1>8, TagFacts DEF TypeOK
  <2>2. Sent'
    BY <1>8 DEF Sent, FirstUpdateCommits, Succeeded
  <2>3. Cleared'
    BY <1>1, <1>4, <1>8 DEF TypeOK, Cleared, Clearing, Succeeded
  <2>4. service.accepts \subseteq Forms
    BY DEF TypeOK, Services
  <2>5. service.reliable /\ quiet /\ Current => service.accepts = {}
    BY <1>5, <1>8, <2>4 DEF Refused, Forms
  <2>6. Refused'
    BY <1>3, <1>8, <2>5 DEF Refused
  <2> QED BY <1>2, <2>1, <2>2, <2>3, <2>6
<1> QED BY <1>6, <1>7, <1>8, FailedSteps

LEMMA AttemptKeeps == ASSUME NEW form \in Forms PROVE EntityInv /\ Attempt(form) => EntityInv'
<1> SUFFICES ASSUME EntityInv, Attempt(form) PROVE EntityInv'
  OBVIOUS
<1> USE DEF EntityInv
<1>1. UNCHANGED <<resource, service, entity, alone, updates, quiet>> /\ op.kind = form
  BY DEF Attempt
<1>2. CASE Takes(form) /\ EntriesRoom /\ entries' = entries + 1 /\ clears' = clears + 1
  <2>1. entries' \in EntriesTags
    BY <1>2, TagFacts DEF TypeOK, EntriesTags, EntriesRoom
  <2>2. CASE Done("ClearLog", TRUE)
    <3>1. op' = [kind |-> "done", what |-> "ClearLog", ok |-> TRUE, payload |-> NoPayload,
                 ifMatch |-> None, etag |-> None]
      BY <2>2 DEF Done, Idle
    <3>2. clears' \in 1..3 /\ (service.reliable => clears' <= 1)
      BY <1>1, <1>2 DEF TypeOK, Cleared, Clearing, Forms
    <3>3. TypeOK'
      BY <1>1, <2>1, <3>1, <3>2, TagFacts DEF TypeOK
    <3>4. Copy'
      BY <1>1 DEF Copy
    <3>5. Sent' /\ Refused'
      BY <3>1 DEF Sent, FirstUpdateCommits, Succeeded, Refused
    <3>6. Cleared'
      BY <1>1, <3>1, <3>2 DEF Cleared, Clearing, Succeeded
    <3> QED BY <3>3, <3>4, <3>5, <3>6
  <2>3. CASE ~service.reliable /\ Failed(form)
    BY <1>1, <1>2, <2>1, <2>3, FailedKeeps
  <2> QED BY <1>2, <2>2, <2>3 DEF Attempt
<1>3. CASE (~Takes(form) \/ ~service.reliable) /\ Failed(form) /\ UNCHANGED <<entries, clears>>
  <2>1. entries' \in EntriesTags /\ clears' = clears
    BY <1>3 DEF TypeOK
  <2>2. service.reliable => ~Takes(form)
    BY <1>3
  <2> QED BY <1>1, <1>3, <2>1, <2>2, FailedKeeps
<1> QED BY <1>2, <1>3 DEF Attempt

(* Reading the Entries may give the entity a tag of theirs, which is none   *)
(* of the resource, and changes nothing for an entity with one of its own.  *)
LEMMA ListEntriesKeeps == EntityInv /\ ListEntries => EntityInv'
<1> SUFFICES ASSUME EntityInv, ListEntries PROVE EntityInv'
  OBVIOUS
<1> USE DEF EntityInv
<1>1. UNCHANGED <<resource, entries, service, alone, updates, clears, quiet>> /\ op.kind = "list"
  BY DEF ListEntries, history
<1>2. CASE UNCHANGED entity /\ Post("action") /\ ~service.reliable
  <2>1. op' = [kind |-> "action", what |-> "none", ok |-> TRUE, payload |-> NoPayload,
               ifMatch |-> IfMatch, etag |-> None]
    BY <1>2 DEF Post, Idle
  <2>2. TypeOK'
    BY <1>1, <1>2, <2>1, TagFacts, IfMatchType DEF TypeOK
  <2>3. IfMatch' = IfMatch
    BY <1>2 DEF IfMatch
  <2>4. Copy'
    BY <1>1, <1>2 DEF Copy
  <2>5. Sent' /\ Refused'
    BY <1>1, <1>2, <2>1, <2>3 DEF Sent, FirstUpdateCommits, Succeeded, Refused
  <2>6. Cleared'
    BY <1>1, <1>2, <2>1 DEF TypeOK, Cleared, Clearing, Succeeded
  <2> QED BY <2>2, <2>4, <2>5, <2>6
<1>3. CASE /\ entity' = [entity EXCEPT !.etag = IF @ = None /\ service.entriesTagged THEN entries ELSE @]
           /\ op' = [Idle EXCEPT !.kind = "etag", !.etag = entries,
                                 !.ifMatch = IF entity.disableEtagMatch THEN None ELSE entity'.etag]
  <2>1. /\ entity' \in [rawData : Contents, fields : Contents, etag : Tags, disableEtagMatch : BOOLEAN]
        /\ entity'.rawData = entity.rawData /\ entity'.fields = entity.fields
        /\ entity'.disableEtagMatch = entity.disableEtagMatch
        /\ entity'.etag = entity.etag \/ (entity.etag = None /\ entity'.etag = entries)
    <3>1. entries \in Tags
      BY TagFacts DEF TypeOK
    <3> QED BY <1>3, <3>1 DEF TypeOK
  <2>2. op' = [kind |-> "etag", what |-> "none", ok |-> TRUE, payload |-> NoPayload,
               ifMatch |-> IfMatch', etag |-> entries]
    BY <1>3, <2>1 DEF Idle, IfMatch
  <2>3. IfMatch' \in Tags
    BY <2>1, TagFacts DEF IfMatch
  <2>4. TypeOK'
    BY <1>1, <2>1, <2>2, <2>3, TagFacts DEF TypeOK
  <2>5. Copy'
    BY <1>1, <2>1, TagFacts DEF TypeOK, Copy
  <2>6. Sent'
    BY <2>2 DEF Sent, FirstUpdateCommits, Succeeded
  <2>7. Cleared'
    BY <1>1, <2>2 DEF Cleared, Clearing, Succeeded
  <2>8. Current' => Current
    BY <1>1, <2>1, TagFacts DEF TypeOK, Current, IfMatch
  <2>9. Refused'
    BY <1>1, <2>2, <2>8 DEF Refused
  <2> QED BY <2>4, <2>5, <2>6, <2>7, <2>9
<1> QED BY <1>2, <1>3 DEF ListEntries

LEMMA NextKeepsEntity == EntityInv /\ [Next]_vars => EntityInv'
<1>1. EntityInv /\ UNCHANGED vars => EntityInv'
  BY DEF vars, history, EntityInv, TypeOK, Copy, Sent, FirstUpdateCommits, Changed, Payload, IfMatch,
         Cleared, Clearing, Succeeded, Refused, Current
<1> QED BY <1>1, GetObjectKeeps, EditKeeps, UpdateKeeps, PatchReturnsKeeps, ClearLogKeeps, ServicePatchKeeps,
           OtherWriterKeeps, LogGrowsKeeps, AttemptKeeps, ListEntriesKeeps DEF Next

LEMMA EntityInvariant == Spec => []EntityInv
BY InitEntity, NextKeepsEntity, PTL DEF Spec

-----------------------------------------------------------------------------
(* The entity, the resource and the operation have their types. *)
THEOREM TypeCorrect == Spec => []TypeOK
<1>1. EntityInv => TypeOK
  BY DEF EntityInv
<1> QED BY <1>1, EntityInvariant, PTL

(* The first Update after a read that reports success has made the resource *)
(* what the program asked for, unless others wrote as well.                 *)
THEOREM FirstUpdatesCommit == Spec => []FirstUpdateCommits
<1>1. EntityInv => FirstUpdateCommits
  BY DEF EntityInv, Sent
<1> QED BY <1>1, EntityInvariant, PTL

(* A ClearLog that reports success has cleared the log, once if nothing was *)
(* lost, and one that fails on a reliable service and an undisturbed log    *)
(* had no attempt the service takes.                                        *)
THEOREM LogsAreCleared == Spec => []ClearLogClears
<1>1. EntityInv => ClearLogClears
  <2> SUFFICES ASSUME EntityInv PROVE ClearLogClears
    OBVIOUS
  <2>1. service.reliable => clears <= 1
    BY DEF EntityInv, TypeOK, Cleared
  <2>2. Succeeded("ClearLog") => clears > 0
    BY DEF EntityInv, Cleared
  <2>3. (op.kind = "done" /\ op.what = "ClearLog" /\ service.reliable /\ quiet
          /\ service.accepts # {} /\ IfMatch \in {None, resource.tag}) => op.ok
    BY DEF EntityInv, Refused, Current
  <2> QED BY <2>1, <2>2, <2>3 DEF ClearLogClears
<1> QED BY <1>1, EntityInvariant, PTL

(* An Update never undoes what someone else wrote: it writes only fields    *)
(* the program changed, and under an ETag only onto the version it read.    *)
THEOREM NoUpdateIsLost == Spec => NoLostUpdate
<1>1. EntityInv /\ [Next]_vars =>
        [Applied => /\ op.ifMatch # None => resource.fields = entity.rawData
                    /\ \A f \in Fields : resource'.fields[f] # resource.fields[f]
                                         => entity.fields[f] # entity.rawData[f]]_vars
  <2> SUFFICES ASSUME EntityInv, Next, Applied
               PROVE  /\ op.ifMatch # None => resource.fields = entity.rawData
                      /\ \A f \in Fields : resource'.fields[f] # resource.fields[f]
                                           => entity.fields[f] # entity.rawData[f]
    OBVIOUS
  <2>1. ServicePatch
    BY DEF Applied, Next, Resting, GetObject, Update, PatchReturns, ClearLog, ListEntries, LogGrows, Forms,
           Attempt, Edit, OtherWriter
  <2>2. Matches /\ resource' = [fields |-> [f \in Fields |-> IF f \in DOMAIN op.payload THEN op.payload[f]
                                                             ELSE resource.fields[f]],
                               tag |-> resource.tag + 1]
    BY <2>1 DEF Applied, ServicePatch
  <2>3. op.ifMatch = IfMatch /\ op.payload = Payload(Changed)
    BY DEF Applied, EntityInv, Sent
  <2>4. op.ifMatch # None => resource.fields = entity.rawData
    BY <2>2, <2>3 DEF Matches, IfMatch, EntityInv, Copy
  <2>5. \A f \in Fields : resource'.fields[f] # resource.fields[f] => f \in Changed
    BY <2>2, <2>3 DEF Payload
  <2> QED BY <2>4, <2>5 DEF Changed
<1> QED BY <1>1, EntityInvariant, PTL DEF Spec, NoLostUpdate
=============================================================================
