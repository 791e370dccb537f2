--------------------------- MODULE FreshTagWrites ---------------------------
(***************************************************************************)
(* UpdateBiosAttributesApplyAt, UpdateBootAttributesApplyAt and             *)
(* CreateAccount: a GET of the object that is about to be written, for its  *)
(* ETag, and the write under that ETag.  The attributes that are sent were  *)
(* chosen before by a comparison with what the application once read, and   *)
(* a settings object holds what will be in force after the next restart.    *)
(***************************************************************************)
EXTENDS ServiceCall

CONSTANTS
    Attributes,   \* the attributes of a settings object
    Ordered,      \* those whose name begins with BootTypeOrder
    Values,       \* the values of attributes
    MaxForeign    \* bound on the writes of other clients

ASSUME ForeignAssumption == MaxForeign \in Nat

VARIABLES
    tags,      \* the service has ETags
    matching,  \* the client has not disabled their use
    pending,   \* the attributes in the settings object
    raw,       \* the attributes in force, as the application has read them
    want,      \* the attributes it asks for
    version,   \* the version of the object that is written
    tag,       \* the version this attempt fetched, 0 without an ETag
    foreign,   \* how often another client has written the object
    unseen     \* what another client changed there since this attempt's GET

writes == <<tags, matching, pending, raw, want, version, tag, foreign, unseen>>

Settings == {"bios", "boot"}

WritesInit ==
    /\ tags \in BOOLEAN /\ matching \in BOOLEAN
    /\ pending \in [Attributes -> Values]
    /\ raw \in [Attributes -> Values]
    /\ want \in UNION {[asked -> Values] : asked \in (SUBSET Attributes) \ {{}}}
    /\ version = 1 /\ tag = 0 /\ foreign = 0 /\ unseen = {}

(* Deviation: the ordered attributes are compared like the others. *)
Payload_NoOrder == {a \in DOMAIN want : op = "boot" \/ raw[a] # want[a]}

(* What differs from the raw data.  That of a ComputerSystem has no          *)
(* Attributes of a Bios, so all of them do.                                  *)
Payload == {a \in DOMAIN want : a \in Ordered \/ op = "boot" \/ raw[a] # want[a]}

(* CreateAccount reads the collection only for the sake of its ETag. *)
FirstStep == IF op \in Settings \/ (op = "account" /\ matching) THEN "get" ELSE "send"

GetTag ==
    /\ opc = "get"
    /\ \/ /\ ctx = "live"
          /\ tag' = IF tags THEN version ELSE 0
          /\ unseen' = {}
          /\ opc' = "send" /\ UNCHANGED res
       \/ (\E e \in Failures : Finish(e)) /\ UNCHANGED <<tag, unseen>>
    /\ NoEffect
    /\ UNCHANGED <<tags, matching, pending, raw, want, version, foreign>>

(* Nothing differs, so nothing is sent. *)
NothingToSend ==
    /\ opc = "send" /\ op \in Settings /\ Payload = {}
    /\ Finish("nil")
    /\ NoEffect
    /\ UNCHANGED writes

(* The service compares the ETag in If-Match with the object's. *)
Matches == tag \in {0, version}

(* Deviation: the settings are written without the ETag. *)
WriteSettings_NoIfMatch ==
    /\ opc = "send" /\ op \in Settings /\ Payload # {}
    /\ \/ /\ \E reply \in {"ok", "lost"} : Effect(reply, "nil")
          /\ pending' = [a \in Attributes |-> IF a \in Payload THEN want[a] ELSE pending[a]]
          /\ version' = version + 1
       \/ NotTaken /\ UNCHANGED <<pending, version>>
    /\ UNCHANGED <<tags, matching, raw, want, tag, foreign, unseen>>

WriteSettings ==
    /\ opc = "send" /\ op \in Settings /\ Payload # {}
    /\ \/ /\ Matches
          /\ \E reply \in {"ok", "lost"} : Effect(reply, "nil")
          /\ pending' = [a \in Attributes |-> IF a \in Payload THEN want[a] ELSE pending[a]]
          /\ version' = version + 1
       \/ NotTaken /\ UNCHANGED <<pending, version>>
    /\ UNCHANGED <<tags, matching, raw, want, tag, foreign, unseen>>

(* The account that comes back may not decode. *)
CreateAccount ==
    /\ opc = "send" /\ op = "account"
    /\ \/ /\ Matches
          /\ \E reply \in {"ok", "lost", "unusable"} : Effect(reply, "final")
          /\ version' = version + 1
       \/ NotTaken /\ UNCHANGED version
    /\ UNCHANGED <<tags, matching, pending, raw, want, tag, foreign, unseen>>

Writing == GetTag \/ NothingToSend \/ WriteSettings \/ CreateAccount

-----------------------------------------------------------------------------
(* Another client writes the object: an attribute, or an account. *)
OtherWriter ==
    /\ foreign < MaxForeign
    /\ \E a \in Attributes, v \in Values :
        /\ pending' = IF op \in Settings THEN [pending EXCEPT ![a] = v] ELSE pending
        /\ unseen' = unseen \cup {a}
    /\ version' = version + 1 /\ foreign' = foreign + 1
    /\ UNCHANGED <<tags, matching, raw, want, tag>>
=============================================================================
