------------------------- MODULE CapabilityCatalog -------------------------
(***************************************************************************)
(* The platform capability catalogue as the application reads it: records  *)
(* of the database, the fixed bindings of dispatch keys to use case types, *)
(* the permission test and the check of a request's inputs against the     *)
(* schema of a record.  Descriptions, output schemas and retrieval texts   *)
(* are left out; the checks on them are the single field sound.            *)
(***************************************************************************)
EXTENDS FiniteSets

CONSTANTS
  Codes,          \* capability codes
  Keys,           \* dispatch keys a record may carry, bound or not
  Permissions,
  Fields,         \* names of input fields
  Binding,        \* bound dispatch keys -> capability type
  Handlers,       \* keys ControlledDispatcher can execute
  AgentHandlers   \* keys AgentRuntime can execute

CapabilityType == {"agent", "chat", "knowledge_qa", "policy_decision"}

ConfirmationPolicy == {"always", "conditional", "never"}

(* Values of an input field: empty text, text, a number, the opaque id of  *)
(* an attachment (a text too) and the attachment once it was read.         *)
Values == {"blank", "text", "number", "id", "resolved"}

(* An x-attachment declaration exists only for a field of type string.     *)
DeclaresSoundly(cap) ==
  /\ cap.required \subseteq cap.declared
  /\ cap.document \subseteq cap.declared
  /\ \A f \in cap.document : cap.fieldType[f] = "string"

Capability ==
  [type : CapabilityType, key : Keys, policy : ConfirmationPolicy,
   needs : SUBSET Permissions, enabled : BOOLEAN, sound : BOOLEAN,
   open : BOOLEAN,
   declared : SUBSET Fields, required : SUBSET Fields,
   document : SUBSET Fields, fieldType : [Fields -> {"string", "integer"}]]

(* validate_capability: what __post_init__ demands of every record.        *)
ValidateCapability(cap) == cap.sound /\ DeclaresSoundly(cap)

(* CapabilityDispatchRegistry.validate.                                    *)
Validate(cap) ==
  /\ ValidateCapability(cap)
  /\ cap.key \in DOMAIN Binding
  /\ Binding[cap.key] = cap.type

(* The first SELECT of a read: one record that does not validate makes     *)
(* every read of the catalogue raise.                                      *)
ValidateRegistered(catalog) == \A c \in Codes : Validate(catalog[c])

IsAllowed(cap, permissions) == cap.needs \subseteq permissions

(* The second SELECT, of one code or of all: the rows it returns are made  *)
(* into capabilities, which checks each alone and not its key's binding.   *)
Malformed(catalog, code) ==
  catalog[code].enabled /\ ~ValidateCapability(catalog[code])

GetAvailable(catalog, code, permissions) ==
  catalog[code].enabled /\ IsAllowed(catalog[code], permissions)

ListAvailable(catalog, permissions) ==
  {c \in Codes : GetAvailable(catalog, c, permissions)}

MatchesSchemaType(value, type) ==
  CASE type = "string"  -> value \in {"blank", "text", "id"}
    [] type = "integer" -> value = "number"

IsMissing(value) == value = "blank"

(* validate_capability_inputs: no unknown field unless additional ones are *)
(* allowed, every declared one of its type (or an attachment that was      *)
(* resolved), no required one missing.                                     *)
ValidInputs(cap, inputs) ==
  /\ cap.open \/ DOMAIN inputs \subseteq cap.declared
  /\ \A f \in DOMAIN inputs \cap cap.declared :
       \/ f \in cap.document /\ inputs[f] = "resolved"
       \/ MatchesSchemaType(inputs[f], cap.fieldType[f])
  /\ \A f \in cap.required : f \in DOMAIN inputs /\ ~IsMissing(inputs[f])

(* CapabilityAttachmentResolver: the ids of the declared fields that are   *)
(* present, each replaced by the content that was read.                    *)
DocumentFields(cap, inputs) == cap.document \cap DOMAIN inputs

IdsAreOpaque(cap, inputs) ==
  \A f \in DocumentFields(cap, inputs) : inputs[f] = "id"

Resolved(cap, inputs) ==
  [f \in DOMAIN inputs |->
     IF f \in cap.document THEN "resolved" ELSE inputs[f]]
=============================================================================
