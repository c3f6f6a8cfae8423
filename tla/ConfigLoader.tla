---------------------------- MODULE ConfigLoader ----------------------------
(***************************************************************************)
(* Configuration files (config.py): from a file to a configuration and     *)
(* back.  Pure operators, no state.                                        *)
(*                                                                         *)
(*   file    [exists, suffix, parses, data]                                *)
(*   data    a document: a mapping from keys to what is written there      *)
(*   leaf    [type, value]: the value of a field with the Python type that *)
(*           validation gave it                                            *)
(*   config  [fields, acl]: leaves by field name, acl NoValue for None     *)
(*                                                                         *)
(* A pydantic model is a table of its fields.  The fields kept are those   *)
(* the program steers by and one of each kind; one rule stands for the     *)
(* list of rules, its fields being those of the table.  Every exception a  *)
(* caller may see is Refused.                                              *)
(***************************************************************************)
EXTENDS Integers, Sequences, TLC

CONSTANTS
  NoValue,   \* None: an absent option, and the document of an empty file
  Missing,   \* the default of a field that has none
  Scalar,    \* a value that is not a mapping where one is expected
  Refused,   \* an exception instead of a result
  Addresses, \* the texts IPv4Address() takes
  Networks   \* the texts IPv4Network() takes

RuleActions == {"allow", "deny", "log", "allow_log"}

MessageTypes ==
  { "original_unicast", "original_broadcast", "forwarded_npdu", "distribute_broadcast",
    "register_foreign_device", "read_bdt", "write_bdt", "read_fdt", "delete_fdt_entry",
    "who_is", "i_am", "read_property", "write_property", "all" }

Types == {"plain", "path", "network", "enum"}

Field(type, accepts, default) == [type |-> type, accepts |-> accepts, default |-> default]

RuleFields ==
  [ rule_action         |-> Field("enum", RuleActions \cup {NoValue}, NoValue),
    rule_source_network |-> Field("network", Networks \cup {NoValue}, NoValue),
    rule_message_types  |-> Field("enum", SUBSET MessageTypes, {"all"}) ]

AclFields ==
  [ rule_action          |-> RuleFields.rule_action,
    rule_source_network  |-> RuleFields.rule_source_network,
    rule_message_types   |-> RuleFields.rule_message_types,
    default_action       |-> Field("enum", RuleActions, "deny"),
    cut_through_networks |-> Field("network", SUBSET Networks, {}) ]

DeviceInstances == {n \in Nat : n <= 4194303}

DefaultLogFormat == "%(asctime)s - %(name)s - %(levelname)s - %(message)s"

\* Two of the fields have validators of their own, for addresses.
BBMDFields ==
  [ bbmd_address      |-> Field("plain", Addresses, Missing),
    bdt_entries       |-> Field("plain", Seq(Addresses), <<>>),
    device_instance   |-> Field("plain", DeviceInstances, 999),
    device_name       |-> Field("plain", STRING, "ACE-ACL-BBMD"),
    vendor_identifier |-> Field("plain", Int, 999),
    enable_metrics    |-> Field("plain", BOOLEAN, TRUE),
    metrics_interval  |-> Field("plain", {n \in Nat : n >= 10}, 60),
    log_format        |-> Field("plain", STRING, DefaultLogFormat),
    log_file          |-> Field("path", STRING \cup {NoValue}, NoValue) ]

\* What the fields of a table may hold; the documents and the objects made of it.
Held(fields) == UNION {fields[f].accepts : f \in DOMAIN fields}
DocumentsOf(fields) == [DOMAIN fields -> Held(fields)]
Objects(fields) == [DOMAIN fields -> [type : Types, value : Held(fields)]]

SavedDocuments ==
  [DOMAIN BBMDFields \cup {"acl"} -> Held(BBMDFields) \cup DocumentsOf(AclFields) \cup {NoValue}]
SavedFiles == [exists : BOOLEAN, suffix : {"yaml"}, parses : BOOLEAN, data : SavedDocuments]

\* Objects, and what was saved of them, are none of the special values.
ASSUME MappingsAreNotNull ==
  \A null \in {NoValue, Scalar, Refused} :
    /\ \A fields \in {AclFields, BBMDFields} : null \notin DocumentsOf(fields) \cup Objects(fields)
    /\ null \notin SavedDocuments \cup SavedFiles

ASSUME NullsAreDistinct == NoValue # Scalar /\ NoValue # Refused /\ Scalar # Refused

\* What the default configuration has for its address and its texts is accepted.
ASSUME DefaultsAreAccepted ==
  /\ "0.0.0.0:47808" \in Addresses
  /\ "ACE-ACL-BBMD" \in STRING /\ DefaultLogFormat \in STRING

-----------------------------------------------------------------------------
(* Loading.                                                                *)

IsMapping(data) == data \notin {NoValue, Scalar, Refused}

\* _load_yaml or _load_toml, by the suffix.
ReadDocument(f) ==
  IF f.exists /\ f.suffix \in {"yaml", "toml"} /\ f.parses THEN f.data ELSE Refused

At(doc, key, default) == IF key \in DOMAIN doc THEN doc[key] ELSE default

\* Mutant: without populate_by_name, a field with an alias has lost its name.
InputByAlias(fields, doc, f) ==
  IF f = "device_instance" THEN At(doc, "device_id", fields[f].default)
  ELSE At(doc, f, fields[f].default)

\* What the document gives for a field: by alias, by name, or the default.
Input(fields, doc, f) ==
  IF f = "device_instance" /\ "device_id" \in DOMAIN doc THEN doc["device_id"]
  ELSE At(doc, f, fields[f].default)

\* The model as an object, or a ValidationError.  Keys no field has are ignored.
Validate(fields, doc) ==
  IF \A f \in DOMAIN fields : Input(fields, doc, f) \in fields[f].accepts
  THEN [f \in DOMAIN fields |-> [type |-> fields[f].type, value |-> Input(fields, doc, f)]]
  ELSE Refused

\* A document that is no mapping raises a TypeError.
LoadAclConfig(f) ==
  LET doc == ReadDocument(f)
  IN  IF IsMapping(doc) THEN Validate(AclFields, doc) ELSE Refused

\* A nested list is validated first; "acl: null" is no list.
NestedAcl(doc) ==
  LET acl == At(doc, "acl", NoValue)
  IN  IF acl = NoValue THEN NoValue
      ELSE IF IsMapping(acl) THEN Validate(AclFields, acl) ELSE Refused

LoadConfig(f) ==
  LET doc == ReadDocument(f)
  IN  IF ~IsMapping(doc) THEN Refused
      ELSE IF Refused \in {NestedAcl(doc), Validate(BBMDFields, doc)} THEN Refused
      ELSE [fields |-> Validate(BBMDFields, doc), acl |-> NestedAcl(doc)]

ValidateConfigFile(f) == LoadConfig(f) # Refused

CreateDefaultConfig ==
  [ fields |-> Validate(BBMDFields, [bbmd_address |-> "0.0.0.0:47808"]),
    acl    |-> Validate(AclFields, [default_action |-> "deny"]) ]

-----------------------------------------------------------------------------
(* Saving.                                                                 *)

Convert(leaf) ==
  IF leaf.type \in Types THEN [leaf EXCEPT !.type = "plain"] ELSE leaf

ConvertToSerializable(model) == [f \in DOMAIN model |-> Convert(model[f])]

\* yaml.safe_dump() writes plain values and raises on any other; a document
\* holds the fields by name, not by alias.
SafeDump(model) ==
  IF model = NoValue THEN NoValue
  ELSE IF \E f \in DOMAIN model : ConvertToSerializable(model)[f].type # "plain" THEN Refused
  ELSE [f \in DOMAIN model |-> model[f].value]

\* Only YAML can be written: _save_toml raises NotImplementedError.
SaveConfig(c, suffix) ==
  LET fields == SafeDump(c.fields)
      acl == SafeDump(c.acl)
  IN  IF suffix # "yaml" \/ Refused \in {fields, acl} THEN Refused
      ELSE [ exists |-> TRUE, suffix |-> "yaml", parses |-> TRUE,
             data |-> [f \in DOMAIN fields \cup {"acl"} |-> IF f = "acl" THEN acl ELSE fields[f]] ]

=============================================================================
