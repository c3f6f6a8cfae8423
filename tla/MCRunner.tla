------------------------------ MODULE MCRunner ------------------------------
(***************************************************************************)
(* Bounded inputs for Runner: lists that load, are cut short, are empty or *)
(* name an unknown message type, and configuration files with and without  *)
(* a list, a log file, metrics and peers, and with values that load and    *)
(* are refused later.                                                      *)
(***************************************************************************)
EXTENDS Runner

Yaml(data) == [exists |-> TRUE, suffix |-> "yaml", parses |-> TRUE, data |-> data]

MCPortAddresses == {"0.0.0.0:47808", "192.168.1.101:47808"}
MCAddresses == MCPortAddresses \cup {"an address the port refuses"}
\* Unsigned16; and of the addresses the loader takes the objects refuse one.
MCVendorIdentifiers == 0..65535
MCLogFormats == {DefaultLogFormat}

MCNetworks  == {"10.3.0.0/24"}

Permissive == [default_action |-> "allow"]

\* The rules of config/acl_rules.yaml:48-56, and the same with known types.
Monitoring ==
  [ rule_action |-> "allow", rule_source_network |-> "10.3.0.0/24",
    rule_message_types |-> {"read_property", "read_bdt", "read_fdt"} ]
Shipped == [Monitoring EXCEPT !.rule_message_types = @ \cup {"read_property_multiple"}]

\* load_acl_config() refuses all but the first two.
MCContents ==
  { Yaml(Permissive), Yaml(Monitoring), Yaml(Shipped), Yaml(NoValue),
    [Yaml(Monitoring) EXCEPT !.parses = FALSE] }
MCLoadable == {Yaml(Permissive), Yaml(Monitoring)}

Minimal == [bbmd_address |-> "0.0.0.0:47808"]

WrongName == Minimal @@ [acl |-> NoValue, device_name |-> "NetworkPort-1"]
Mistyped ==
  Minimal @@ [acls |-> Permissive, enable_metrics |-> FALSE, log_file |-> "logs/bbmd.log"]

Documents ==
  { Minimal, WrongName, Mistyped,
    Minimal @@ [acl |-> Monitoring, device_id |-> 7, bdt_entries |-> <<"192.168.1.101:47808">>],
    Minimal @@ [acl |-> Shipped],
    Minimal @@ [acl |-> Scalar],
    Minimal @@ [log_format |-> "no field"],
    Minimal @@ [vendor_identifier |-> 65536],
    Minimal @@ [vendor_identifier |-> -1],
    Minimal @@ [bdt_entries |-> <<"an address the port refuses">>],
    Minimal @@ [metrics_interval |-> 9, device_instance |-> 7],
    [acl |-> Permissive] }

\* Every document as it is, and with --acl or --validate where it matters.
MCArguments ==
  [config : {Yaml(d) : d \in Documents}, acl : {FALSE}, validate : {FALSE}]
  \cup
  [config : { Yaml(d) : d \in {Minimal, WrongName, Mistyped} }, acl : {TRUE}, validate : BOOLEAN]
  \cup
  [config : { Yaml(NoValue), [Yaml(Minimal) EXCEPT !.suffix = "ini"],
              [Yaml(Minimal) EXCEPT !.exists = FALSE] },
   acl : {FALSE}, validate : {TRUE}]

=============================================================================
