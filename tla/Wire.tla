------------------------------- MODULE Wire -------------------------------
(***************************************************************************)
(* The codecs of the durable container and of the control protocol.  A     *)
(* document is a sequence of units, each with its width and its value: the *)
(* fixed-width integers of ByteWriter, and texts with their length prefix. *)
(* Every structure has the list of the fields its writer puts out and the  *)
(* list its reader takes in; a field is a type and a name.  The readers    *)
(* also validate what they read.                                           *)
(***************************************************************************)
EXTENDS Configuration, TLC

CONSTANTS
  Absent,         \* an optional part that is not there
  MalformedIds,   \* texts no identifier parses from
  Digests,        \* the texts of 64 hexadecimal digits
  ListBound       \* stands for the bounds of every list

LifecycleStates == <<"Unconfigured", "Configured", "Active", "AdminDisabled", "Draining",
  "Maintenance", "RevalidationRequired", "Superseded", "Retired", "Conflicted">>
AdministrativeState == <<"Unknown", "Enabled", "Disabled", "Draining", "Maintenance",
  "RevalidationRequired">>
PortOwnerKind == <<"Unknown", "SwitchAgent", "HostAgent", "NetworkController",
  "AdministrativeControlPlane", "DelegatedSubsystem">>
AppliedOutcome == <<"NotAttempted", "Applied", "ApplyFailed", "OutcomeUnknown", "Verified",
  "Unsupported">>
DriftState == <<"Unknown", "InSync", "Drifted", "RevalidationRequired", "Conflicted">>
ProvenanceKind == <<"Unknown", "Operator", "NetworkController", "SwitchAgent", "HostAgent",
  "DelegatedSubsystem", "SyntheticBackend", "HostAdapter", "Recovery", "Reconciliation">>
QueryKind == <<"Port", "Configuration", "Lifecycle", "AdministrativeState", "Ownership",
  "CapabilityBinding", "AppliedEvidence", "PortsOfDevice", "PortsWithLifecycle",
  "PortsRequiringRevalidation", "PortsOfOwner", "PortsByProfile", "DerivedPorts",
  "StaleProfileBindings", "Explain", "Snapshot", "EngineInfo", "Profiles", "Devices">>

\* is_valid: a value is legal when it is a position in its enumeration.
Enumerations ==
  [mode |-> PortMode, protocol |-> ProtocolFamily, selection |-> SpeedSelection,
   duplex |-> DuplexMode, breakout |-> BreakoutMode, autoneg |-> AutonegPolicy, fec |-> FecMode,
   pause |-> PauseMode, certainty |-> CapabilityCertainty, lifecycle |-> LifecycleStates,
   administrative |-> AdministrativeState, owner_kind |-> PortOwnerKind,
   applied_outcome |-> AppliedOutcome, drift |-> DriftState, provenance_kind |-> ProvenanceKind,
   query_kind |-> QueryKind]

\* "rate" must be a rate when it is read; "rate0" and "mtu0" may be 0.
Widths ==
  [u8 |-> "u8", u16 |-> "u16", u32 |-> "u32", u64 |-> "u64", bool |-> "u8", text |-> "text",
   id |-> "text", rate |-> "u64", rate0 |-> "u64", mtu |-> "u32", mtu0 |-> "u32",
   hex |-> "text", flag |-> "flag", count |-> "count"]
\* Optional parts are preceded by a flag, lists by a count.
Optional == [maybe_configuration |-> "configuration", maybe_ownership |-> "ownership"]
ListOf ==
  [rates |-> "rate", lane_counts |-> "u32", fecs |-> "fec", autonegs |-> "autoneg",
   pauses |-> "pause", protocols |-> "protocol", details |-> "detail", ids |-> "id",
   records |-> "record", profiles |-> "profile", devices |-> "device",
   publishers |-> "publisher"]

----------------------------------------------------------------------------
(* The structures of wire.cpp: the fields as they are written. *)

WriteProvenance == <<<<"provenance_kind", "kind">>, <<"text", "source">>, <<"id", "publisher">>,
  <<"id", "boot">>, <<"u64", "epoch">>, <<"id", "attempt">>>>
WriteCapabilities == <<<<"certainty", "certainty">>, <<"rates", "supported_speeds">>,
  <<"lane_counts", "lane_modes">>, <<"u32", "max_lanes">>, <<"bool", "breakout_supported">>,
  <<"u32", "max_breakout_children">>, <<"fecs", "fec_modes">>, <<"autonegs", "autoneg_modes">>,
  <<"pauses", "pause_modes">>, <<"protocols", "protocol_families">>, <<"u32", "mtu_min">>,
  <<"u32", "mtu_max">>, <<"duplex", "duplex">>, <<"bool", "logical_interface_supported">>,
  <<"u32", "max_queue_count">>, <<"bool", "transceiver_required">>,
  <<"text", "transceiver_class">>>>
WriteConfiguration == <<<<"id", "record">>, <<"id", "port">>, <<"id", "parent_device">>,
  <<"u64", "device_generation">>, <<"u64", "topology_generation">>, <<"u64", "generation">>,
  <<"administrative", "administrative">>, <<"mode", "mode">>, <<"protocol", "protocol">>,
  <<"selection", "speed_selection">>, <<"rate0", "speed_rate">>, <<"duplex", "duplex">>,
  <<"mtu", "mtu">>, <<"u32", "lanes">>, <<"rate", "per_lane">>, <<"breakout", "breakout">>,
  <<"autoneg", "autoneg">>, <<"fec", "fec">>, <<"pause", "pause">>, <<"bool", "agg_member">>,
  <<"id", "aggregate">>, <<"u64", "agg_generation">>, <<"bool", "agg_participation">>,
  <<"bool", "profile_bound">>, <<"id", "profile_id">>, <<"u64", "profile_generation">>,
  <<"text", "role">>, <<"id", "logical_identity">>, <<"id", "derived_from">>,
  <<"u32", "child_index">>, <<"provenance", "provenance">>, <<"u64", "capability_generation">>,
  <<"u64", "evidence_generation">>>>
WriteOwnership == <<<<"id", "id">>, <<"owner_kind", "kind">>, <<"id", "owner">>,
  <<"u64", "generation">>, <<"id", "publisher">>, <<"id", "boot">>, <<"u64", "epoch">>,
  <<"bool", "exclusive">>>>
WriteCapabilityBinding == <<<<"bool", "present">>, <<"u64", "generation">>,
  <<"u64", "evidence_generation">>, <<"id", "evidence">>, <<"text", "source">>,
  <<"capabilities", "capabilities">>>>
WriteGenerations == <<<<"u64", "configuration">>, <<"u64", "administrative">>,
  <<"u64", "ownership">>, <<"u64", "capability">>, <<"u64", "topology">>, <<"u64", "device">>,
  <<"u64", "lifecycle">>, <<"u64", "evidence">>>>
WriteApplied == <<<<"applied_outcome", "outcome">>, <<"u64", "generation">>,
  <<"u64", "evidence_generation">>, <<"text", "source">>, <<"bool", "verified">>>>
WriteRecord == <<<<"id", "port">>, <<"id", "parent_device">>, <<"lifecycle", "lifecycle">>,
  <<"maybe_configuration", "configuration">>, <<"maybe_ownership", "ownership">>,
  <<"capability_binding", "capability">>, <<"applied", "applied">>, <<"drift", "drift">>,
  <<"generations", "generations">>, <<"provenance", "provenance">>, <<"id", "last_attempt">>,
  <<"u64", "payload_digest">>, <<"u64", "result_generation">>, <<"text", "status_reason">>,
  <<"text", "status_detail">>>>
WriteProfileConfiguration == <<<<"bool", "specifies_speed">>, <<"selection", "speed_selection">>,
  <<"rate0", "speed_rate">>, <<"bool", "specifies_mtu">>, <<"mtu0", "mtu">>,
  <<"bool", "specifies_duplex">>, <<"duplex", "duplex">>, <<"bool", "specifies_autoneg">>,
  <<"autoneg", "autoneg">>, <<"bool", "specifies_fec">>, <<"fec", "fec">>,
  <<"bool", "specifies_pause">>, <<"pause", "pause">>, <<"bool", "specifies_breakout">>,
  <<"breakout", "breakout">>, <<"bool", "specifies_mode">>, <<"mode", "mode">>,
  <<"bool", "specifies_protocol">>, <<"protocol", "protocol">>,
  <<"bool", "specifies_aggregation">>, <<"bool", "aggregate_participation">>,
  <<"bool", "specifies_role">>, <<"text", "role">>>>
WriteProfile == <<<<"id", "id">>, <<"u64", "generation">>, <<"text", "name">>,
  <<"text", "description">>, <<"profile_configuration", "configuration">>,
  <<"provenance", "provenance">>>>
WriteDevice == <<<<"id", "device">>, <<"u64", "generation">>, <<"text", "source">>>>
WritePublisher == <<<<"id", "publisher">>, <<"id", "boot">>, <<"u64", "epoch">>,
  <<"bool", "fenced">>>>
WriteAuthority == <<<<"u64", "epoch">>, <<"id", "publisher">>, <<"id", "boot">>,
  <<"id", "ownership">>, <<"u64", "ownership_generation">>, <<"u64", "expected_configuration">>,
  <<"u64", "expected_capability">>, <<"u64", "expected_topology">>, <<"u64", "expected_device">>,
  <<"id", "attempt">>>>
WriteState == <<<<"id", "fabric">>, <<"id", "site">>, <<"u64", "epoch">>,
  <<"u64", "engine_generation">>, <<"u64", "topology">>, <<"records", "records">>,
  <<"profiles", "profiles">>, <<"devices", "devices">>, <<"publishers", "publishers">>>>

----------------------------------------------------------------------------
(* The messages of protocol.cpp: the fields as they are written. *)

WriteDetail == <<<<"text", "key">>, <<"text", "value">>>>
WriteOutcome == <<<<"u8", "code">>, <<"text", "message">>, <<"details", "details">>>>
EncodeHello == <<<<"u16", "protocol_version">>, <<"id", "publisher">>, <<"id", "boot">>,
  <<"u64", "epoch">>, <<"text", "role">>>>
EncodeHelloAck == <<<<"bool", "accepted">>, <<"u64", "epoch">>, <<"text", "detail">>>>
EncodeRegisterPublisher == <<<<"id", "publisher">>, <<"id", "boot">>, <<"u64", "epoch">>>>
EncodeFence == <<<<"id", "publisher">>, <<"id", "boot">>, <<"text", "detail">>>>
EncodeMutation == <<<<"u8", "kind">>, <<"authority", "authority">>, <<"id", "port">>,
  <<"id", "parent_device">>, <<"u64", "device_generation">>,
  <<"maybe_configuration", "configuration">>, <<"u8", "administrative_op">>,
  <<"id", "profile">>, <<"u64", "profile_generation">>, <<"bool", "release">>,
  <<"capability_binding", "capability">>, <<"text", "detail">>, <<"u8", "owner_kind">>,
  <<"id", "owner">>, <<"bool", "exclusive">>, <<"applied", "evidence">>, <<"u8", "drift">>,
  <<"u8", "provenance_kind">>, <<"text", "provenance_source">>>>
EncodeQuery == <<<<"query_kind", "kind">>, <<"id", "port">>, <<"id", "device">>,
  <<"id", "owner">>, <<"id", "profile">>, <<"lifecycle", "lifecycle">>,
  <<"administrative", "administrative">>>>
EncodeQueryResponse == <<<<"outcome", "outcome">>, <<"query_kind", "kind">>, <<"ids", "ports">>,
  <<"records", "records">>, <<"profiles", "profiles">>, <<"devices", "devices">>,
  <<"text", "text">>, <<"u64", "generation">>, <<"u64", "epoch">>, <<"hex", "digest">>>>

----------------------------------------------------------------------------
(* The fields as they are read. *)

ReadProvenance == <<<<"provenance_kind", "kind">>, <<"text", "source">>, <<"id", "publisher">>,
  <<"id", "boot">>, <<"u64", "epoch">>, <<"id", "attempt">>>>
ReadCapabilities == <<<<"certainty", "certainty">>, <<"rates", "supported_speeds">>,
  <<"lane_counts", "lane_modes">>, <<"u32", "max_lanes">>, <<"bool", "breakout_supported">>,
  <<"u32", "max_breakout_children">>, <<"fecs", "fec_modes">>, <<"autonegs", "autoneg_modes">>,
  <<"pauses", "pause_modes">>, <<"protocols", "protocol_families">>, <<"u32", "mtu_min">>,
  <<"u32", "mtu_max">>, <<"duplex", "duplex">>, <<"bool", "logical_interface_supported">>,
  <<"u32", "max_queue_count">>, <<"bool", "transceiver_required">>,
  <<"text", "transceiver_class">>>>
ReadConfiguration == <<<<"id", "record">>, <<"id", "port">>, <<"id", "parent_device">>,
  <<"u64", "device_generation">>, <<"u64", "topology_generation">>, <<"u64", "generation">>,
  <<"administrative", "administrative">>, <<"mode", "mode">>, <<"protocol", "protocol">>,
  <<"selection", "speed_selection">>, <<"rate0", "speed_rate">>, <<"duplex", "duplex">>,
  <<"mtu", "mtu">>, <<"u32", "lanes">>, <<"rate", "per_lane">>, <<"breakout", "breakout">>,
  <<"autoneg", "autoneg">>, <<"fec", "fec">>, <<"pause", "pause">>, <<"bool", "agg_member">>,
  <<"id", "aggregate">>, <<"u64", "agg_generation">>, <<"bool", "agg_participation">>,
  <<"bool", "profile_bound">>, <<"id", "profile_id">>, <<"u64", "profile_generation">>,
  <<"text", "role">>, <<"id", "logical_identity">>, <<"id", "derived_from">>,
  <<"u32", "child_index">>, <<"provenance", "provenance">>, <<"u64", "capability_generation">>,
  <<"u64", "evidence_generation">>>>
ReadOwnership == <<<<"id", "id">>, <<"owner_kind", "kind">>, <<"id", "owner">>,
  <<"u64", "generation">>, <<"id", "publisher">>, <<"id", "boot">>, <<"u64", "epoch">>,
  <<"bool", "exclusive">>>>
ReadCapabilityBinding == <<<<"bool", "present">>, <<"u64", "generation">>,
  <<"u64", "evidence_generation">>, <<"id", "evidence">>, <<"text", "source">>,
  <<"capabilities", "capabilities">>>>
ReadGenerations == <<<<"u64", "configuration">>, <<"u64", "administrative">>,
  <<"u64", "ownership">>, <<"u64", "capability">>, <<"u64", "topology">>, <<"u64", "device">>,
  <<"u64", "lifecycle">>, <<"u64", "evidence">>>>
ReadApplied == <<<<"applied_outcome", "outcome">>, <<"u64", "generation">>,
  <<"u64", "evidence_generation">>, <<"text", "source">>, <<"bool", "verified">>>>
ReadRecord == <<<<"id", "port">>, <<"id", "parent_device">>, <<"lifecycle", "lifecycle">>,
  <<"maybe_configuration", "configuration">>, <<"maybe_ownership", "ownership">>,
  <<"capability_binding", "capability">>, <<"applied", "applied">>, <<"drift", "drift">>,
  <<"generations", "generations">>, <<"provenance", "provenance">>, <<"id", "last_attempt">>,
  <<"u64", "payload_digest">>, <<"u64", "result_generation">>, <<"text", "status_reason">>,
  <<"text", "status_detail">>>>
ReadProfileConfiguration == <<<<"bool", "specifies_speed">>, <<"selection", "speed_selection">>,
  <<"rate0", "speed_rate">>, <<"bool", "specifies_mtu">>, <<"mtu0", "mtu">>,
  <<"bool", "specifies_duplex">>, <<"duplex", "duplex">>, <<"bool", "specifies_autoneg">>,
  <<"autoneg", "autoneg">>, <<"bool", "specifies_fec">>, <<"fec", "fec">>,
  <<"bool", "specifies_pause">>, <<"pause", "pause">>, <<"bool", "specifies_breakout">>,
  <<"breakout", "breakout">>, <<"bool", "specifies_mode">>, <<"mode", "mode">>,
  <<"bool", "specifies_protocol">>, <<"protocol", "protocol">>,
  <<"bool", "specifies_aggregation">>, <<"bool", "aggregate_participation">>,
  <<"bool", "specifies_role">>, <<"text", "role">>>>
ReadProfile == <<<<"id", "id">>, <<"u64", "generation">>, <<"text", "name">>,
  <<"text", "description">>, <<"profile_configuration", "configuration">>,
  <<"provenance", "provenance">>>>
ReadDevice == <<<<"id", "device">>, <<"u64", "generation">>, <<"text", "source">>>>
ReadPublisher == <<<<"id", "publisher">>, <<"id", "boot">>, <<"u64", "epoch">>,
  <<"bool", "fenced">>>>
\* Mutant: two expectations are read in the other order.
ReadAuthoritySwapped == <<<<"u64", "epoch">>, <<"id", "publisher">>, <<"id", "boot">>,
  <<"id", "ownership">>, <<"u64", "ownership_generation">>, <<"u64", "expected_configuration">>,
  <<"u64", "expected_capability">>, <<"u64", "expected_device">>, <<"u64", "expected_topology">>,
  <<"id", "attempt">>>>
ReadAuthority == <<<<"u64", "epoch">>, <<"id", "publisher">>, <<"id", "boot">>,
  <<"id", "ownership">>, <<"u64", "ownership_generation">>, <<"u64", "expected_configuration">>,
  <<"u64", "expected_capability">>, <<"u64", "expected_topology">>, <<"u64", "expected_device">>,
  <<"id", "attempt">>>>
ReadState == <<<<"id", "fabric">>, <<"id", "site">>, <<"u64", "epoch">>,
  <<"u64", "engine_generation">>, <<"u64", "topology">>, <<"records", "records">>,
  <<"profiles", "profiles">>, <<"devices", "devices">>, <<"publishers", "publishers">>>>
ReadDetail == <<<<"text", "key">>, <<"text", "value">>>>
ReadOutcome == <<<<"u8", "code">>, <<"text", "message">>, <<"details", "details">>>>
DecodeHello == <<<<"u16", "protocol_version">>, <<"id", "publisher">>, <<"id", "boot">>,
  <<"u64", "epoch">>, <<"text", "role">>>>
DecodeHelloAck == <<<<"bool", "accepted">>, <<"u64", "epoch">>, <<"text", "detail">>>>
DecodeRegisterPublisher == <<<<"id", "publisher">>, <<"id", "boot">>, <<"u64", "epoch">>>>
DecodeFence == <<<<"id", "publisher">>, <<"id", "boot">>, <<"text", "detail">>>>
DecodeMutation == <<<<"u8", "kind">>, <<"authority", "authority">>, <<"id", "port">>,
  <<"id", "parent_device">>, <<"u64", "device_generation">>,
  <<"maybe_configuration", "configuration">>, <<"u8", "administrative_op">>,
  <<"id", "profile">>, <<"u64", "profile_generation">>, <<"bool", "release">>,
  <<"capability_binding", "capability">>, <<"text", "detail">>, <<"u8", "owner_kind">>,
  <<"id", "owner">>, <<"bool", "exclusive">>, <<"applied", "evidence">>, <<"u8", "drift">>,
  <<"u8", "provenance_kind">>, <<"text", "provenance_source">>>>
DecodeQuery == <<<<"query_kind", "kind">>, <<"id", "port">>, <<"id", "device">>,
  <<"id", "owner">>, <<"id", "profile">>, <<"lifecycle", "lifecycle">>,
  <<"administrative", "administrative">>>>
DecodeQueryResponse == <<<<"outcome", "outcome">>, <<"query_kind", "kind">>, <<"ids", "ports">>,
  <<"records", "records">>, <<"profiles", "profiles">>, <<"devices", "devices">>,
  <<"text", "text">>, <<"u64", "generation">>, <<"u64", "epoch">>, <<"hex", "digest">>>>

Writers ==
  [provenance |-> WriteProvenance, capabilities |-> WriteCapabilities,
   configuration |-> WriteConfiguration, ownership |-> WriteOwnership,
   capability_binding |-> WriteCapabilityBinding, generations |-> WriteGenerations,
   applied |-> WriteApplied, record |-> WriteRecord,
   profile_configuration |-> WriteProfileConfiguration, profile |-> WriteProfile,
   device |-> WriteDevice, publisher |-> WritePublisher, authority |-> WriteAuthority,
   state |-> WriteState, detail |-> WriteDetail, outcome |-> WriteOutcome, hello |-> EncodeHello,
   hello_ack |-> EncodeHelloAck, register_publisher |-> EncodeRegisterPublisher,
   fence |-> EncodeFence, mutation |-> EncodeMutation, query |-> EncodeQuery,
   query_response |-> EncodeQueryResponse]
Readers ==
  [provenance |-> ReadProvenance, capabilities |-> ReadCapabilities,
   configuration |-> ReadConfiguration, ownership |-> ReadOwnership,
   capability_binding |-> ReadCapabilityBinding, generations |-> ReadGenerations,
   applied |-> ReadApplied, record |-> ReadRecord,
   profile_configuration |-> ReadProfileConfiguration, profile |-> ReadProfile,
   device |-> ReadDevice, publisher |-> ReadPublisher, authority |-> ReadAuthority,
   state |-> ReadState, detail |-> ReadDetail, outcome |-> ReadOutcome, hello |-> DecodeHello,
   hello_ack |-> DecodeHelloAck, register_publisher |-> DecodeRegisterPublisher,
   fence |-> DecodeFence, mutation |-> DecodeMutation, query |-> DecodeQuery,
   query_response |-> DecodeQueryResponse]

----------------------------------------------------------------------------
(* Writing. *)

Unit(width, v) == [width |-> width, value |-> v]
PositionOf(e, v) == (CHOOSE i \in DOMAIN e : e[i] = v) - 1

RECURSIVE Written(_, _), WrittenFields(_, _, _), WrittenItems(_, _, _)
WrittenFields(fields, i, v) ==
  IF i > Len(fields) THEN << >>
  ELSE Written(fields[i][1], v[fields[i][2]]) \o WrittenFields(fields, i + 1, v)
WrittenItems(t, i, items) ==
  IF i > Len(items) THEN << >> ELSE Written(t, items[i]) \o WrittenItems(t, i + 1, items)
Written(t, v) ==
  CASE t \in DOMAIN Writers -> WrittenFields(Writers[t], 1, v)
    [] t \in DOMAIN Optional ->
         IF v = Absent THEN <<Unit("flag", 0)>> ELSE <<Unit("flag", 1)>> \o Written(Optional[t], v)
    [] t \in DOMAIN ListOf -> <<Unit("count", Len(v))>> \o WrittenItems(ListOf[t], 1, v)
    [] t \in DOMAIN Enumerations -> <<Unit("u8", PositionOf(Enumerations[t], v))>>
    [] t = "bool" -> <<Unit("u8", IF v THEN 1 ELSE 0)>>
    [] OTHER -> <<Unit(Widths[t], v)>>

\* ByteWriter::text gives up on a text beyond its bound, and so the document.
Fits(units) == \A i \in DOMAIN units : units[i].width = "text" => TextValid(units[i].value)

----------------------------------------------------------------------------
(* What the readers validate. *)

OwnershipValid(o) ==
  /\ o.id # "" /\ o.owner # "" /\ o.publisher # "" /\ o.boot # ""
  /\ o.generation # 0 /\ o.epoch # 0
BindingValid(b) == b.present => b.generation # 0 /\ b.evidence_generation # 0

\* PortRecord::validate
RecordValid(r) ==
  /\ r.port # "" /\ r.parent_device # "" /\ BindingValid(r.capability)
  /\ r.ownership # Absent => OwnershipValid(r.ownership)
  /\ IF r.configuration = Absent THEN r.lifecycle \in {"Unconfigured", "Retired", "Superseded"}
     ELSE /\ ConfigurationValid(r.configuration)
          /\ r.configuration.port = r.port /\ r.configuration.parent_device = r.parent_device
          /\ r.generations.configuration \in {0, r.configuration.generation}
  /\ TextValid(r.status_reason) /\ TextValid(r.status_detail)

\* read_profile_configuration: an MTU that is not specified must be absent.
ProfileReadable(p) ==
  /\ IF p.specifies_mtu THEN p.mtu \in MinMtu..MaxMtu ELSE p.mtu = 0
  /\ ProfileConfigurationValid(p)

\* decode_persisted_state: every entry of a table has a key of its own.
StateValid(v) ==
  /\ IsInjective([i \in DOMAIN v.records |-> v.records[i].port])
  /\ IsInjective([i \in DOMAIN v.profiles |-> <<v.profiles[i].id, v.profiles[i].generation>>])
  /\ IsInjective([i \in DOMAIN v.devices |-> v.devices[i].device])
  /\ IsInjective([i \in DOMAIN v.publishers |->
                    <<v.publishers[i].publisher, v.publishers[i].boot>>])

Acceptable(t, v) ==
  CASE t = "capabilities" -> CapabilitiesValid(v)
    [] t = "configuration" -> LanesExist(v.lanes, v.per_lane)
    [] t = "ownership" -> OwnershipValid(v)
    [] t = "capability_binding" -> BindingValid(v)
    [] t = "record" -> RecordValid(v)
    [] t = "profile_configuration" -> ProfileReadable(v)
    [] t = "profile" -> ProfileValid(v)
    [] t = "device" -> v.device # "" /\ v.generation # 0
    [] t = "publisher" -> v.publisher # "" /\ v.boot # ""
    [] t = "hello" -> v.protocol_version = 1
    [] t = "state" -> StateValid(v)
    [] OTHER -> TRUE

----------------------------------------------------------------------------
(* Reading: whether it succeeded, what was read and what is left. *)

Failure == [ok |-> FALSE, value |-> Absent, rest |-> << >>]
Success(v, rest) == [ok |-> TRUE, value |-> v, rest |-> rest]

\* Mutant: every value is taken for a flag.
BooleanAnything(v) == TRUE
\* ByteReader::boolean
BooleanLegal(v) == v \in {0, 1}
ReadUnit(t, units) ==
  LET width == IF t \in DOMAIN Enumerations THEN "u8" ELSE Widths[t]
      v == Head(units).value
      legal == CASE t \in DOMAIN Enumerations -> v < Len(Enumerations[t])
                 [] t \in {"bool", "flag"} -> BooleanLegal(v)
                 [] t = "rate" -> RateFrom(v) # 0
                 [] t = "rate0" -> v = 0 \/ RateFrom(v) # 0
                 [] t = "mtu" -> v \in MinMtu..MaxMtu
                 [] t = "text" -> TextValid(v)
                 [] t = "id" -> TextValid(v) /\ v \notin MalformedIds
                 [] t = "hex" -> v \in Digests
                 [] OTHER -> TRUE
  IN IF units = << >> \/ Head(units).width # width \/ ~legal THEN Failure
     ELSE Success(CASE t \in DOMAIN Enumerations -> Enumerations[t][v + 1]
                    [] t = "bool" -> v = 1
                    [] OTHER -> v, Tail(units))

RECURSIVE Read(_, _), ReadFields(_, _, _), ReadItems(_, _, _)
\* The fields from the i-th on, after what r holds; and n more items.
ReadFields(fields, i, r) ==
  IF i > Len(fields) \/ ~r.ok THEN r
  ELSE LET x == Read(fields[i][1], r.rest)
       IN ReadFields(fields, i + 1,
                     IF x.ok THEN Success(r.value @@ (fields[i][2] :> x.value), x.rest)
                     ELSE Failure)
ReadItems(t, n, r) ==
  IF n = 0 \/ ~r.ok THEN r
  ELSE LET x == Read(t, r.rest)
       IN ReadItems(t, n - 1,
                    IF x.ok THEN Success(Append(r.value, x.value), x.rest) ELSE Failure)
Read(t, units) ==
  CASE t \in DOMAIN Readers ->
         LET r == ReadFields(Readers[t], 1, Success(<< >>, units))
         IN IF r.ok /\ Acceptable(t, r.value) THEN r ELSE Failure
    [] t \in DOMAIN Optional ->
         LET flag == ReadUnit("flag", units)
         IN IF ~flag.ok \/ flag.value = 0 THEN [flag EXCEPT !.value = Absent]
            ELSE Read(Optional[t], flag.rest)
    [] t \in DOMAIN ListOf ->
         LET count == ReadUnit("count", units)
         IN IF ~count.ok \/ count.value > ListBound \/ count.value > Len(count.rest) THEN Failure
            ELSE ReadItems(ListOf[t], count.value, Success(<< >>, count.rest))
    [] OTHER -> ReadUnit(t, units)

\* Mutant: only the container must end where it ought to.
ExhaustiveContainer == {"state"}
\* These decoders also insist that nothing is left.
Exhaustive == {"state", "hello", "mutation", "query_response"}
Decoded(t, units) ==
  LET r == Read(t, units) IN IF t \in Exhaustive /\ r.rest # << >> THEN Failure ELSE r
=============================================================================
