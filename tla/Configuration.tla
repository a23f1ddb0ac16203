--------------------------- MODULE Configuration ---------------------------
(***************************************************************************)
(* Port characteristics, configurations, capability evidence and profiles  *)
(* as values: the arithmetic of rates, lanes and breakouts, the validation *)
(* of a configuration by itself and against the evidence, and the overlay  *)
(* of a profile.                                                           *)
(*                                                                         *)
(* A rate is a number of kbit/s, so that the largest one is a TLC integer; *)
(* 0 is the absent rate.  An absent identity is "", an absent generation   *)
(* or MTU is 0.  Texts are labels; OverlongTexts are those beyond their    *)
(* bound.                                                                  *)
(***************************************************************************)
EXTENDS Naturals, Sequences, FiniteSets, SequencesExt

CONSTANT OverlongTexts   \* labels that exceed max_name_length

MinRate == 1000
MaxRate == 1600000000
MaxLanes == 16
MinMtu == 68
MaxMtu == 65536
MaxChildren == 8
MaxQueues == 4096

----------------------------------------------------------------------------
(* Enumerations, in the order of their values. *)

PortMode == <<"Physical", "Logical">>
ProtocolFamily == <<"Unknown", "Ethernet", "InfiniBand", "FibreChannel", "OpticalTransport",
  "Overlay", "Synthetic">>
SpeedSelection == <<"Auto", "Forced">>
DuplexMode == <<"Unknown", "Unsupported", "Half", "Full">>
BreakoutMode == <<"None", "X2", "X4", "X8">>
AutonegPolicy == <<"Unknown", "Unsupported", "Forced", "Preferred", "Negotiated">>
FecMode == <<"Unknown", "Unsupported", "None", "Firecode", "ReedSolomon528", "ReedSolomon544",
  "ReedSolomon544Interleaved", "ReedSolomon272Interleaved">>
PauseMode == <<"Unknown", "Unsupported", "Disabled", "Transmit", "Receive", "Bidirectional">>
CapabilityCertainty == <<"Unknown", "Known", "Partial">>

----------------------------------------------------------------------------
(* Rates, lanes and breakouts. *)

\* PortSpeed::from_bits_per_second
RateFrom(k) == IF k \in MinRate..MaxRate THEN k ELSE 0

\* LaneConfiguration::total; the division stands for the overflow check.
LaneTotal(lanes, perLane) ==
  IF lanes = 0 \/ perLane = 0 \/ perLane > MaxRate \div lanes THEN 0
  ELSE RateFrom(perLane * lanes)

\* LaneConfiguration::create succeeds.
LanesExist(lanes, perLane) == lanes \in 1..MaxLanes /\ LaneTotal(lanes, perLane) # 0

BreakoutChildren(mode) == [None |-> 1, X2 |-> 2, X4 |-> 4, X8 |-> 8][mode]
\* Mutant: it is enough that every child gets a lane.
LanesSuffice(lanes, mode) == lanes >= BreakoutChildren(mode)
LanesAreDivisible(lanes, mode) == lanes # 0 /\ lanes % BreakoutChildren(mode) = 0

\* PortSpeed::to_string.  A rendering is a decimal number and a unit; its
\* fraction is zeros followed by a number without trailing zeros.
Gigabit == 1000000
Megabit == 1000
Whole(n, unit) == [whole |-> n, zeros |-> 0, fraction |-> 0, unit |-> unit]
\* Mutant: the fraction is rendered as a bare number.
NoLeadingZeros(number, scale) == 0
LeadingZeros(number, scale) == Cardinality({s \in {10, 100} : s <= scale /\ number < s})
FractionOf(remainder) ==
  LET trimmed == CASE remainder % 100 = 0 -> <<remainder \div 100, 1>>
                   [] remainder % 100 # 0 /\ remainder % 10 = 0 -> <<remainder \div 10, 10>>
                   [] OTHER -> <<remainder, 100>>
  IN [zeros |-> LeadingZeros(trimmed[1], trimmed[2]), fraction |-> trimmed[1]]
Fractional(n, f) == [whole |-> n, zeros |-> f.zeros, fraction |-> f.fraction, unit |-> "G"]
Render(rate) ==
  CASE rate % Gigabit = 0 -> Whole(rate \div Gigabit, "G")
    [] rate % Gigabit # 0 /\ rate % Megabit = 0 /\ rate > Gigabit ->
         Fractional(rate \div Gigabit, FractionOf((rate % Gigabit) \div Megabit))
    [] rate % Gigabit # 0 /\ rate % Megabit = 0 /\ rate < Gigabit -> Whole(rate \div Megabit, "M")
    [] OTHER -> Whole(rate, "K")

\* PortSpeed::parse on a rendering; at most three fraction digits.
Multiplier(unit) == [G |-> Gigabit, M |-> Megabit, K |-> 1][unit]
DigitCount(n) == CASE n = 0 -> 0 [] n \in 1..9 -> 1 [] n \in 10..99 -> 2 [] OTHER -> 3
Parse(text) ==
  LET digits == text.zeros + DigitCount(text.fraction)
      scale == <<1, 10, 100, 1000>>[digits + 1]
  IN IF digits > 3 \/ text.whole > MaxRate \div Multiplier(text.unit) THEN 0
     ELSE RateFrom(text.whole * Multiplier(text.unit)
                   + text.fraction * (Multiplier(text.unit) \div scale))

----------------------------------------------------------------------------
(* PortConfiguration::validate *)

SpeedValid(selection, rate) == (selection = "Auto") <=> (rate = 0)
TextValid(t) == t \notin OverlongTexts
ProvenanceValid(p) == p.epoch # 0 /\ p.attempt # ""
AggregationValid(c) ==
  IF c.agg_member THEN c.aggregate # "" /\ c.agg_generation # 0
  ELSE c.aggregate = "" /\ c.agg_generation = 0 /\ ~c.agg_participation
ProfileBindingValid(c) ==
  IF c.profile_bound THEN c.profile_id # "" /\ c.profile_generation # 0
  ELSE c.profile_id = "" /\ c.profile_generation = 0

ConfigurationValid(c) ==
  /\ c.record # "" /\ c.port # "" /\ c.parent_device # ""
  /\ c.device_generation # 0 /\ c.topology_generation # 0 /\ c.generation # 0
  /\ SpeedValid(c.speed_selection, c.speed_rate)
  /\ c.mtu # 0 /\ c.lanes # 0 /\ c.per_lane # 0
  /\ AggregationValid(c) /\ ProfileBindingValid(c) /\ ProvenanceValid(c.provenance)
  /\ TextValid(c.role)
  /\ LET total == LaneTotal(c.lanes, c.per_lane)
     IN total # 0 /\ c.speed_selection = "Forced" => c.speed_rate = total
  /\ c.breakout # "None" => LanesAreDivisible(c.lanes, c.breakout)
  /\ IF c.mode = "Physical"
     THEN c.logical_identity = "" /\ c.derived_from = "" /\ c.child_index = 0
     ELSE c.logical_identity # "" /\ c.derived_from # "" /\ c.child_index <= MaxChildren

----------------------------------------------------------------------------
(* Capability evidence. *)

\* PortCapabilities::validate; the list bounds are the readers' (Wire).
CapabilitiesValid(k) ==
  /\ k.max_lanes <= MaxLanes
  /\ \A s \in ToSet(k.supported_speeds) : s # 0
  /\ \A n \in ToSet(k.lane_modes) : n \in 1..MaxLanes
  /\ k.mtu_min <= k.mtu_max /\ k.mtu_max <= MaxMtu
  /\ k.max_breakout_children <= MaxChildren /\ k.max_queue_count <= MaxQueues
  /\ TextValid(k.transceiver_class)

\* supports_speed, supports_fec, supports_autoneg, supports_pause and
\* supports_protocol: what is not known is not supported.
Lists(k, values, v) == k.certainty # "Unknown" /\ v \in ToSet(values) \ {"Unknown"}
SupportsSpeed(k, rate) == rate # 0 /\ k.certainty # "Unknown" /\ rate \in ToSet(k.supported_speeds)

\* Mutant: without an enumeration any lane count within the bound will do.
LanesByBound(k, lanes) ==
  /\ lanes # 0 /\ k.certainty # "Unknown"
  /\ k.max_lanes # 0 => lanes <= k.max_lanes
  /\ k.lane_modes # << >> => lanes \in ToSet(k.lane_modes)
SupportsLanes(k, lanes) ==
  /\ lanes # 0 /\ k.certainty # "Unknown"
  /\ k.max_lanes # 0 => lanes <= k.max_lanes
  /\ IF k.lane_modes = << >> THEN k.max_lanes = 0 /\ lanes = 1
     ELSE lanes \in ToSet(k.lane_modes)

\* What a check answers, and what a list of checks does: the first that fails
\* names the reason.
Verdict(fails, reason) == IF fails THEN reason ELSE "ACCEPTED"
FirstFailure(verdicts) ==
  LET failing == {i \in DOMAIN verdicts : verdicts[i] # "ACCEPTED"}
  IN IF failing = {} THEN "ACCEPTED"
     ELSE verdicts[CHOOSE i \in failing : \A j \in failing : i <= j]

\* The evidence, the lane rates and the selected speed.
SpeedChecks(c, b) ==
  LET k == b.capabilities
      total == LaneTotal(c.lanes, c.per_lane)
      forced == c.speed_selection = "Forced"
  IN <<Verdict(~b.present \/ b.generation = 0, "CAPABILITY_UNBOUND"),
       Verdict(~CapabilitiesValid(k), "CAPABILITY_EVIDENCE_INVALID"),
       Verdict(k.certainty = "Unknown", "CAPABILITY_UNKNOWN"),
       Verdict(total = 0, "LANE_TOTAL_OVERFLOW"),
       Verdict(~forced /\ total \notin ToSet(k.supported_speeds), "SPEED_AUTO_UNSUPPORTED"),
       Verdict(forced /\ ~SupportsSpeed(k, c.speed_rate), "SPEED_UNSUPPORTED"),
       Verdict(forced /\ c.speed_rate # total, "LANE_RATE_MISMATCH")>>
LaneChecks(c, k) ==
  <<Verdict(~SupportsLanes(k, c.lanes), "LANE_COUNT_UNSUPPORTED"),
    Verdict(c.breakout # "None" /\ ~k.breakout_supported, "BREAKOUT_UNSUPPORTED"),
    Verdict(c.breakout # "None" /\ BreakoutChildren(c.breakout) > k.max_breakout_children,
            "BREAKOUT_FANOUT_UNSUPPORTED"),
    Verdict(c.protocol # "Unknown" /\ ~Lists(k, k.protocol_families, c.protocol),
            "PROTOCOL_UNSUPPORTED"),
    Verdict(c.protocol = "Unknown", "PROTOCOL_UNKNOWN")>>
\* A mode that is named must be listed; one that is UNKNOWN is refused, and
\* UNSUPPORTED needs no evidence.
ModeChecks(k, values, v, unsupported, unknown) ==
  <<Verdict(v \notin {"Unknown", "Unsupported"} /\ ~Lists(k, values, v), unsupported),
    Verdict(v = "Unknown", unknown)>>
\* Duplex, MTU, interface and transceiver.
LimitChecks(c, k) ==
  <<Verdict(c.duplex \notin {"Unknown", "Unsupported"} /\ k.duplex \notin {"Unknown", c.duplex},
            "DUPLEX_UNSUPPORTED"),
    Verdict(c.duplex = "Unknown", "DUPLEX_UNKNOWN"),
    Verdict(k.mtu_max # 0 /\ c.mtu \notin k.mtu_min..k.mtu_max, "MTU_OUT_OF_RANGE"),
    Verdict(k.mtu_max = 0, "MTU_UNKNOWN"),
    Verdict(c.mode = "Logical" /\ ~k.logical_interface_supported, "LOGICAL_INTERFACE_UNSUPPORTED"),
    Verdict(k.transceiver_required /\ k.transceiver_class = "", "TRANSCEIVER_UNKNOWN")>>

\* validate_against_capabilities
ValidateAgainstCapabilities(c, b) ==
  LET k == b.capabilities
  IN FirstFailure(
       SpeedChecks(c, b) \o LaneChecks(c, k)
       \o ModeChecks(k, k.fec_modes, c.fec, "FEC_UNSUPPORTED", "FEC_UNKNOWN")
       \o ModeChecks(k, k.autoneg_modes, c.autoneg, "AUTONEG_UNSUPPORTED", "AUTONEG_UNKNOWN")
       \o ModeChecks(k, k.pause_modes, c.pause, "PAUSE_UNSUPPORTED", "PAUSE_UNKNOWN")
       \o LimitChecks(c, k))

Accepts(c, b) == ValidateAgainstCapabilities(c, b) = "ACCEPTED"

----------------------------------------------------------------------------
(* Profiles. *)

\* ProfileConfiguration::validate; the enumerators of a value are legal.
ProfileConfigurationValid(p) ==
  /\ p.specifies_speed => SpeedValid(p.speed_selection, p.speed_rate)
  /\ p.specifies_mtu => p.mtu # 0
  /\ TextValid(p.role) /\ (~p.specifies_role => p.role = "")

\* PortProfile::validate
ProfileValid(p) ==
  /\ p.id # "" /\ p.generation # 0 /\ p.name # "" /\ TextValid(p.name)
  /\ TextValid(p.description)
  /\ ProfileConfigurationValid(p.configuration) /\ p.provenance.epoch # 0

\* apply_profile: the dimensions a profile specifies replace those of the
\* configuration.
ApplyProfile(p, c) ==
  [c EXCEPT !.speed_selection = IF p.specifies_speed THEN p.speed_selection ELSE @,
            !.speed_rate = IF p.specifies_speed THEN p.speed_rate ELSE @,
            !.mtu = IF p.specifies_mtu THEN p.mtu ELSE @,
            !.duplex = IF p.specifies_duplex THEN p.duplex ELSE @,
            !.autoneg = IF p.specifies_autoneg THEN p.autoneg ELSE @,
            !.fec = IF p.specifies_fec THEN p.fec ELSE @,
            !.pause = IF p.specifies_pause THEN p.pause ELSE @,
            !.breakout = IF p.specifies_breakout THEN p.breakout ELSE @,
            !.mode = IF p.specifies_mode THEN p.mode ELSE @,
            !.protocol = IF p.specifies_protocol THEN p.protocol ELSE @,
            !.agg_participation = IF p.specifies_aggregation THEN p.aggregate_participation ELSE @,
            !.role = IF p.specifies_role THEN p.role ELSE @]

----------------------------------------------------------------------------
(* The values the types of the fields admit: a rate, an MTU and a lane      *)
(* configuration are built by constructors that refuse anything else.       *)

IsRate(r) == r = 0 \/ r \in MinRate..MaxRate
IsMtu(m) == m = 0 \/ m \in MinMtu..MaxMtu

ConfigurationFields ==
  {"record", "port", "parent_device", "device_generation", "topology_generation", "generation",
   "administrative", "mode", "protocol", "speed_selection", "speed_rate", "duplex", "mtu", "lanes",
   "per_lane", "breakout", "autoneg", "fec", "pause", "agg_member", "aggregate", "agg_generation",
   "agg_participation", "profile_bound", "profile_id", "profile_generation", "role",
   "logical_identity", "derived_from", "child_index", "provenance", "capability_generation",
   "evidence_generation"}
\* PortConfiguration
IsConfiguration(c) ==
  /\ DOMAIN c = ConfigurationFields
  /\ IsRate(c.speed_rate) /\ IsRate(c.per_lane) /\ c.lanes \in 0..MaxLanes /\ IsMtu(c.mtu)
  /\ c.breakout \in ToSet(BreakoutMode)

\* PortCapabilities
Labels == ToSet(FecMode) \cup ToSet(AutonegPolicy) \cup ToSet(PauseMode) \cup ToSet(ProtocolFamily)
CapabilityFields ==
  {"certainty", "supported_speeds", "lane_modes", "max_lanes", "breakout_supported",
   "max_breakout_children", "fec_modes", "autoneg_modes", "pause_modes", "protocol_families",
   "mtu_min", "mtu_max", "duplex", "logical_interface_supported", "max_queue_count",
   "transceiver_required", "transceiver_class"}
ModeLists == {"fec_modes", "autoneg_modes", "pause_modes", "protocol_families"}
EvidenceLists == ModeLists \cup {"supported_speeds", "lane_modes"}
IsCapabilities(k) ==
  /\ DOMAIN k = CapabilityFields
  /\ \A f \in {"max_lanes", "max_breakout_children", "mtu_min", "mtu_max"} : k[f] \in Nat
  /\ k.supported_speeds \in Seq(Nat) /\ k.lane_modes \in Seq(Nat)
  /\ \A f \in ModeLists : k[f] \in Seq(Labels)

\* ProfileConfiguration, as far as a configuration takes its values over.
IsProfileConfiguration(p) ==
  /\ IsRate(p.speed_rate) /\ IsMtu(p.mtu) /\ p.breakout \in ToSet(BreakoutMode)
=============================================================================
