---------------------------- MODULE MCCatalogue ----------------------------
EXTENDS Catalogue

MCProvenance == [epoch |-> 1, attempt |-> "attempt", source |-> ""]

\* Four lanes of 25 Gbit/s.
Quad ==
  [record |-> "cfg", port |-> "port", parent_device |-> "device", device_generation |-> 1,
   topology_generation |-> 1, generation |-> 1, administrative |-> "Enabled",
   mode |-> "Physical", protocol |-> "Ethernet", speed_selection |-> "Forced",
   speed_rate |-> 100000000, duplex |-> "Full", mtu |-> 1500, lanes |-> 4,
   per_lane |-> 25000000, breakout |-> "None", autoneg |-> "Negotiated",
   fec |-> "ReedSolomon528", pause |-> "Disabled", agg_member |-> FALSE, aggregate |-> "",
   agg_generation |-> 0, agg_participation |-> FALSE, profile_bound |-> FALSE,
   profile_id |-> "", profile_generation |-> 0, role |-> "", logical_identity |-> "",
   derived_from |-> "", child_index |-> 0, provenance |-> MCProvenance,
   capability_generation |-> 0, evidence_generation |-> 0]
Single(rate) == [Quad EXCEPT !.lanes = 1, !.per_lane = rate, !.speed_rate = rate]
Six == [Quad EXCEPT !.lanes = 6, !.speed_rate = 150000000, !.breakout = "X4"]
Auto == [Quad EXCEPT !.speed_selection = "Auto", !.speed_rate = 0, !.lanes = 2]
Bound == [Quad EXCEPT !.profile_bound = TRUE, !.profile_id = "gold", !.profile_generation = 1]
\* No evidence below accepts these two.
Half == [Quad EXCEPT !.duplex = "Half"]
Small == [Quad EXCEPT !.mtu = 1280]
MCRequests == {Quad, Single(2500000), Single(2050000), Six, Auto, Bound, Half, Small}

Full ==
  [certainty |-> "Known",
   supported_speeds |-> <<2500000, 2050000, 50000000, 100000000, 150000000>>,
   lane_modes |-> <<1, 4, 6>>, max_lanes |-> 8, breakout_supported |-> TRUE,
   max_breakout_children |-> 4, fec_modes |-> <<"ReedSolomon528">>,
   autoneg_modes |-> <<"Negotiated">>, pause_modes |-> <<"Disabled">>,
   protocol_families |-> <<"Ethernet">>, mtu_min |-> 1500, mtu_max |-> 9216, duplex |-> "Full",
   logical_interface_supported |-> FALSE, max_queue_count |-> 0, transceiver_required |-> FALSE,
   transceiver_class |-> ""]
\* Only two lanes without a bound, and no breakout; a bound below the only
\* lane mode; and a transceiver that is required but unknown.
MCEvidence ==
  {Full, [Full EXCEPT !.lane_modes = <<2>>, !.max_lanes = 0, !.breakout_supported = FALSE],
   [Full EXCEPT !.lane_modes = <<4>>, !.max_lanes = 2], [Full EXCEPT !.transceiver_required = TRUE]}

Nothing ==
  [specifies_speed |-> FALSE, speed_selection |-> "Auto", speed_rate |-> 0,
   specifies_mtu |-> FALSE, mtu |-> 0, specifies_duplex |-> FALSE, duplex |-> "Unknown",
   specifies_autoneg |-> FALSE, autoneg |-> "Unknown", specifies_fec |-> FALSE,
   fec |-> "Unknown", specifies_pause |-> FALSE, pause |-> "Unknown",
   specifies_breakout |-> FALSE, breakout |-> "None", specifies_mode |-> FALSE,
   mode |-> "Physical", specifies_protocol |-> FALSE, protocol |-> "Unknown",
   specifies_aggregation |-> FALSE, aggregate_participation |-> FALSE,
   specifies_role |-> FALSE, role |-> ""]
Profile(id, g, configuration) ==
  [id |-> id, generation |-> g, name |-> id, description |-> "", configuration |-> configuration,
   provenance |-> MCProvenance]
Jumbo(mtu) == [Nothing EXCEPT !.specifies_mtu = TRUE, !.mtu = mtu]
Split == [Nothing EXCEPT !.specifies_breakout = TRUE, !.breakout = "X4"]
\* Another generation 1 of the first profile, and a profile whose speed no
\* lanes go with.
MCProfiles ==
  {Profile("gold", 1, Jumbo(9000)), Profile("gold", 1, Jumbo(9216)), Profile("gold", 2, Split),
   Profile("silver", 1, [Nothing EXCEPT !.specifies_speed = TRUE, !.speed_selection = "Forced",
                                        !.speed_rate = 2500000])}
=============================================================================
