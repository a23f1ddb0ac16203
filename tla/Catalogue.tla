----------------------------- MODULE Catalogue -----------------------------
(***************************************************************************)
(* The profile registry and one port whose configuration, evidence and     *)
(* profile binding are values with all their fields, beside the durable    *)
(* container both are saved to.  An operation is one step here: PortEngine *)
(* interleaves the steps of a mutation, and applying is taken to succeed   *)
(* (a failed apply commits nothing).                                       *)
(*                                                                         *)
(* The registry is the set of the profile generations it holds: the order  *)
(* it keeps them in is that of their numbers.                              *)
(***************************************************************************)
EXTENDS Configuration

CONSTANTS
  Absent,
  Profiles,              \* the profiles that may be defined
  Requests,              \* the configurations that may be submitted
  Evidence,              \* the capability evidence that may be bound
  ProfileGenerations,    \* max_profile_generations
  MaxProfiles,           \* max_profiles: identifiers in the registry, generations in the container
  ConfigurationBound,    \* bounds the configuration generations
  CapabilityBound,       \* bounds the capability generations
  RestartBound           \* bounds the restarts

VARIABLES
  registry,      \* the profile generations that are defined
  port,          \* the record of the port
  gathered,      \* the profiles a save has gathered, or Absent
  container,     \* the durable container, or Absent
  restarts,
  answer         \* the last request that was answered ALREADY_CURRENT

vars == <<registry, port, gathered, container, restarts, answer>>

NoAnswer == [submitted |-> Absent, committed |-> Absent]
NoEvidence == [present |-> FALSE, generation |-> 0, capabilities |-> Absent]

\* A text of a rate, or none where no rate is given.
Texts == [whole : Nat, zeros : Nat, fraction : Nat, unit : {"G", "M", "K"}]

ASSUME CatalogueAssumption ==
  /\ \A c \in Requests : IsConfiguration(c)
  /\ \A k \in Evidence : IsCapabilities(k)
  /\ \A p \in Profiles : p.generation \in Nat /\ IsProfileConfiguration(p.configuration)
  /\ MaxProfiles \in Nat /\ ProfileGenerations \in Nat
  /\ Absent \notin Texts

----------------------------------------------------------------------------
(* The profile registry. *)

\* The digest covers everything but the provenance.
Content(p) == [p EXCEPT !.provenance = Absent]

Identifiers(defined) == {q.id : q \in defined}
GenerationsOf(defined, id) == {q \in defined : q.id = id}

\* A profile of a new identifier.
FirstOutcome(defined, p) ==
  IF Cardinality(Identifiers(defined)) >= MaxProfiles THEN "RESOURCE_BOUND_EXCEEDED"
  ELSE IF p.generation = 1 THEN "OK" ELSE "INVALID_PROFILE"
\* A profile newer than every generation of its identifier.
NextOutcome(generations) ==
  IF Cardinality(generations) >= ProfileGenerations THEN "RESOURCE_BOUND_EXCEEDED" ELSE "OK"
\* Mutant: a generation may be defined again with another content.
DefineAnew(defined, p) ==
  LET generations == GenerationsOf(defined, p.id)
  IN IF ~ProfileValid(p) THEN "INVALID_PROFILE"
     ELSE IF generations = {} THEN FirstOutcome(defined, p)
     ELSE IF \E q \in generations : p.generation < q.generation THEN "INVALID_PROFILE"
     ELSE NextOutcome(generations)
\* ProfileRegistry::define; the latest generation is the one of the largest
\* number.
DefineOutcome(defined, p) ==
  LET generations == GenerationsOf(defined, p.id)
  IN IF ~ProfileValid(p) THEN "INVALID_PROFILE"
     ELSE IF generations = {} THEN FirstOutcome(defined, p)
     ELSE IF \E q \in generations : p.generation < q.generation THEN "INVALID_PROFILE"
     ELSE IF \E q \in generations : p.generation = q.generation
          THEN IF \E q \in generations : p.generation = q.generation /\ Content(p) = Content(q)
               THEN "ALREADY_CURRENT" ELSE "DUPLICATE_RECORD"
     ELSE NextOutcome(generations)

Get(id, g) == {q \in registry : q.id = id /\ q.generation = g}
IsDefined(c) == c.profile_bound => Get(c.profile_id, c.profile_generation) # {}

\* Mutant: the latest generation is replaced by one of the same number.
DefineReplacing(p) ==
  /\ DefineOutcome(registry, p) \in {"OK", "DUPLICATE_RECORD"}
  /\ registry' = {q \in registry : q.id # p.id \/ q.generation # p.generation} \cup {p}
  /\ answer' = NoAnswer
  /\ UNCHANGED <<port, gathered, container, restarts>>
DefineProfile(p) ==
  /\ DefineOutcome(registry, p) = "OK"
  /\ registry' = registry \cup {p}
  /\ answer' = NoAnswer
  /\ UNCHANGED <<port, gathered, container, restarts>>

----------------------------------------------------------------------------
(* Mutations of the port. *)

\* canonical_payload: rates are compared by their text.
CanonicalPayload(c) ==
  [c EXCEPT !.provenance = [@ EXCEPT !.attempt = "", !.epoch = 0], !.evidence_generation = 0,
            !.speed_rate = IF @ = 0 THEN Absent ELSE Render(@), !.per_lane = Render(@)]
SemanticallyEqual(c, d) == CanonicalPayload(c) = CanonicalPayload(d)

\* The fields the engine fills in.
Completed(c, generation) ==
  [c EXCEPT !.generation = generation, !.capability_generation = port.capability.generation]

Unchanged == UNCHANGED <<registry, gathered, container, restarts>>
\* execute_mutation validates the plan, applies it and commits it.
Commits(c, lifecycle) ==
  /\ ConfigurationValid(c) /\ Accepts(c, port.capability)
  /\ port' = [port EXCEPT !.configured = TRUE, !.configuration = c, !.lifecycle = lifecycle]
  /\ answer' = NoAnswer
  /\ Unchanged
AnswersCurrent(c) ==
  /\ ConfigurationValid(c) /\ SemanticallyEqual(port.configuration, c)
  /\ answer' = [submitted |-> c, committed |-> port.configuration]
  /\ UNCHANGED port /\ Unchanged

Configure(c) ==
  /\ port.lifecycle = "Unconfigured" /\ port.capability.present /\ IsDefined(c)
  /\ Commits(Completed(c, 1), "Configured")

Live == port.lifecycle = "Configured"
Generation == port.configuration.generation
Advanced(c) == [c EXCEPT !.generation = @ + 1]

Reconfigure(c) ==
  /\ Live /\ IsDefined(c)
  /\ LET d == Completed(c, Generation)
     IN \/ ~SemanticallyEqual(port.configuration, d) /\ Commits(Advanced(d), "Configured")
        \/ AnswersCurrent(d)

\* build_assign_profile; without a profile the binding is released.
Assigned(id, g) ==
  LET c == port.configuration
  IN IF id = Absent
     THEN [c EXCEPT !.profile_bound = FALSE, !.profile_id = "", !.profile_generation = 0]
     ELSE [ApplyProfile((CHOOSE q \in Get(id, g) : TRUE).configuration, c)
             EXCEPT !.profile_bound = TRUE, !.profile_id = id, !.profile_generation = g]
AssignProfile(id, g) ==
  /\ Live
  /\ IF id = Absent THEN port.configuration.profile_bound ELSE Get(id, g) # {}
  /\ LET d == Completed(Assigned(id, g), Generation)
     IN \/ ~SemanticallyEqual(port.configuration, d) /\ Commits(Advanced(d), "Configured")
        \/ AnswersCurrent(d)

\* build_bind_capabilities with a newer generation.
BindCapabilities(k) ==
  LET b == [present |-> TRUE, generation |-> port.capability.generation + 1, capabilities |-> k]
  IN /\ CapabilitiesValid(k)
     /\ port' = [port EXCEPT
          !.capability = b,
          !.lifecycle = IF port.configured /\ ~Accepts(port.configuration, b)
                        THEN "RevalidationRequired" ELSE @]
     /\ answer' = NoAnswer
     /\ Unchanged

\* Mutant: the profile a configuration is bound to is not looked up again.
ReconcileTrusting ==
  /\ port.configured /\ port.capability.present
  /\ \/ port.lifecycle = "RevalidationRequired"
     \/ port.configuration.capability_generation # port.capability.generation
  /\ Commits(Advanced(Completed(port.configuration, Generation)), "Configured")
\* build_reconcile
Reconcile ==
  /\ port.configured /\ port.capability.present
  /\ IsDefined(port.configuration)
  /\ \/ port.lifecycle = "RevalidationRequired"
     \/ port.configuration.capability_generation # port.capability.generation
  /\ Commits(Advanced(Completed(port.configuration, Generation)), "Configured")

----------------------------------------------------------------------------
(* The container. *)

\* persist_locked_state and gather_state take the profiles first.
GatherProfiles ==
  /\ gathered = Absent
  /\ gathered' = registry
  /\ UNCHANGED <<registry, port, container, restarts, answer>>
\* A save that is refused leaves the container as it is.
Encodable == Cardinality(gathered) <= MaxProfiles
WriteContainer ==
  /\ gathered # Absent
  /\ container' = IF Encodable THEN [profiles |-> gathered, port |-> port] ELSE container
  /\ gathered' = Absent
  /\ UNCHANGED <<registry, port, restarts, answer>>

\* load defines the profiles by identifier and generation.
Earlier(profiles, p) == {q \in GenerationsOf(profiles, p.id) : q.generation < p.generation}
\* The decoder refuses a generation that is there twice, and the registry may
\* refuse a profile.  Which identifiers it has by then does not matter, as
\* all of them must fit.
Restorable(profiles) ==
  /\ \A p, q \in profiles : p.id = q.id /\ p.generation = q.generation => p = q
  /\ \A p \in profiles : DefineOutcome(Earlier(profiles, p), p) \in {"OK", "ALREADY_CURRENT"}
  /\ Cardinality(Identifiers(profiles)) <= MaxProfiles
Recovered(p) ==
  [p EXCEPT !.lifecycle = IF p.configured THEN "RevalidationRequired" ELSE @]

Blank ==
  [lifecycle |-> "Unconfigured", configured |-> FALSE, configuration |-> Absent,
   capability |-> NoEvidence]
Restart ==
  /\ restarts < RestartBound
  /\ restarts' = restarts + 1
  /\ IF container = Absent THEN registry' = {} /\ port' = Blank
     ELSE /\ Restorable(container.profiles)
          /\ registry' = container.profiles /\ port' = Recovered(container.port)
  /\ gathered' = Absent /\ answer' = NoAnswer
  /\ UNCHANGED container

----------------------------------------------------------------------------

Init ==
  /\ registry = {} /\ port = Blank
  /\ gathered = Absent /\ container = Absent /\ restarts = 0 /\ answer = NoAnswer

Bounded == port.configured => Generation < ConfigurationBound
Next ==
  \/ \E p \in Profiles : DefineProfile(p)
  \/ \E c \in Requests : Configure(c) \/ (Bounded /\ Reconfigure(c))
  \/ Bounded /\ \E p \in Profiles : AssignProfile(p.id, p.generation)
  \/ Bounded /\ AssignProfile(Absent, 0)
  \/ port.capability.generation < CapabilityBound /\ \E k \in Evidence : BindCapabilities(k)
  \/ Bounded /\ Reconcile
  \/ GatherProfiles
  \/ WriteContainer
  \/ Restart

Spec == Init /\ [][Next]_vars

----------------------------------------------------------------------------
(* Properties. *)

\* What a live port is told to do can be done by the evidence it is bound to:
\* the total of its lanes is an advertised rate, a breakout gives every child
\* a whole number of lanes whose rates add up to that total, and the MTU is
\* in the range that is known (validate, validate_against_capabilities, and
\* the overlay of profiles whose dimensions are validated one by one).
Realisable(c, k) ==
  LET children == BreakoutChildren(c.breakout)
      total == c.lanes * c.per_lane
  IN /\ total \in ToSet(k.supported_speeds)
     /\ c.speed_selection = "Forced" => c.speed_rate = total
     /\ children * ((c.lanes \div children) * c.per_lane) = total
     /\ children > 1 => k.breakout_supported /\ children <= k.max_breakout_children
     /\ c.mtu \in k.mtu_min..k.mtu_max
LiveIsRealisable == Live => Realisable(port.configuration, port.capability.capabilities)

\* What a field of evidence says of a dimension that is not known.
Unstated(f) ==
  CASE f \in {"certainty", "duplex"} -> "Unknown"
    [] f \in {"breakout_supported", "logical_interface_supported", "transceiver_required"} -> FALSE
    [] f \in {"max_lanes", "mtu_min", "mtu_max", "max_queue_count"} -> 0
    [] f = "transceiver_class" -> ""
\* The values of a field that say less than evidence k does: a list without
\* one of its entries, no breakout children, or nothing.
Lesser(k, f) ==
  CASE f \in EvidenceLists -> {RemoveAt(k[f], i) : i \in DOMAIN k[f]}
    [] f = "max_breakout_children" -> {n \in {0, 1} : n <= k[f]}
    [] OTHER -> {Unstated(f)}
\* Every way of knowing less in one field; a range of MTUs has two.
Weakened(k) ==
  (UNION {{[k EXCEPT ![f] = v] : v \in Lesser(k, f)} : f \in CapabilityFields})
  \cup {[k EXCEPT !.mtu_min = 0, !.mtu_max = 0]}

\* Evidence k refuses configuration c by a limit that evidence w does not
\* state: an absent bound on lanes, lower bound on MTUs, duplex or demand for
\* a transceiver limits nothing, and without modes and a bound one lane is
\* taken to be supported.
LimitIsGone(c, k, w) ==
  \/ w.max_lanes = 0 /\ k.max_lanes # 0 /\ c.lanes > k.max_lanes
  \/ w.max_lanes = 0 /\ w.lane_modes = << >> /\ c.lanes = 1 /\ ~SupportsLanes(k, 1)
  \/ w.mtu_min = 0 /\ c.mtu < k.mtu_min
  \/ w.duplex = "Unknown" /\ k.duplex \notin {"Unknown", c.duplex}
  \/ ~w.transceiver_required /\ k.transceiver_required /\ k.transceiver_class = ""

\* What new evidence has to be held against: the configuration of the port,
\* and before there is one the configurations that may be requested.
Candidates == IF port.configured THEN {port.configuration} ELSE Requests

\* Whatever is missing from the evidence a port is bound to, a configuration
\* becomes acceptable by it only if it was refused by the limit that is
\* missing: what is missing is never taken for support of a rate, a mode, a
\* protocol, a breakout, a logical interface or an MTU (supports_speed ...
\* supports_protocol, validate_against_capabilities).  That a missing limit
\* limits nothing is at odds with capability.hpp:26-27.
LessEvidenceLiftsOnlyLimits ==
  [][port.capability # port'.capability /\ port'.capability.present =>
       LET k == port'.capability.capabilities
       IN \A w \in Weakened(k), c \in Candidates' :
            Accepts(c, [port'.capability EXCEPT !.capabilities = w])
              => Accepts(c, port'.capability) \/ LimitIsGone(c, k, w)]_vars

\* A request is answered ALREADY_CURRENT only if the port is configured as
\* requested: the rendering of rates the comparison uses tells rates apart.
AlreadyCurrentIsTrue ==
  answer # NoAnswer =>
    /\ answer.submitted.speed_rate = answer.committed.speed_rate
    /\ answer.submitted.per_lane = answer.committed.per_lane
    /\ Parse(Render(answer.submitted.per_lane)) = answer.submitted.per_lane
    /\ answer.submitted.mtu = answer.committed.mtu

\* A profile generation keeps its content: what is defined is newer than all
\* there is of its identifier, and a restart brings back what was defined up
\* to some moment before.
Extends(larger, smaller) ==
  /\ smaller \subseteq larger
  /\ \A p \in larger \ smaller, q \in smaller : p.id = q.id => q.generation < p.generation
GenerationsAreImmutable ==
  [][\/ Extends(registry', registry)
     \/ restarts' # restarts /\ Extends(registry, registry')]_vars

\* The profiles of whatever was written can be defined again: the registry
\* accepts the generations of the container in the order load defines them.
ContainersLoad == container # Absent => Restorable(container.profiles)

\* A live port is bound to a profile generation that is defined, although the
\* container may hold a port whose profile was defined after the profiles had
\* been gathered: reconciliation looks the profile up before it trusts the
\* recovered configuration again.
BoundProfilesAreDefined == Live => IsDefined(port.configuration)
=============================================================================
