----------------------------- MODULE PortRecord -----------------------------
(***************************************************************************)
(* The authoritative record of one port (record.hpp) and the mutation      *)
(* builders of engine_mutation.cpp.  A builder is a pure function of the   *)
(* record a request was validated against and of the request: here it is   *)
(* a pair of operators, XFailure (the outcome code of the first guard that *)
(* rejects, "OK" when none does) and XNext (the record it proposes).       *)
(*                                                                         *)
(* A generation is a natural number and 0 is the null generation.  The     *)
(* dimensions of a configuration (speed, lanes, MTU, FEC...) are one value *)
(* of Payloads; capability evidence is the set of payloads it supports.    *)
(***************************************************************************)
EXTENDS Naturals, PortLifecycle, Identities

CONSTANTS
  Payloads,         \* configuration dimensions
  ValidPayloads,    \* those that PortConfiguration::validate accepts
  Profiles,         \* profile generations a request may name
  DefinedProfiles,  \* those the profile registry holds
  Overlay,          \* Overlay[f][d]: dimensions d after profile f is applied
  NoProfile, NoConfiguration, NoOwner, NoDelegate   \* absent values

ASSUME PortRecordAssumption ==
  /\ ValidPayloads \subseteq Payloads
  /\ DefinedProfiles \subseteq Profiles
  /\ NoProfile \notin Profiles
  /\ Overlay \in [DefinedProfiles -> [Payloads -> Payloads]]

-----------------------------------------------------------------------------
(* Record types. *)

Configurations ==
  [payload: Payloads, administrative: AdministrativeStates,
   profile: Profiles \cup {NoProfile}, provenance: Publishers,
   generation: Nat, device: Nat, topology: Nat, capability: Nat]

Bindings == [generation: Nat, evidence: Nat, supports: SUBSET Payloads]

Ownerships == [publisher: Publishers, boot: Boots, epoch: Nat, exclusive: BOOLEAN]

AppliedOutcomes ==
  {"NOT_ATTEMPTED", "APPLIED", "APPLY_FAILED", "OUTCOME_UNKNOWN", "VERIFIED", "UNSUPPORTED"}

AppliedEvidences == [outcome: AppliedOutcomes, generation: Nat, verified: BOOLEAN]

DriftStates == {"UNKNOWN", "IN_SYNC", "DRIFTED", "REVALIDATION_REQUIRED", "CONFLICTED"}

GenerationVectors ==
  [configuration: Nat, administrative: Nat, ownership: Nat, capability: Nat,
   device: Nat, lifecycle: Nat, evidence: Nat]

Delegates == [publisher: Publishers, boot: Boots]

\* What a request of each kind carries besides its envelope.
ConfigurationArgs ==
  [payload: Payloads, administrative: AdministrativeStates \cup {"UNKNOWN"},
   profile: Profiles \cup {NoProfile}]
AdministrativeArgs == [op: AdministrativeOps]
ProfileArgs == [profile: Profiles \cup {NoProfile}]   \* NoProfile: release
OwnershipArgs == [exclusive: BOOLEAN, delegate: Delegates \cup {NoDelegate}]
DriftArgs == [observed: DriftStates]

ConfigurationKinds == {"Configure", "Reconfigure", "AssignProfile", "Reconcile"}
OwnershipKinds == {"ClaimOwnership", "TransferOwnership", "ReleaseOwnership"}
FenceKinds == {"Supersede", "Retire"}
MutationKinds ==
  ConfigurationKinds \cup OwnershipKinds \cup FenceKinds \cup
    {"Administrative", "BindCapabilities", "RecordAppliedEvidence", "ObserveExternalState"}

\* The argument a well-formed request of its kind carries.
WellFormedArg(r) ==
  /\ r.kind \in {"Configure", "Reconfigure"} => r.arg \in ConfigurationArgs
  /\ r.kind = "Administrative" => r.arg \in AdministrativeArgs
  /\ r.kind = "AssignProfile" => r.arg \in ProfileArgs
  /\ r.kind = "BindCapabilities" => r.arg \in Bindings
  /\ r.kind \in OwnershipKinds => r.arg \in OwnershipArgs
  /\ r.kind = "RecordAppliedEvidence" => r.arg \in AppliedEvidences
  /\ r.kind = "ObserveExternalState" => r.arg \in DriftArgs

\* What the attempt identity is compared on: the payload text the public
\* operations digest.  A configuration payload does not name its kind, and an
\* ownership payload names neither the delegate nor exclusivity.
PayloadDigest(r) ==
  CASE r.kind \in {"Configure", "Reconfigure"} -> <<"CONFIGURATION", r.arg>>
    [] r.kind \in OwnershipKinds \cup FenceKinds \cup {"Reconcile"} -> <<r.kind>>
    [] r.kind = "BindCapabilities" -> <<r.kind, r.arg.generation, r.arg.supports>>
    [] r.kind = "RecordAppliedEvidence" -> <<r.kind, r.arg.outcome, r.arg.generation>>
    [] OTHER -> <<r.kind, r.arg>>

-----------------------------------------------------------------------------
(* Predicates and updates on a record. *)

Present(binding) == binding.generation # 0

NotAttempted(generation) ==
  [outcome |-> "NOT_ATTEMPTED", generation |-> generation, verified |-> FALSE]

HeldBy(ownership, r) ==
  /\ ownership # NoOwner
  /\ ownership.publisher = r.publisher
  /\ ownership.boot = r.boot
  /\ ownership.epoch = r.epoch

ValidConfiguration(c) ==
  /\ c.payload \in ValidPayloads
  /\ c.device # 0 /\ c.topology # 0 /\ c.generation # 0

\* PortRecord::validate
ValidRecord(rec) ==
  IF rec.configuration # NoConfiguration
  THEN /\ ValidConfiguration(rec.configuration)
       /\ rec.generations.configuration # 0 =>
            rec.configuration.generation = rec.generations.configuration
  ELSE rec.lifecycle \in {"UNCONFIGURED", "RETIRED", "SUPERSEDED"}

\* Mutants of Matches: one compared field forgotten.
MatchesGenerations(snap, rec) ==
  \A g \in {"configuration", "lifecycle", "administrative", "ownership", "evidence"} :
    rec.generations[g] = snap.generations[g]
MatchesButOwnership(snap, rec) ==
  /\ \A g \in {"configuration", "lifecycle", "administrative", "evidence"} :
       rec.generations[g] = snap.generations[g]
  /\ rec.attempt = snap.attempt

\* ExpectedState::matches: the commit compares these and no other field.
Matches(snap, rec) ==
  /\ rec.generations.configuration = snap.generations.configuration
  /\ rec.generations.lifecycle = snap.generations.lifecycle
  /\ rec.generations.administrative = snap.generations.administrative
  /\ rec.generations.ownership = snap.generations.ownership
  /\ rec.generations.evidence = snap.generations.evidence
  /\ rec.attempt = snap.attempt

\* rejection_for_fenced_state
RejectionForFencedState(lifecycle) ==
  CASE lifecycle = "RETIRED"               -> "PORT_RETIRED"
    [] lifecycle = "SUPERSEDED"            -> "PORT_SUPERSEDED"
    [] lifecycle = "REVALIDATION_REQUIRED" -> "REVALIDATION_REQUIRED"
    [] lifecycle = "CONFLICTED"            -> "CONFLICT_DETECTED"
    [] OTHER                               -> "INVALID_LIFECYCLE_TRANSITION"

WithLifecycle(rec, lifecycle) ==
  [rec EXCEPT !.lifecycle = lifecycle, !.generations.lifecycle = @ + 1]

\* A new configuration generation: it replaces the committed configuration,
\* carries the advanced generation and starts with no applied evidence.
WithConfiguration(rec, c) ==
  LET next == rec.generations.configuration + 1 IN
  [rec EXCEPT !.configuration = [c EXCEPT !.generation = next],
              !.generations.configuration = next,
              !.applied = NotAttempted(next)]

\* Mutant of ReleasedOwnership: the ownership generation does not advance.
ReleasedQuietly(rec) == [rec EXCEPT !.ownership = NoOwner]

ReleasedOwnership(rec) ==
  [rec EXCEPT !.ownership = NoOwner, !.generations.ownership = @ + 1]

-----------------------------------------------------------------------------
(* The builders.  in.current is the record the request was validated       *)
(* against, in.topology and in.device the generations read for it (device  *)
(* 0: not recorded), in.capability the resolved capability evidence.       *)

\* Mutant of Proposed: an unstated administrative state is not filled in.
ProposedAsSent(in, r) ==
  [payload |-> r.arg.payload, administrative |-> r.arg.administrative,
   profile |-> r.arg.profile, provenance |-> r.publisher, generation |-> 1,
   device |-> in.device, topology |-> in.topology, capability |-> in.capability.generation]

Proposed(in, r) ==
  [payload        |-> r.arg.payload,
   administrative |->
     IF r.arg.administrative # "UNKNOWN" THEN r.arg.administrative
     ELSE IF in.current.configuration = NoConfiguration THEN "ENABLED"
     ELSE in.current.configuration.administrative,
   profile        |-> r.arg.profile,
   provenance     |-> r.publisher,
   generation     |-> IF in.current.configuration = NoConfiguration
                      THEN 1 ELSE in.current.generations.configuration,
   device         |-> in.device,
   topology       |-> in.topology,
   capability     |-> in.capability.generation]

UnknownProfile(profile) == profile # NoProfile /\ profile \notin DefinedProfiles

ConfigureFailure(in, r) ==
  IF in.current.lifecycle # "UNCONFIGURED"
    THEN RejectionForFencedState(in.current.lifecycle)
  ELSE IF in.device = 0 THEN "UNKNOWN_DEVICE"
  ELSE IF ~Present(in.capability) THEN "CAPABILITY_UNAVAILABLE"
  ELSE IF r.arg.administrative = "REVALIDATION_REQUIRED" THEN "INVALID_CONFIGURATION"
  ELSE IF UnknownProfile(r.arg.profile) THEN "UNKNOWN_PROFILE"
  ELSE IF ~ValidConfiguration(Proposed(in, r)) THEN "INVALID_CONFIGURATION"
  ELSE "OK"

ConfigureNext(in, r) ==
  LET next == WithConfiguration(WithLifecycle(in.current, "CONFIGURED"), Proposed(in, r)) IN
  [next EXCEPT !.generations.administrative = @ + 1, !.drift = "UNKNOWN"]

ReconfigureFailure(in, r) ==
  IF in.current.configuration = NoConfiguration THEN "INVALID_LIFECYCLE_TRANSITION"
  ELSE IF ~IsLive(in.current.lifecycle) THEN RejectionForFencedState(in.current.lifecycle)
  ELSE IF ~Present(in.capability) THEN "CAPABILITY_UNAVAILABLE"
  ELSE IF Proposed(in, r).administrative # in.current.configuration.administrative
    THEN "INVALID_CONFIGURATION"
  ELSE IF UnknownProfile(r.arg.profile) THEN "UNKNOWN_PROFILE"
  ELSE IF ~ValidConfiguration(Proposed(in, r)) THEN "INVALID_CONFIGURATION"
  ELSE IF Proposed(in, r) = in.current.configuration THEN "ALREADY_CURRENT"
  ELSE "OK"

ReconfigureNext(in, r) ==
  WithConfiguration(WithLifecycle(in.current, in.current.lifecycle), Proposed(in, r))

AdministrativeFailure(in, r) ==
  LET transition == LifecycleTransitionFor(r.arg.op) IN
  IF in.current.configuration = NoConfiguration THEN "INVALID_LIFECYCLE_TRANSITION"
  ELSE IF ~IsLive(in.current.lifecycle) THEN RejectionForFencedState(in.current.lifecycle)
  ELSE IF ~TransitionAllowed(in.current.lifecycle, transition)
    THEN "INVALID_LIFECYCLE_TRANSITION"
  ELSE IF /\ in.current.configuration.administrative = AdministrativeTarget(r.arg.op)
          /\ in.current.lifecycle = TransitionResult(transition)
    THEN "ALREADY_CURRENT"
  ELSE "OK"

AdministrativeNext(in, r) ==
  LET target == AdministrativeTarget(r.arg.op)
      next   == WithLifecycle(in.current, TransitionResult(LifecycleTransitionFor(r.arg.op)))
  IN  [next EXCEPT !.configuration.administrative = target,
                   !.configuration.provenance = r.publisher,
                   !.generations.administrative = @ + 1,
                   !.drift = IF target = "REVALIDATION_REQUIRED" THEN target ELSE @]

\* The committed configuration under a profile (or without one), bound to the
\* generations that were read.
Reprofiled(in, r) ==
  LET c == in.current.configuration IN
  [c EXCEPT !.payload = IF r.arg.profile = NoProfile THEN @ ELSE Overlay[r.arg.profile][@],
            !.profile = r.arg.profile,
            !.provenance = r.publisher,
            !.device = in.device, !.topology = in.topology,
            !.capability = in.capability.generation]

AssignProfileFailure(in, r) ==
  IF in.current.configuration = NoConfiguration THEN "INVALID_LIFECYCLE_TRANSITION"
  ELSE IF ~IsLive(in.current.lifecycle) THEN RejectionForFencedState(in.current.lifecycle)
  ELSE IF r.arg.profile = NoProfile /\ in.current.configuration.profile = NoProfile
    THEN "ALREADY_CURRENT"
  ELSE IF UnknownProfile(r.arg.profile) THEN "UNKNOWN_PROFILE"
  ELSE IF ~ValidConfiguration(Reprofiled(in, r)) THEN "INVALID_PROFILE"
  ELSE IF Reprofiled(in, r) = in.current.configuration THEN "ALREADY_CURRENT"
  ELSE "OK"

AssignProfileNext(in, r) ==
  WithConfiguration(WithLifecycle(in.current, in.current.lifecycle), Reprofiled(in, r))

BindCapabilitiesFailure(in, r) ==
  IF r.arg.generation = 0 \/ r.arg.evidence = 0 THEN "MALFORMED_REQUEST"
  ELSE IF r.arg.generation < in.current.capability.generation
    THEN "STALE_CAPABILITY_GENERATION"
  ELSE IF r.arg.generation = in.current.capability.generation
    THEN IF r.arg.supports = in.current.capability.supports
         THEN "ALREADY_CURRENT" ELSE "CONFLICT_DETECTED"
  ELSE "OK"

\* Mutant of BindCapabilitiesNext: the committed configuration is grandfathered.
BindGrandfathered(in, r) ==
  [in.current EXCEPT !.capability = r.arg, !.generations.capability = r.arg.generation,
                     !.generations.evidence = r.arg.evidence, !.drift = "UNKNOWN"]

\* Evidence that no longer supports the committed configuration fences the port.
BindCapabilitiesNext(in, r) ==
  LET next == [in.current EXCEPT !.capability = r.arg,
                                 !.generations.capability = r.arg.generation,
                                 !.generations.evidence = r.arg.evidence] IN
  IF next.configuration = NoConfiguration THEN next
  ELSE IF next.configuration.payload \in r.arg.supports
    THEN [next EXCEPT !.drift = "UNKNOWN"]
  ELSE [WithLifecycle(next, "REVALIDATION_REQUIRED") EXCEPT !.drift = "REVALIDATION_REQUIRED"]

\* The committed configuration bound to the generations that were read.
Rebound(in, r) ==
  [in.current.configuration EXCEPT !.provenance = r.publisher,
     !.device = in.device, !.topology = in.topology, !.capability = in.capability.generation]

ReconcileFailure(in, r) ==
  LET c == in.current.configuration IN
  IF c = NoConfiguration THEN "INVALID_LIFECYCLE_TRANSITION"
  ELSE IF in.device = 0 THEN "UNKNOWN_DEVICE"
  ELSE IF ~Present(in.capability) THEN "CAPABILITY_UNAVAILABLE"
  ELSE IF UnknownProfile(c.profile) THEN "UNKNOWN_PROFILE"
  ELSE IF ~ValidConfiguration(Rebound(in, r)) THEN "INVALID_CONFIGURATION"
  ELSE IF /\ ~RequiresReconciliation(in.current.lifecycle)
          /\ in.current.drift \notin {"DRIFTED", "REVALIDATION_REQUIRED"}
          /\ <<c.device, c.topology, c.capability>> =
               <<in.device, in.topology, in.capability.generation>>
    THEN "ALREADY_CURRENT"
  ELSE "OK"

ReconcileNext(in, r) ==
  [WithConfiguration(WithLifecycle(in.current, "CONFIGURED"), Rebound(in, r))
     EXCEPT !.drift = "UNKNOWN"]

FenceFailure(in, r) ==
  IF in.current.lifecycle = "SUPERSEDED" /\ r.kind = "Supersede" THEN "ALREADY_CURRENT"
  ELSE IF ~TransitionAllowed(in.current.lifecycle, r.kind)
    THEN RejectionForFencedState(in.current.lifecycle)
  ELSE "OK"

FenceNext(in, r) ==
  LET next == [WithLifecycle(in.current, TransitionResult(r.kind)) EXCEPT
                 !.applied.verified = FALSE] IN
  IF r.kind = "Retire" /\ next.ownership # NoOwner THEN ReleasedOwnership(next) ELSE next

OwnershipFailure(in, r) ==
  LET owner == in.current.ownership IN
  IF r.kind = "ClaimOwnership" THEN
    IF HeldBy(owner, r) THEN "ALREADY_CURRENT"
    ELSE IF owner # NoOwner /\ owner.exclusive THEN "OWNERSHIP_CONFLICT"
    ELSE IF r.arg.delegate # NoDelegate THEN "MALFORMED_REQUEST"
    ELSE "OK"
  ELSE IF owner = NoOwner THEN
    IF r.kind = "ReleaseOwnership" THEN "ALREADY_CURRENT" ELSE "UNKNOWN_OWNERSHIP"
  ELSE IF ~HeldBy(owner, r) THEN "UNAUTHORIZED_OWNER"
  ELSE "OK"

OwnershipNext(in, r) ==
  IF r.kind = "ReleaseOwnership" THEN ReleasedOwnership(in.current)
  ELSE [in.current EXCEPT
          !.generations.ownership = @ + 1,
          !.ownership =
            [publisher |-> IF r.arg.delegate = NoDelegate
                           THEN r.publisher ELSE r.arg.delegate.publisher,
             boot      |-> IF r.arg.delegate = NoDelegate
                           THEN r.boot ELSE r.arg.delegate.boot,
             epoch     |-> r.epoch,
             exclusive |-> r.arg.exclusive]]

AppliedEvidenceFailure(in, r) ==
  IF in.current.configuration = NoConfiguration THEN "INVALID_LIFECYCLE_TRANSITION"
  ELSE IF r.arg.generation # in.current.generations.configuration
    THEN "STALE_CONFIGURATION_GENERATION"
  ELSE IF in.current.applied = r.arg THEN "ALREADY_CURRENT"
  ELSE "OK"

DriftFor(outcome) ==
  CASE outcome = "VERIFIED"        -> "IN_SYNC"
    [] outcome = "APPLY_FAILED"    -> "DRIFTED"
    [] outcome = "OUTCOME_UNKNOWN" -> "REVALIDATION_REQUIRED"
    [] OTHER                       -> "UNKNOWN"

AppliedEvidenceNext(in, r) ==
  LET next == [in.current EXCEPT !.applied = r.arg, !.generations.evidence = @ + 1,
                                 !.drift = DriftFor(r.arg.outcome)] IN
  IF r.arg.outcome = "OUTCOME_UNKNOWN" /\ IsLive(next.lifecycle)
  THEN WithLifecycle(next, "REVALIDATION_REQUIRED") ELSE next

DriftFailure(in, r) ==
  IF in.current.drift = r.arg.observed THEN "ALREADY_CURRENT" ELSE "OK"

DriftNext(in, r) ==
  LET next == [in.current EXCEPT !.drift = r.arg.observed,
                                 !.applied.verified = @ \/ r.arg.observed = "IN_SYNC"] IN
  IF r.arg.observed = "REVALIDATION_REQUIRED" /\ IsLive(next.lifecycle)
    THEN WithLifecycle(next, "REVALIDATION_REQUIRED")
  ELSE IF r.arg.observed = "CONFLICTED" /\ TransitionAllowed(next.lifecycle, "Conflict")
    THEN WithLifecycle(next, "CONFLICTED")
  ELSE next

-----------------------------------------------------------------------------
(* What execute_mutation does with a builder. *)

BuildFailure(in, r) ==
  CASE r.kind = "Configure"             -> ConfigureFailure(in, r)
    [] r.kind = "Reconfigure"           -> ReconfigureFailure(in, r)
    [] r.kind = "Administrative"        -> AdministrativeFailure(in, r)
    [] r.kind = "AssignProfile"         -> AssignProfileFailure(in, r)
    [] r.kind = "BindCapabilities"      -> BindCapabilitiesFailure(in, r)
    [] r.kind = "Reconcile"             -> ReconcileFailure(in, r)
    [] r.kind \in FenceKinds            -> FenceFailure(in, r)
    [] r.kind \in OwnershipKinds        -> OwnershipFailure(in, r)
    [] r.kind = "RecordAppliedEvidence" -> AppliedEvidenceFailure(in, r)
    [] r.kind = "ObserveExternalState"  -> DriftFailure(in, r)

BuildNext(in, r) ==
  CASE r.kind = "Configure"             -> ConfigureNext(in, r)
    [] r.kind = "Reconfigure"           -> ReconfigureNext(in, r)
    [] r.kind = "Administrative"        -> AdministrativeNext(in, r)
    [] r.kind = "AssignProfile"         -> AssignProfileNext(in, r)
    [] r.kind = "BindCapabilities"      -> BindCapabilitiesNext(in, r)
    [] r.kind = "Reconcile"             -> ReconcileNext(in, r)
    [] r.kind \in FenceKinds            -> FenceNext(in, r)
    [] r.kind \in OwnershipKinds        -> OwnershipNext(in, r)
    [] r.kind = "RecordAppliedEvidence" -> AppliedEvidenceNext(in, r)
    [] r.kind = "ObserveExternalState"  -> DriftNext(in, r)

\* The proposed record carries the attempt and payload it came from.
Planned(in, r) ==
  [BuildNext(in, r) EXCEPT !.attempt = r.attempt, !.digest = PayloadDigest(r)]

\* Mutant of PlanFailure: the proposed record is not validated.
PlanUnvalidated(in, r) == BuildFailure(in, r)

PlanFailure(in, r) ==
  LET failure == BuildFailure(in, r)
      next    == BuildNext(in, r)
  IN  IF failure # "OK" THEN failure
      ELSE IF ~ValidRecord(next) THEN "INVALID_CONFIGURATION"
      ELSE IF /\ r.kind \in ConfigurationKinds
              /\ next.configuration.payload \notin in.capability.supports
        THEN "UNSUPPORTED_CONFIGURATION"
      ELSE "OK"

RequiresApply(r) ==
  \/ r.kind \in ConfigurationKinds
  \/ r.kind = "Administrative" /\ r.arg.op # "RequireRevalidation"

\* A plan after its device apply settled: evidence advances, drift follows a
\* verified readback.
Settled(next, outcome) ==
  [next EXCEPT
     !.applied = [outcome |-> outcome, generation |-> next.generations.configuration,
                  verified |-> outcome = "VERIFIED"],
     !.generations.evidence = IF outcome = "NOT_ATTEMPTED" THEN @ ELSE @ + 1,
     !.drift = IF outcome = "VERIFIED" THEN "IN_SYNC" ELSE @]

\* Mutant of Uncertain: every lifecycle state is overwritten.
UncertainEverywhere(rec, generation) ==
  [WithLifecycle(rec, "REVALIDATION_REQUIRED") EXCEPT
     !.applied = [outcome |-> "OUTCOME_UNKNOWN", generation |-> generation, verified |-> FALSE],
     !.generations.evidence = @ + 1, !.drift = "REVALIDATION_REQUIRED"]

\* record_apply_uncertainty: the device may hold a configuration that was
\* never committed, whatever the record is by now.
Uncertain(rec, generation) ==
  LET next == [rec EXCEPT
        !.applied = [outcome |-> "OUTCOME_UNKNOWN", generation |-> generation,
                     verified |-> FALSE],
        !.generations.evidence = @ + 1,
        !.drift = "REVALIDATION_REQUIRED"] IN
  IF rec.lifecycle \in {"RETIRED", "SUPERSEDED"} THEN next
  ELSE WithLifecycle(next, "REVALIDATION_REQUIRED")

-----------------------------------------------------------------------------
(* What is asked of a record, and of the record that replaces it. *)

\* A live port is configured, and as its bound capability evidence supports;
\* the capability generation is the one of that evidence.
SupportedRecord(rec) ==
  /\ IsLive(rec.lifecycle) =>
       /\ rec.configuration # NoConfiguration
       /\ Present(rec.capability) => rec.configuration.payload \in rec.capability.supports
  /\ rec.generations.capability = rec.capability.generation

\* The table of README section 9: no generation goes back (the evidence
\* generation is the exception), and what a generation counts never changes
\* without it.
Advances(rec, next) ==
  LET before == rec.generations
      after  == next.generations
      Dimensions(c) == <<c.payload, c.profile, c.device, c.topology, c.capability>>
  IN  /\ before.configuration <= after.configuration
      /\ before.administrative <= after.administrative
      /\ before.ownership <= after.ownership
      /\ before.capability <= after.capability
      /\ before.lifecycle <= after.lifecycle
      /\ rec.ownership # next.ownership => before.ownership < after.ownership
      /\ rec.lifecycle # next.lifecycle => before.lifecycle < after.lifecycle
      /\ rec.capability # next.capability => before.capability < after.capability
      /\ rec.configuration # NoConfiguration =>
           /\ next.configuration # NoConfiguration
           /\ Dimensions(rec.configuration) # Dimensions(next.configuration) =>
                before.configuration < after.configuration
           /\ rec.configuration.administrative # next.configuration.administrative =>
                before.administrative < after.administrative

=============================================================================
