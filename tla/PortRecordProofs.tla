-------------------------- MODULE PortRecordProofs --------------------------
(***************************************************************************)
(* What the mutation builders preserve: applied to a record and a request  *)
(* it admits, each builder proposes a record again.                        *)
(***************************************************************************)
EXTENDS Admission, TLAPS

BuildInputs ==
  [current: PortRecords, topology: Nat, device: Nat, capability: Bindings]

-----------------------------------------------------------------------------
(* Updates of a record. *)

\* Every generation of a record is a natural number, and so is its successor.
LEMMA GenerationTypes ==
  ASSUME NEW rec \in PortRecords
  PROVE  /\ rec.generations \in GenerationVectors
         /\ \A g \in {"configuration", "administrative", "ownership", "capability",
                      "device", "lifecycle", "evidence"} : rec.generations[g] \in Nat
         /\ rec.generations.configuration + 1 \in Nat
         /\ rec.generations.administrative + 1 \in Nat
         /\ rec.generations.ownership + 1 \in Nat
         /\ rec.generations.lifecycle + 1 \in Nat
         /\ rec.generations.evidence + 1 \in Nat
BY DEF PortRecords, GenerationVectors

\* advance_lifecycle keeps a record well formed and leaves its configuration alone.
LEMMA WithLifecycleType ==
  ASSUME NEW rec \in PortRecords, NEW lifecycle \in PortLifecycles
  PROVE  /\ WithLifecycle(rec, lifecycle) \in PortRecords
         /\ WithLifecycle(rec, lifecycle).configuration = rec.configuration
         /\ WithLifecycle(rec, lifecycle).generations.configuration =
              rec.generations.configuration
BY GenerationTypes DEF WithLifecycle, PortRecords, GenerationVectors

\* Releasing the ownership of a port keeps its record well formed.
LEMMA ReleasedOwnershipType ==
  ASSUME NEW rec \in PortRecords
  PROVE  ReleasedOwnership(rec) \in PortRecords
BY GenerationTypes DEF ReleasedOwnership, PortRecords, GenerationVectors

\* Installing a configuration generation keeps a record well formed.
LEMMA WithConfigurationType ==
  ASSUME NEW rec \in PortRecords, NEW c \in Configurations
  PROVE  /\ WithConfiguration(rec, c) \in PortRecords
         /\ WithConfiguration(rec, c).configuration \in Configurations
<1> DEFINE next == rec.generations.configuration + 1
<1>1. next \in Nat
  BY DEF PortRecords, GenerationVectors
<1>2. [c EXCEPT !.generation = next] \in Configurations
  BY <1>1 DEF Configurations
<1>3. NotAttempted(next) \in AppliedEvidences
  BY <1>1 DEF NotAttempted, AppliedEvidences, AppliedOutcomes
<1> QED
  BY <1>1, <1>2, <1>3 DEF WithConfiguration, PortRecords, GenerationVectors

\* Recording applied evidence keeps a record well formed.
LEMMA EvidenceUpdateType ==
  ASSUME NEW rec \in PortRecords, NEW evidence \in AppliedEvidences, NEW drift \in DriftStates
  PROVE  [rec EXCEPT !.applied = evidence, !.generations.evidence = @ + 1, !.drift = drift]
           \in PortRecords
BY GenerationTypes DEF PortRecords, GenerationVectors

\* Binding capability evidence keeps a record well formed.
LEMMA RebindType ==
  ASSUME NEW rec \in PortRecords, NEW binding \in Bindings
  PROVE  [rec EXCEPT !.capability = binding, !.generations.capability = binding.generation,
                     !.generations.evidence = binding.evidence] \in PortRecords
<1>1. binding.generation \in Nat /\ binding.evidence \in Nat
  BY DEF Bindings
<1> QED
  BY <1>1 DEF PortRecords, GenerationVectors

\* record_apply_uncertainty keeps a record well formed.
LEMMA UncertainType ==
  ASSUME NEW rec \in PortRecords, NEW generation \in Nat
  PROVE  Uncertain(rec, generation) \in PortRecords
<1> DEFINE evidence == [outcome |-> "OUTCOME_UNKNOWN", generation |-> generation,
                        verified |-> FALSE]
           next == [rec EXCEPT !.applied = evidence, !.generations.evidence = @ + 1,
                               !.drift = "REVALIDATION_REQUIRED"]
<1>1. evidence \in AppliedEvidences
  BY DEF AppliedEvidences, AppliedOutcomes
<1>2. "REVALIDATION_REQUIRED" \in DriftStates /\ "REVALIDATION_REQUIRED" \in PortLifecycles
  BY DEF DriftStates, PortLifecycles
<1>3. next \in PortRecords
  <2> HIDE DEF evidence
  <2> QED BY <1>1, <1>2, EvidenceUpdateType
<1> QED
  BY <1>2, <1>3, WithLifecycleType DEF Uncertain

\* Settling an apply keeps a plan well formed and its configuration and attempt as they are.
LEMMA SettledType ==
  ASSUME NEW next \in PortRecords, NEW applied \in AppliedOutcomes
  PROVE  /\ Settled(next, applied) \in PortRecords
         /\ Settled(next, applied).configuration = next.configuration
         /\ Settled(next, applied).generations.configuration = next.generations.configuration
         /\ Settled(next, applied).attempt = next.attempt
<1> DEFINE evidence == [outcome |-> applied, generation |-> next.generations.configuration,
                        verified |-> applied = "VERIFIED"]
           advanced == IF applied = "NOT_ATTEMPTED" THEN next.generations.evidence
                       ELSE next.generations.evidence + 1
           drift == IF applied = "VERIFIED" THEN "IN_SYNC" ELSE next.drift
<1>1. evidence \in AppliedEvidences
  BY GenerationTypes DEF AppliedEvidences
<1>2. advanced \in Nat
  BY GenerationTypes
<1>3. drift \in DriftStates
  BY DEF PortRecords, DriftStates
<1> QED
  BY <1>1, <1>2, <1>3 DEF Settled, PortRecords, GenerationVectors

-----------------------------------------------------------------------------
(* The builders: what a builder that does not reject proposes is a record, *)
(* and a mutation that reaches the device proposes a configuration.        *)

\* What a builder reads, component by component.
LEMMA InputTypes ==
  ASSUME NEW in \in BuildInputs
  PROVE  /\ in.current \in PortRecords
         /\ in.current.configuration \in Configurations \cup {NoConfiguration}
         /\ in.topology \in Nat /\ in.device \in Nat /\ in.capability \in Bindings
         /\ in.capability.generation \in Nat
BY DEF BuildInputs, Bindings, PortRecords

\* What the envelope of a request carries, component by component.
LEMMA RequestTypes ==
  ASSUME NEW r \in Requests
  PROVE  /\ WellFormedArg(r) /\ r.kind \in MutationKinds
         /\ r.publisher \in Publishers /\ r.boot \in Boots /\ r.epoch \in Nat
         /\ r.attempt \in Attempts /\ r.port \in Ports
BY AdmissionAssumption DEF WellFormedRequest

\* The configuration build_configure and build_reconfigure propose is well formed.
LEMMA ProposedType ==
  ASSUME NEW in \in BuildInputs, NEW r \in Requests, r.kind \in {"Configure", "Reconfigure"}
  PROVE  Proposed(in, r) \in Configurations
<1>1. r.arg \in ConfigurationArgs
  BY RequestTypes DEF WellFormedArg
<1> DEFINE administrative == Proposed(in, r).administrative
           generation == Proposed(in, r).generation
<1>2. administrative \in AdministrativeStates
  <2>1. r.arg.administrative \in AdministrativeStates \cup {"UNKNOWN"}
    BY <1>1 DEF ConfigurationArgs
  <2>2. in.current.configuration # NoConfiguration =>
          in.current.configuration.administrative \in AdministrativeStates
    BY InputTypes DEF Configurations
  <2>3. "ENABLED" \in AdministrativeStates
    BY DEF AdministrativeStates
  <2> QED
    BY <2>1, <2>2, <2>3 DEF Proposed
<1>3. generation \in Nat
  BY InputTypes, GenerationTypes DEF Proposed
<1> QED
  BY <1>1, <1>2, <1>3, InputTypes, RequestTypes
  DEF Proposed, ConfigurationArgs, Configurations

\* build_configure proposes a well-formed record with a configuration.
LEMMA ConfigureType ==
  ASSUME NEW in \in BuildInputs, NEW r \in Requests, r.kind = "Configure"
  PROVE  /\ ConfigureNext(in, r) \in PortRecords
         /\ ConfigureNext(in, r).configuration \in Configurations
<1> DEFINE next == WithConfiguration(WithLifecycle(in.current, "CONFIGURED"), Proposed(in, r))
<1>1. next \in PortRecords /\ next.configuration \in Configurations
  BY InputTypes, ProposedType, WithLifecycleType, WithConfigurationType DEF PortLifecycles
<1>2. "UNKNOWN" \in DriftStates
  BY DEF DriftStates
<1>3. next.generations.administrative + 1 \in Nat
  BY <1>1, GenerationTypes
<1> DEFINE result == [next EXCEPT !.generations.administrative = @ + 1, !.drift = "UNKNOWN"]
<1>4. result \in PortRecords /\ result.configuration \in Configurations
  <2> HIDE DEF next
  <2> QED
    BY <1>1, <1>2, <1>3 DEF PortRecords, GenerationVectors
<1> QED
  BY <1>4 DEF ConfigureNext

\* build_reconfigure proposes a well-formed record with a configuration.
LEMMA ReconfigureType ==
  ASSUME NEW in \in BuildInputs, NEW r \in Requests, r.kind = "Reconfigure"
  PROVE  /\ ReconfigureNext(in, r) \in PortRecords
         /\ ReconfigureNext(in, r).configuration \in Configurations
<1>1. in.current.lifecycle \in PortLifecycles
  BY InputTypes DEF PortRecords
<1> QED
  BY <1>1, InputTypes, ProposedType, WithLifecycleType, WithConfigurationType
  DEF ReconfigureNext

\* build_administrative, when it admits a request, proposes a well-formed record.
LEMMA AdministrativeType ==
  ASSUME NEW in \in BuildInputs, NEW r \in Requests, r.kind = "Administrative",
         AdministrativeFailure(in, r) = "OK"
  PROVE  /\ AdministrativeNext(in, r) \in PortRecords
         /\ AdministrativeNext(in, r).configuration \in Configurations
<1> DEFINE target == AdministrativeTarget(r.arg.op)
           next == WithLifecycle(in.current, TransitionResult(LifecycleTransitionFor(r.arg.op)))
           drift == IF target = "REVALIDATION_REQUIRED" THEN target ELSE next.drift
<1>1. r.arg.op \in AdministrativeOps
  BY RequestTypes DEF WellFormedArg, AdministrativeArgs
<1>2. target \in AdministrativeStates
  BY <1>1 DEF AdministrativeOps, AdministrativeTarget, AdministrativeStates
<1>3. LifecycleTransitionFor(r.arg.op) \in
        {"Activate", "AdminDisable", "BeginDrain", "EnterMaintenance", "RequireRevalidation"}
  BY <1>1 DEF AdministrativeOps, LifecycleTransitionFor
<1>4. TransitionResult(LifecycleTransitionFor(r.arg.op)) \in PortLifecycles
  BY <1>3 DEF TransitionResult, PortLifecycles
<1>5. in.current.configuration \in Configurations
  BY InputTypes DEF AdministrativeFailure
<1>6. next \in PortRecords /\ next.configuration \in Configurations
  BY <1>4, <1>5, InputTypes, WithLifecycleType
<1>7. drift \in DriftStates
  BY <1>6 DEF PortRecords, DriftStates
<1>8. [next.configuration EXCEPT !.administrative = target, !.provenance = r.publisher]
        \in Configurations
  BY <1>2, <1>6, RequestTypes DEF Configurations
<1>9. next.generations.administrative + 1 \in Nat
  BY <1>6, GenerationTypes
<1> DEFINE result == [next EXCEPT !.configuration.administrative = target,
                                  !.configuration.provenance = r.publisher,
                                  !.generations.administrative = @ + 1,
                                  !.drift = IF target = "REVALIDATION_REQUIRED" THEN target ELSE @]
<1>10. result \in PortRecords /\ result.configuration \in Configurations
  <2> HIDE DEF next, target
  <2> QED
    BY <1>6, <1>7, <1>8, <1>9 DEF PortRecords, GenerationVectors
<1> QED
  BY <1>10 DEF AdministrativeNext

\* The configuration build_assign_profile proposes is well formed.
LEMMA ReprofiledType ==
  ASSUME NEW in \in BuildInputs, NEW r \in Requests, r.kind = "AssignProfile",
         AssignProfileFailure(in, r) = "OK"
  PROVE  Reprofiled(in, r) \in Configurations
<1>1. in.current.configuration \in Configurations
  BY InputTypes DEF AssignProfileFailure
<1>2. r.arg.profile = NoProfile \/ r.arg.profile \in DefinedProfiles
  BY DEF AssignProfileFailure, UnknownProfile, RejectionForFencedState
<1> DEFINE c == in.current.configuration
           payload == IF r.arg.profile = NoProfile THEN c.payload
                      ELSE Overlay[r.arg.profile][c.payload]
<1>3. payload \in Payloads /\ r.arg.profile \in Profiles \cup {NoProfile}
  BY <1>1, <1>2, PortRecordAssumption DEF Configurations
<1> QED
  BY <1>1, <1>3, InputTypes, RequestTypes DEF Reprofiled, Configurations

\* build_assign_profile, when it admits a request, proposes a well-formed record.
LEMMA AssignProfileType ==
  ASSUME NEW in \in BuildInputs, NEW r \in Requests, r.kind = "AssignProfile",
         AssignProfileFailure(in, r) = "OK"
  PROVE  /\ AssignProfileNext(in, r) \in PortRecords
         /\ AssignProfileNext(in, r).configuration \in Configurations
<1>1. in.current.lifecycle \in PortLifecycles
  BY InputTypes DEF PortRecords
<1> QED
  BY <1>1, ReprofiledType, InputTypes, WithLifecycleType, WithConfigurationType
  DEF AssignProfileNext

\* build_bind_capabilities proposes a well-formed record.
LEMMA BindCapabilitiesType ==
  ASSUME NEW in \in BuildInputs, NEW r \in Requests, r.kind = "BindCapabilities"
  PROVE  BindCapabilitiesNext(in, r) \in PortRecords
<1>1. r.arg \in Bindings
  BY RequestTypes DEF WellFormedArg
<1> DEFINE next == [in.current EXCEPT !.capability = r.arg,
                                      !.generations.capability = r.arg.generation,
                                      !.generations.evidence = r.arg.evidence]
<1>2. next \in PortRecords
  BY <1>1, InputTypes, RebindType
<1>3. "UNKNOWN" \in DriftStates /\ "REVALIDATION_REQUIRED" \in DriftStates
      /\ "REVALIDATION_REQUIRED" \in PortLifecycles
  BY DEF DriftStates, PortLifecycles
<1> DEFINE fenced == WithLifecycle(next, "REVALIDATION_REQUIRED")
<1>4. fenced \in PortRecords
  BY <1>2, <1>3, WithLifecycleType
<1>5. [next EXCEPT !.drift = "UNKNOWN"] \in PortRecords
  <2> HIDE DEF next
  <2> QED BY <1>2, <1>3 DEF PortRecords
<1>6. [fenced EXCEPT !.drift = "REVALIDATION_REQUIRED"] \in PortRecords
  <2> HIDE DEF fenced
  <2> QED BY <1>4, <1>3 DEF PortRecords
<1> QED
  BY <1>2, <1>5, <1>6 DEF BindCapabilitiesNext

\* build_reconcile, when it admits a request, proposes a well-formed record.
LEMMA ReconcileType ==
  ASSUME NEW in \in BuildInputs, NEW r \in Requests, ReconcileFailure(in, r) = "OK"
  PROVE  /\ ReconcileNext(in, r) \in PortRecords
         /\ ReconcileNext(in, r).configuration \in Configurations
<1>1. in.current.configuration \in Configurations
  BY InputTypes DEF ReconcileFailure
<1>2. Rebound(in, r) \in Configurations
  BY <1>1, InputTypes, RequestTypes DEF Rebound, Configurations
<1> DEFINE next == WithConfiguration(WithLifecycle(in.current, "CONFIGURED"), Rebound(in, r))
<1>3. next \in PortRecords /\ next.configuration \in Configurations
  BY <1>2, InputTypes, WithLifecycleType, WithConfigurationType DEF PortLifecycles
<1>4. /\ [next EXCEPT !.drift = "UNKNOWN"] \in PortRecords
      /\ [next EXCEPT !.drift = "UNKNOWN"].configuration \in Configurations
  <2> HIDE DEF next
  <2> QED BY <1>3 DEF PortRecords, DriftStates
<1> QED
  BY <1>4 DEF ReconcileNext

\* build_fence proposes a well-formed record.
LEMMA FenceType ==
  ASSUME NEW in \in BuildInputs, NEW r \in Requests, r.kind \in FenceKinds
  PROVE  FenceNext(in, r) \in PortRecords
<1>1. TransitionResult(r.kind) \in PortLifecycles
  BY DEF FenceKinds, TransitionResult, PortLifecycles
<1> DEFINE fenced == WithLifecycle(in.current, TransitionResult(r.kind))
           next == [fenced EXCEPT !.applied.verified = FALSE]
<1>2. fenced \in PortRecords
  BY <1>1, InputTypes, WithLifecycleType
<1>3. next \in PortRecords
  <2> HIDE DEF fenced
  <2> QED BY <1>2 DEF PortRecords, AppliedEvidences
<1> QED
  BY <1>3, ReleasedOwnershipType DEF FenceNext

\* build_ownership proposes a well-formed record.
LEMMA OwnershipType ==
  ASSUME NEW in \in BuildInputs, NEW r \in Requests, r.kind \in OwnershipKinds
  PROVE  OwnershipNext(in, r) \in PortRecords
<1>1. r.arg.exclusive \in BOOLEAN /\ r.arg.delegate \in Delegates \cup {NoDelegate}
  BY RequestTypes DEF WellFormedArg, OwnershipArgs
<1> DEFINE owner == [publisher |-> IF r.arg.delegate = NoDelegate
                                   THEN r.publisher ELSE r.arg.delegate.publisher,
                     boot      |-> IF r.arg.delegate = NoDelegate
                                   THEN r.boot ELSE r.arg.delegate.boot,
                     epoch     |-> r.epoch,
                     exclusive |-> r.arg.exclusive]
<1>2. owner \in Ownerships
  BY <1>1, RequestTypes DEF Ownerships, Delegates
<1>3. in.current.generations.ownership + 1 \in Nat
  BY InputTypes, GenerationTypes
<1>4. [in.current EXCEPT !.generations.ownership = @ + 1, !.ownership = owner] \in PortRecords
  <2> HIDE DEF owner
  <2> QED BY <1>2, <1>3, InputTypes DEF PortRecords, GenerationVectors
<1> QED
  BY <1>4, InputTypes, ReleasedOwnershipType DEF OwnershipNext

\* build_applied_evidence proposes a well-formed record.
LEMMA AppliedEvidenceType ==
  ASSUME NEW in \in BuildInputs, NEW r \in Requests, r.kind = "RecordAppliedEvidence"
  PROVE  AppliedEvidenceNext(in, r) \in PortRecords
<1>1. r.arg \in AppliedEvidences
  BY RequestTypes DEF WellFormedArg
<1>2. DriftFor(r.arg.outcome) \in DriftStates
  BY <1>1 DEF DriftFor, DriftStates
<1> DEFINE next == [in.current EXCEPT !.applied = r.arg, !.generations.evidence = @ + 1,
                                      !.drift = DriftFor(r.arg.outcome)]
<1>3. next \in PortRecords
  BY <1>1, <1>2, InputTypes, EvidenceUpdateType
<1> QED
  BY <1>3, WithLifecycleType DEF AppliedEvidenceNext, PortLifecycles

\* build_drift proposes a well-formed record.
LEMMA DriftType ==
  ASSUME NEW in \in BuildInputs, NEW r \in Requests, r.kind = "ObserveExternalState"
  PROVE  DriftNext(in, r) \in PortRecords
<1>1. r.arg.observed \in DriftStates
  BY RequestTypes DEF WellFormedArg, DriftArgs
<1>2. in.current.applied.verified \in BOOLEAN
  BY InputTypes DEF PortRecords, AppliedEvidences
<1> DEFINE verified == in.current.applied.verified \/ r.arg.observed = "IN_SYNC"
           next == [in.current EXCEPT !.drift = r.arg.observed, !.applied.verified = verified]
<1>3. verified \in BOOLEAN
  OBVIOUS
<1>4. next \in PortRecords
  <2> HIDE DEF verified
  <2> QED BY <1>1, <1>3, InputTypes DEF PortRecords, AppliedEvidences
<1>5. next = [in.current EXCEPT !.drift = r.arg.observed,
                                !.applied.verified = @ \/ r.arg.observed = "IN_SYNC"]
  OBVIOUS
<1> HIDE DEF next
<1> QED
  BY <1>4, <1>5, WithLifecycleType DEF DriftNext, PortLifecycles

\* Every builder that does not reject proposes a record.
LEMMA BuildType ==
  ASSUME NEW in \in BuildInputs, NEW r \in Requests, BuildFailure(in, r) = "OK"
  PROVE  /\ BuildNext(in, r) \in PortRecords
         /\ RequiresApply(r) => BuildNext(in, r).configuration \in Configurations
<1> USE DEF BuildFailure, BuildNext, RequiresApply, ConfigurationKinds, FenceKinds,
            OwnershipKinds
<1>1. CASE r.kind = "Configure"
  BY <1>1, ConfigureType
<1>2. CASE r.kind = "Reconfigure"
  BY <1>2, ReconfigureType
<1>3. CASE r.kind = "Administrative"
  BY <1>3, AdministrativeType
<1>4. CASE r.kind = "AssignProfile"
  BY <1>4, AssignProfileType
<1>5. CASE r.kind = "BindCapabilities"
  BY <1>5, BindCapabilitiesType
<1>6. CASE r.kind = "Reconcile"
  BY <1>6, ReconcileType
<1>7. CASE r.kind \in FenceKinds
  BY <1>7, FenceType
<1>8. CASE r.kind \in OwnershipKinds
  BY <1>8, OwnershipType
<1>9. CASE r.kind = "RecordAppliedEvidence"
  BY <1>9, AppliedEvidenceType
<1>10. CASE r.kind = "ObserveExternalState"
  BY <1>10, DriftType
<1> QED
  BY <1>1, <1>2, <1>3, <1>4, <1>5, <1>6, <1>7, <1>8, <1>9, <1>10, RequestTypes
  DEF MutationKinds

\* The plan of an admitted request is a record that carries the request's attempt.
LEMMA PlannedType ==
  ASSUME NEW in \in BuildInputs, NEW r \in Requests, PlanFailure(in, r) = "OK"
  PROVE  /\ Planned(in, r) \in PortRecords
         /\ Planned(in, r).attempt = r.attempt
         /\ RequiresApply(r) => Planned(in, r).configuration \in Configurations
<1>1. BuildFailure(in, r) = "OK"
  BY DEF PlanFailure
<1> DEFINE next == BuildNext(in, r)
<1>2. next \in PortRecords /\ (RequiresApply(r) => next.configuration \in Configurations)
  BY <1>1, BuildType
<1>3. r.attempt \in Attempts /\ PayloadDigest(r) \in {PayloadDigest(q) : q \in Requests}
  BY RequestTypes
<1> DEFINE result == [next EXCEPT !.attempt = r.attempt, !.digest = PayloadDigest(r)]
<1>4. /\ result \in PortRecords /\ result.attempt = r.attempt
      /\ RequiresApply(r) => result.configuration \in Configurations
  <2> HIDE DEF next
  <2> QED BY <1>2, <1>3 DEF PortRecords
<1> QED
  BY <1>4 DEF Planned

-----------------------------------------------------------------------------
(* What a mutation does to the record it was validated against.            *)

\* The generations and what they count go forward, the record stays supported,
\* a configuration mutation advances the configuration generation by one and
\* no other does, and only a first configuration and a reconciliation make a
\* port live that was not.
Develops(rec, r, next) ==
  /\ Advances(rec, next) /\ SupportedRecord(next)
  /\ next.generations.configuration =
       rec.generations.configuration + (IF r.kind \in ConfigurationKinds THEN 1 ELSE 0)
  /\ IsLive(next.lifecycle) =>
       \/ IsLive(rec.lifecycle)
       \/ r.kind = "Reconcile"
       \/ r.kind = "Configure" /\ rec.lifecycle = "UNCONFIGURED"

\* Two records that differ in what Develops does not look at.
SameState(a, b) ==
  /\ a.lifecycle = b.lifecycle /\ a.configuration = b.configuration
  /\ a.capability = b.capability /\ a.ownership = b.ownership
  /\ a.generations.configuration = b.generations.configuration
  /\ a.generations.administrative = b.generations.administrative
  /\ a.generations.ownership = b.generations.ownership
  /\ a.generations.capability = b.generations.capability
  /\ a.generations.lifecycle = b.generations.lifecycle

\* Develops looks at nothing else.
LEMMA DevelopsSame ==
  ASSUME NEW rec, NEW r, NEW a, NEW b, Develops(rec, r, a), SameState(a, b)
  PROVE  Develops(rec, r, b)
BY DEF Develops, SameState, Advances, SupportedRecord

\* Settling an apply changes evidence and drift alone.
LEMMA SettledSame ==
  ASSUME NEW next \in PortRecords, NEW applied
  PROVE  SameState(next, Settled(next, applied))
BY DEF SameState, Settled, PortRecords, GenerationVectors

\* A mutation that neither configures nor rebinds: the owner and the lifecycle
\* change with their generations, and the port does not become live.
LEMMA PlainDevelops ==
  ASSUME NEW rec \in PortRecords, NEW r, NEW next \in PortRecords, SupportedRecord(rec),
         r.kind \notin ConfigurationKinds,
         next.configuration = rec.configuration, next.capability = rec.capability,
         next.generations.configuration = rec.generations.configuration,
         next.generations.capability = rec.generations.capability,
         next.generations.administrative = rec.generations.administrative,
         \/ next.ownership = rec.ownership
            /\ next.generations.ownership = rec.generations.ownership
         \/ next.generations.ownership = rec.generations.ownership + 1,
         \/ next.lifecycle = rec.lifecycle
            /\ next.generations.lifecycle = rec.generations.lifecycle
         \/ ~IsLive(next.lifecycle)
            /\ next.generations.lifecycle = rec.generations.lifecycle + 1
  PROVE  Develops(rec, r, next)
<1>1. /\ rec.generations.configuration \in Nat /\ rec.generations.administrative \in Nat
      /\ rec.generations.ownership \in Nat /\ rec.generations.capability \in Nat
      /\ rec.generations.lifecycle \in Nat
  BY GenerationTypes
<1>2. Advances(rec, next)
  BY <1>1 DEF Advances
<1>3. SupportedRecord(next)
  BY DEF SupportedRecord
<1> QED BY <1>1, <1>2, <1>3 DEF Develops

\* A mutation that installs a configuration the capability evidence supports.
LEMMA ConfiguringDevelops ==
  ASSUME NEW rec \in PortRecords, NEW r, NEW next \in PortRecords, SupportedRecord(rec),
         r.kind \in ConfigurationKinds,
         \/ IsLive(rec.lifecycle)
         \/ r.kind = "Reconcile"
         \/ r.kind = "Configure" /\ rec.lifecycle = "UNCONFIGURED",
         next.configuration # NoConfiguration,
         Present(rec.capability) => next.configuration.payload \in rec.capability.supports,
         next.capability = rec.capability, next.ownership = rec.ownership,
         next.generations.configuration = rec.generations.configuration + 1,
         next.generations.lifecycle = rec.generations.lifecycle + 1,
         next.generations.ownership = rec.generations.ownership,
         next.generations.capability = rec.generations.capability,
         \/ next.generations.administrative = rec.generations.administrative + 1
         \/ /\ next.generations.administrative = rec.generations.administrative
            /\ rec.configuration # NoConfiguration
            /\ next.configuration.administrative = rec.configuration.administrative
  PROVE  Develops(rec, r, next)
<1>1. /\ rec.generations.configuration \in Nat /\ rec.generations.administrative \in Nat
      /\ rec.generations.ownership \in Nat /\ rec.generations.capability \in Nat
      /\ rec.generations.lifecycle \in Nat
  BY GenerationTypes
<1>2. Advances(rec, next)
  BY <1>1 DEF Advances
<1>3. SupportedRecord(next)
  BY DEF SupportedRecord
<1> QED BY <1>1, <1>2, <1>3 DEF Develops

\* advance_lifecycle changes the lifecycle and its generation alone.
LEMMA WithLifecycleFields ==
  ASSUME NEW rec \in PortRecords, NEW lifecycle
  PROVE  LET next == WithLifecycle(rec, lifecycle) IN
         /\ next.lifecycle = lifecycle
         /\ next.configuration = rec.configuration
         /\ next.capability = rec.capability /\ next.ownership = rec.ownership
         /\ next.generations.configuration = rec.generations.configuration
         /\ next.generations.lifecycle = rec.generations.lifecycle + 1
         /\ next.generations.administrative = rec.generations.administrative
         /\ next.generations.ownership = rec.generations.ownership
         /\ next.generations.capability = rec.generations.capability
BY DEF WithLifecycle, PortRecords, GenerationVectors

\* The fields of a record with a new lifecycle state and a new configuration.
LEMMA ConfiguredFields ==
  ASSUME NEW rec \in PortRecords, NEW lifecycle \in PortLifecycles, NEW c \in Configurations
  PROVE  LET next == WithConfiguration(WithLifecycle(rec, lifecycle), c) IN
         /\ next \in PortRecords
         /\ next.lifecycle = lifecycle
         /\ next.configuration # NoConfiguration
         /\ next.configuration.payload = c.payload
         /\ next.configuration.administrative = c.administrative
         /\ next.capability = rec.capability /\ next.ownership = rec.ownership
         /\ next.generations.configuration = rec.generations.configuration + 1
         /\ next.generations.lifecycle = rec.generations.lifecycle + 1
         /\ next.generations.administrative = rec.generations.administrative
         /\ next.generations.ownership = rec.generations.ownership
         /\ next.generations.capability = rec.generations.capability
<1> DEFINE base == WithLifecycle(rec, lifecycle)
           next == WithConfiguration(base, c)
<1>1. base \in PortRecords
  BY WithLifecycleType
<1>2. /\ base.lifecycle = lifecycle /\ base.capability = rec.capability
      /\ base.ownership = rec.ownership
      /\ base.generations.configuration = rec.generations.configuration
      /\ base.generations.lifecycle = rec.generations.lifecycle + 1
      /\ base.generations.administrative = rec.generations.administrative
      /\ base.generations.ownership = rec.generations.ownership
      /\ base.generations.capability = rec.generations.capability
  BY DEF WithLifecycle, PortRecords, GenerationVectors
<1>3. next \in PortRecords /\ next.configuration # NoConfiguration
  <2> HIDE DEF base
  <2> QED BY <1>1, WithConfigurationType, AdmissionAssumption
<1>4. /\ next.configuration.payload = c.payload
      /\ next.configuration.administrative = c.administrative
      /\ next.lifecycle = base.lifecycle /\ next.capability = base.capability
      /\ next.ownership = base.ownership
      /\ next.generations.configuration = base.generations.configuration + 1
      /\ next.generations.lifecycle = base.generations.lifecycle
      /\ next.generations.administrative = base.generations.administrative
      /\ next.generations.ownership = base.generations.ownership
      /\ next.generations.capability = base.generations.capability
  <2> HIDE DEF base
  <2> QED BY <1>1 DEF WithConfiguration, PortRecords, GenerationVectors, Configurations
<1> QED BY <1>2, <1>3, <1>4

\* A request that configures a port with bound evidence was resolved to it.
LEMMA ResolvedEvidence ==
  ASSUME NEW in, NEW r, in.capability \in ResolveCapabilities(in.current, r),
         r.kind \in ConfigurationKinds, Present(in.current.capability)
  PROVE  in.capability = in.current.capability
BY DEF ResolveCapabilities

\* The builders of configuration mutations: PlanFailure has checked that the
\* evidence supports what they install.
LEMMA ConfiguringBuilders ==
  ASSUME NEW in \in BuildInputs, NEW r \in Requests, r.kind \in ConfigurationKinds,
         BuildFailure(in, r) = "OK", SupportedRecord(in.current),
         in.capability \in ResolveCapabilities(in.current, r),
         BuildNext(in, r).configuration.payload \in in.capability.supports
  PROVE  Develops(in.current, r, BuildNext(in, r))
<1> DEFINE rec == in.current
<1>1. /\ rec \in PortRecords /\ rec.lifecycle \in PortLifecycles
      /\ "CONFIGURED" \in PortLifecycles
  BY InputTypes DEF PortRecords, PortLifecycles
<1>2. Present(rec.capability) => BuildNext(in, r).configuration.payload \in rec.capability.supports
  BY ResolvedEvidence
<1>3. CASE r.kind = "Configure"
  <2> DEFINE base == WithConfiguration(WithLifecycle(rec, "CONFIGURED"), Proposed(in, r))
             next == [base EXCEPT !.generations.administrative = @ + 1, !.drift = "UNKNOWN"]
  <2>1. BuildNext(in, r) = next /\ ConfigureFailure(in, r) = "OK" /\ next \in PortRecords
    <3>1. BuildNext(in, r) = ConfigureNext(in, r) /\ ConfigureFailure(in, r) = "OK"
      BY <1>3 DEF BuildNext, BuildFailure, FenceKinds, OwnershipKinds
    <3> QED BY <1>3, <3>1, ConfigureType DEF ConfigureNext
  <2>2. rec.lifecycle = "UNCONFIGURED"
    BY <2>1 DEF ConfigureFailure, RejectionForFencedState
  <2>3. Proposed(in, r) \in Configurations
    BY <1>3, ProposedType
  <2> HIDE DEF rec
  <2>4. /\ base \in PortRecords /\ base.configuration # NoConfiguration
        /\ base.capability = rec.capability /\ base.ownership = rec.ownership
        /\ base.generations.configuration = rec.generations.configuration + 1
        /\ base.generations.lifecycle = rec.generations.lifecycle + 1
        /\ base.generations.administrative = rec.generations.administrative
        /\ base.generations.ownership = rec.generations.ownership
        /\ base.generations.capability = rec.generations.capability
    BY <1>1, <2>3, ConfiguredFields
  <2> HIDE DEF base
  <2>5. /\ next.configuration # NoConfiguration
        /\ next.capability = rec.capability /\ next.ownership = rec.ownership
        /\ next.generations.configuration = rec.generations.configuration + 1
        /\ next.generations.lifecycle = rec.generations.lifecycle + 1
        /\ next.generations.administrative = rec.generations.administrative + 1
        /\ next.generations.ownership = rec.generations.ownership
        /\ next.generations.capability = rec.generations.capability
    BY <2>4 DEF PortRecords, GenerationVectors
  <2> HIDE DEF next
  <2>6. SupportedRecord(rec)
    BY DEF rec
  <2>7. Develops(rec, r, next)
    BY <1>1, <1>2, <1>3, <2>1, <2>2, <2>5, <2>6, ConfiguringDevelops
  <2> QED BY <2>1, <2>7 DEF rec
<1>4. ASSUME NEW lifecycle \in PortLifecycles, NEW c \in Configurations,
             \/ IsLive(rec.lifecycle)
             \/ r.kind = "Reconcile",
             rec.configuration # NoConfiguration,
             c.administrative = rec.configuration.administrative,
             SameState(WithConfiguration(WithLifecycle(rec, lifecycle), c), BuildNext(in, r)),
             BuildNext(in, r) \in PortRecords
      PROVE  Develops(rec, r, BuildNext(in, r))
  <2> DEFINE base == WithConfiguration(WithLifecycle(rec, lifecycle), c)
             next == BuildNext(in, r)
  <2>1. SupportedRecord(rec)
    OBVIOUS
  <2> HIDE DEF rec
  <2>2. /\ base.configuration # NoConfiguration
        /\ base.configuration.administrative = c.administrative
        /\ base.capability = rec.capability /\ base.ownership = rec.ownership
        /\ base.generations.configuration = rec.generations.configuration + 1
        /\ base.generations.lifecycle = rec.generations.lifecycle + 1
        /\ base.generations.administrative = rec.generations.administrative
        /\ base.generations.ownership = rec.generations.ownership
        /\ base.generations.capability = rec.generations.capability
    BY <1>1, ConfiguredFields
  <2>3. /\ next.configuration # NoConfiguration
        /\ next.configuration.administrative = rec.configuration.administrative
        /\ next.capability = rec.capability /\ next.ownership = rec.ownership
        /\ next.generations.configuration = rec.generations.configuration + 1
        /\ next.generations.lifecycle = rec.generations.lifecycle + 1
        /\ next.generations.administrative = rec.generations.administrative
        /\ next.generations.ownership = rec.generations.ownership
        /\ next.generations.capability = rec.generations.capability
    BY <1>4, <2>2 DEF SameState
  <2> HIDE DEF next
  <2>4. next \in PortRecords /\ (Present(rec.capability) => next.configuration.payload \in rec.capability.supports)
    BY <1>2, <1>4 DEF next
  <2>5. Develops(rec, r, next)
    BY <1>1, <1>4, <2>1, <2>3, <2>4, ConfiguringDevelops
  <2> QED BY <2>5 DEF next
<1>5. \A a : SameState(a, a)
  BY DEF SameState
<1>6. CASE r.kind = "Reconfigure"
  <2>1. /\ BuildNext(in, r) = WithConfiguration(WithLifecycle(rec, rec.lifecycle), Proposed(in, r))
        /\ ReconfigureFailure(in, r) = "OK" /\ BuildNext(in, r) \in PortRecords
    <3>1. BuildNext(in, r) = ReconfigureNext(in, r) /\ ReconfigureFailure(in, r) = "OK"
      BY <1>6 DEF BuildNext, BuildFailure, FenceKinds, OwnershipKinds
    <3> QED BY <1>6, <3>1, ReconfigureType DEF ReconfigureNext
  <2>2. /\ IsLive(rec.lifecycle) /\ rec.configuration # NoConfiguration
        /\ Proposed(in, r).administrative = rec.configuration.administrative
    BY <2>1 DEF ReconfigureFailure, RejectionForFencedState
  <2>3. Proposed(in, r) \in Configurations
    BY <1>6, ProposedType
  <2> HIDE DEF rec
  <2> QED BY <1>1, <1>4, <1>5, <2>1, <2>2, <2>3 DEF rec
<1>7. CASE r.kind = "AssignProfile"
  <2>1. /\ BuildNext(in, r) = WithConfiguration(WithLifecycle(rec, rec.lifecycle), Reprofiled(in, r))
        /\ AssignProfileFailure(in, r) = "OK" /\ BuildNext(in, r) \in PortRecords
    <3>1. BuildNext(in, r) = AssignProfileNext(in, r) /\ AssignProfileFailure(in, r) = "OK"
      BY <1>7 DEF BuildNext, BuildFailure, FenceKinds, OwnershipKinds
    <3> QED BY <1>7, <3>1, AssignProfileType DEF AssignProfileNext
  <2>2. IsLive(rec.lifecycle) /\ rec.configuration \in Configurations
        /\ rec.configuration # NoConfiguration
    BY <2>1, InputTypes DEF AssignProfileFailure, RejectionForFencedState
  <2>3. Reprofiled(in, r) \in Configurations
        /\ Reprofiled(in, r).administrative = rec.configuration.administrative
    BY <1>7, <2>1, <2>2, ReprofiledType DEF Reprofiled, Configurations
  <2> HIDE DEF rec
  <2> QED BY <1>1, <1>4, <1>5, <2>1, <2>2, <2>3 DEF rec
<1>8. CASE r.kind = "Reconcile"
  <2> DEFINE base == WithConfiguration(WithLifecycle(rec, "CONFIGURED"), Rebound(in, r))
             next == [base EXCEPT !.drift = "UNKNOWN"]
  <2>1. BuildNext(in, r) = next /\ ReconcileFailure(in, r) = "OK" /\ next \in PortRecords
    <3>1. BuildNext(in, r) = ReconcileNext(in, r) /\ ReconcileFailure(in, r) = "OK"
      BY <1>8 DEF BuildNext, BuildFailure, FenceKinds, OwnershipKinds
    <3> QED BY <1>8, <3>1, ReconcileType DEF ReconcileNext
  <2>2. rec.configuration \in Configurations /\ rec.configuration # NoConfiguration
    BY <2>1, InputTypes DEF ReconcileFailure
  <2>3. Rebound(in, r) \in Configurations
        /\ Rebound(in, r).administrative = rec.configuration.administrative
    BY <2>2, InputTypes, RequestTypes DEF Rebound, Configurations
  <2> HIDE DEF rec
  <2>4. base \in PortRecords
    BY <1>1, <2>3, ConfiguredFields
  <2>5. SameState(base, next)
    <3> HIDE DEF base
    <3> QED BY <2>4 DEF SameState, PortRecords
  <2> HIDE DEF next
  <2> QED BY <1>1, <1>4, <1>8, <2>1, <2>2, <2>3, <2>5 DEF rec
<1> QED BY <1>3, <1>6, <1>7, <1>8 DEF ConfigurationKinds

\* build_administrative moves a live port among the live states, or fences it,
\* and advances the administrative generation.
LEMMA AdministrativeDevelops ==
  ASSUME NEW in \in BuildInputs, NEW r \in Requests, r.kind = "Administrative",
         AdministrativeFailure(in, r) = "OK", SupportedRecord(in.current)
  PROVE  Develops(in.current, r, AdministrativeNext(in, r))
<1> DEFINE rec == in.current
           target == AdministrativeTarget(r.arg.op)
           base == WithLifecycle(rec, TransitionResult(LifecycleTransitionFor(r.arg.op)))
           next == [base EXCEPT !.configuration.administrative = target,
                                !.configuration.provenance = r.publisher,
                                !.generations.administrative = @ + 1,
                                !.drift = IF target = "REVALIDATION_REQUIRED" THEN target ELSE @]
<1>1. /\ rec \in PortRecords /\ SupportedRecord(rec) /\ IsLive(rec.lifecycle)
      /\ rec.configuration \in Configurations /\ rec.configuration # NoConfiguration
  BY InputTypes DEF AdministrativeFailure, RejectionForFencedState
<1>2. next = AdministrativeNext(in, r) /\ next \in PortRecords /\ next.configuration \in Configurations
  BY AdministrativeType DEF AdministrativeNext
<1>3. /\ rec.generations.configuration \in Nat /\ rec.generations.administrative \in Nat
      /\ rec.generations.ownership \in Nat /\ rec.generations.capability \in Nat
      /\ rec.generations.lifecycle \in Nat
  BY <1>1, GenerationTypes
<1> HIDE DEF rec, target
<1>4. /\ base.configuration = rec.configuration /\ base.capability = rec.capability
      /\ base.ownership = rec.ownership
      /\ base.generations.configuration = rec.generations.configuration
      /\ base.generations.lifecycle = rec.generations.lifecycle + 1
      /\ base.generations.administrative = rec.generations.administrative
      /\ base.generations.ownership = rec.generations.ownership
      /\ base.generations.capability = rec.generations.capability
      /\ DOMAIN base = DOMAIN rec /\ DOMAIN base.generations = DOMAIN rec.generations
  BY <1>1 DEF WithLifecycle, PortRecords, GenerationVectors
<1> HIDE DEF base
<1>5. /\ next.capability = rec.capability /\ next.ownership = rec.ownership
      /\ next.generations.configuration = rec.generations.configuration
      /\ next.generations.lifecycle = rec.generations.lifecycle + 1
      /\ next.generations.administrative = rec.generations.administrative + 1
      /\ next.generations.ownership = rec.generations.ownership
      /\ next.generations.capability = rec.generations.capability
      /\ next.configuration.payload = rec.configuration.payload
      /\ next.configuration.profile = rec.configuration.profile
      /\ next.configuration.device = rec.configuration.device
      /\ next.configuration.topology = rec.configuration.topology
      /\ next.configuration.capability = rec.configuration.capability
  BY <1>1, <1>4 DEF PortRecords, GenerationVectors, Configurations
<1> HIDE DEF next
<1>6. next.configuration # NoConfiguration
  BY <1>2, AdmissionAssumption
<1>7. Advances(rec, next)
  BY <1>3, <1>5, <1>6 DEF Advances
<1>8. SupportedRecord(next)
  BY <1>1, <1>5, <1>6 DEF SupportedRecord
<1>9. Develops(rec, r, next)
  BY <1>1, <1>3, <1>5, <1>7, <1>8 DEF Develops, ConfigurationKinds
<1> QED BY <1>2, <1>9 DEF rec

\* build_bind_capabilities takes newer evidence only, and fences a port whose
\* configuration it no longer supports.
LEMMA BindCapabilitiesDevelops ==
  ASSUME NEW in \in BuildInputs, NEW r \in Requests, r.kind = "BindCapabilities",
         BindCapabilitiesFailure(in, r) = "OK", SupportedRecord(in.current)
  PROVE  Develops(in.current, r, BindCapabilitiesNext(in, r))
<1> DEFINE rec == in.current
           base == [rec EXCEPT !.capability = r.arg, !.generations.capability = r.arg.generation,
                               !.generations.evidence = r.arg.evidence]
           fenced == WithLifecycle(base, "REVALIDATION_REQUIRED")
           next == BindCapabilitiesNext(in, r)
<1>1. rec \in PortRecords /\ r.arg \in Bindings /\ SupportedRecord(rec)
  BY InputTypes, RequestTypes DEF WellFormedArg
<1>2. /\ rec.capability.generation \in Nat /\ r.arg.generation \in Nat
      /\ rec.generations.configuration \in Nat /\ rec.generations.administrative \in Nat
      /\ rec.generations.ownership \in Nat /\ rec.generations.lifecycle \in Nat
      /\ rec.generations.capability \in Nat
  BY <1>1, GenerationTypes DEF PortRecords, Bindings
<1>3. rec.generations.capability < r.arg.generation
  BY <1>1, <1>2 DEF BindCapabilitiesFailure, SupportedRecord
<1>4. next = IF base.configuration = NoConfiguration THEN base
             ELSE IF base.configuration.payload \in r.arg.supports
               THEN [base EXCEPT !.drift = "UNKNOWN"]
             ELSE [fenced EXCEPT !.drift = "REVALIDATION_REQUIRED"]
  BY DEF BindCapabilitiesNext
<1> HIDE DEF rec, next
<1>5. /\ base \in PortRecords /\ fenced \in PortRecords
      /\ base.configuration = rec.configuration /\ base.capability = r.arg
      /\ base.ownership = rec.ownership /\ base.lifecycle = rec.lifecycle
      /\ base.generations.configuration = rec.generations.configuration
      /\ base.generations.lifecycle = rec.generations.lifecycle
      /\ base.generations.administrative = rec.generations.administrative
      /\ base.generations.ownership = rec.generations.ownership
      /\ base.generations.capability = r.arg.generation
  <2>1. base \in PortRecords
    BY <1>1, RebindType
  <2>2. fenced \in PortRecords
    BY <2>1, WithLifecycleType DEF PortLifecycles
  <2> QED BY <1>1, <2>1, <2>2 DEF PortRecords, GenerationVectors
<1> HIDE DEF base
<1>6. /\ fenced.configuration = base.configuration /\ fenced.capability = base.capability
      /\ fenced.ownership = base.ownership /\ fenced.lifecycle = "REVALIDATION_REQUIRED"
      /\ fenced.generations.configuration = base.generations.configuration
      /\ fenced.generations.lifecycle = base.generations.lifecycle + 1
      /\ fenced.generations.administrative = base.generations.administrative
      /\ fenced.generations.ownership = base.generations.ownership
      /\ fenced.generations.capability = base.generations.capability
  BY <1>5 DEF WithLifecycle, PortRecords, GenerationVectors
<1> HIDE DEF fenced
<1>7. /\ SameState(base, [base EXCEPT !.drift = "UNKNOWN"])
      /\ SameState(fenced, [fenced EXCEPT !.drift = "REVALIDATION_REQUIRED"])
  BY <1>5 DEF SameState, PortRecords
<1>8. ASSUME base.configuration # NoConfiguration => base.configuration.payload \in r.arg.supports
      PROVE  Develops(rec, r, base)
  <2>1. Advances(rec, base)
    BY <1>2, <1>3, <1>5 DEF Advances
  <2>2. SupportedRecord(base)
    BY <1>1, <1>5, <1>8 DEF SupportedRecord
  <2> QED BY <1>2, <1>5, <2>1, <2>2 DEF Develops, ConfigurationKinds
<1>9. Develops(rec, r, fenced)
  <2>1. Advances(rec, fenced)
    BY <1>2, <1>3, <1>5, <1>6 DEF Advances
  <2>2. SupportedRecord(fenced)
    BY <1>5, <1>6 DEF SupportedRecord, IsLive, LiveStates
  <2> QED BY <1>2, <1>5, <1>6, <2>1, <2>2 DEF Develops, ConfigurationKinds, IsLive, LiveStates
<1>10. Develops(rec, r, next)
  BY <1>4, <1>7, <1>8, <1>9, DevelopsSame
<1> QED BY <1>10 DEF rec, next

\* The builders that touch neither configuration nor evidence.
LEMMA PlainBuilders ==
  ASSUME NEW in \in BuildInputs, NEW r \in Requests, SupportedRecord(in.current),
         r.kind \in FenceKinds \cup OwnershipKinds
                    \cup {"RecordAppliedEvidence", "ObserveExternalState"}
  PROVE  Develops(in.current, r, BuildNext(in, r))
<1> DEFINE rec == in.current
<1>1. rec \in PortRecords /\ SupportedRecord(rec) /\ r.kind \notin ConfigurationKinds
  BY InputTypes DEF ConfigurationKinds, FenceKinds, OwnershipKinds
<1> USE DEF BuildNext, FenceKinds, OwnershipKinds
<1>2. CASE r.kind \in FenceKinds
  <2> DEFINE base == WithLifecycle(rec, TransitionResult(r.kind))
             marked == [base EXCEPT !.applied.verified = FALSE]
             next == FenceNext(in, r)
  <2>1. next = BuildNext(in, r) /\ next \in PortRecords
    BY <1>2, FenceType
  <2>2. next \in {marked, ReleasedOwnership(marked)}
    BY DEF FenceNext
  <2>3. ~IsLive(TransitionResult(r.kind)) /\ TransitionResult(r.kind) \in PortLifecycles
    BY <1>2 DEF TransitionResult, IsLive, LiveStates, PortLifecycles
  <2> HIDE DEF rec, next
  <2>4. /\ base \in PortRecords
        /\ base.configuration = rec.configuration /\ base.capability = rec.capability
        /\ base.ownership = rec.ownership /\ ~IsLive(base.lifecycle)
        /\ base.generations.configuration = rec.generations.configuration
        /\ base.generations.lifecycle = rec.generations.lifecycle + 1
        /\ base.generations.administrative = rec.generations.administrative
        /\ base.generations.ownership = rec.generations.ownership
        /\ base.generations.capability = rec.generations.capability
    BY <1>1, <2>3, WithLifecycleType, WithLifecycleFields
  <2> HIDE DEF base
  <2>5. SameState(base, marked) /\ marked \in PortRecords
    BY <2>4 DEF SameState, PortRecords, AppliedEvidences
  <2> HIDE DEF marked
  <2>6. LET released == ReleasedOwnership(marked) IN
        /\ released.configuration = marked.configuration
        /\ released.capability = marked.capability
        /\ released.lifecycle = marked.lifecycle
        /\ released.generations.configuration = marked.generations.configuration
        /\ released.generations.lifecycle = marked.generations.lifecycle
        /\ released.generations.administrative = marked.generations.administrative
        /\ released.generations.ownership = marked.generations.ownership + 1
        /\ released.generations.capability = marked.generations.capability
    BY <2>5 DEF ReleasedOwnership, PortRecords, GenerationVectors
  <2>7. /\ next.configuration = rec.configuration /\ next.capability = rec.capability
        /\ next.generations.configuration = rec.generations.configuration
        /\ next.generations.capability = rec.generations.capability
        /\ next.generations.administrative = rec.generations.administrative
        /\ \/ next.ownership = rec.ownership
              /\ next.generations.ownership = rec.generations.ownership
           \/ next.generations.ownership = rec.generations.ownership + 1
        /\ ~IsLive(next.lifecycle)
        /\ next.generations.lifecycle = rec.generations.lifecycle + 1
    BY <2>2, <2>4, <2>5, <2>6 DEF SameState
  <2>8. Develops(rec, r, next)
    BY <1>1, <2>1, <2>7, PlainDevelops
  <2> QED BY <2>1, <2>8 DEF rec
<1>3. CASE r.kind \in OwnershipKinds
  <2> DEFINE next == OwnershipNext(in, r)
  <2>1. next = BuildNext(in, r) /\ next \in PortRecords
    BY <1>3, OwnershipType
  <2>2. /\ next.configuration = rec.configuration /\ next.capability = rec.capability
        /\ next.generations.configuration = rec.generations.configuration
        /\ next.generations.capability = rec.generations.capability
        /\ next.generations.administrative = rec.generations.administrative
        /\ next.generations.ownership = rec.generations.ownership + 1
        /\ next.lifecycle = rec.lifecycle
        /\ next.generations.lifecycle = rec.generations.lifecycle
    BY <1>1 DEF OwnershipNext, ReleasedOwnership, PortRecords, GenerationVectors
  <2> HIDE DEF rec, next
  <2>3. Develops(rec, r, next)
    BY <1>1, <2>1, <2>2, PlainDevelops
  <2> QED BY <2>1, <2>3 DEF rec
<1>4. ASSUME NEW base \in PortRecords, SameState(rec, base), BuildNext(in, r) \in PortRecords,
             \/ BuildNext(in, r) = base
             \/ \E lifecycle \in PortLifecycles :
                  ~IsLive(lifecycle) /\ BuildNext(in, r) = WithLifecycle(base, lifecycle)
      PROVE  Develops(rec, r, BuildNext(in, r))
  <2> DEFINE next == BuildNext(in, r)
  <2>1. /\ next.configuration = base.configuration /\ next.capability = base.capability
        /\ next.ownership = base.ownership
        /\ next.generations.configuration = base.generations.configuration
        /\ next.generations.capability = base.generations.capability
        /\ next.generations.administrative = base.generations.administrative
        /\ next.generations.ownership = base.generations.ownership
        /\ \/ next.lifecycle = base.lifecycle
              /\ next.generations.lifecycle = base.generations.lifecycle
           \/ ~IsLive(next.lifecycle)
              /\ next.generations.lifecycle = base.generations.lifecycle + 1
    <3> HIDE DEF next
    <3>1. \/ next = base
          \/ \E lifecycle \in PortLifecycles :
               ~IsLive(lifecycle) /\ next = WithLifecycle(base, lifecycle)
      BY <1>4 DEF next
    <3> QED BY <1>4, <3>1, WithLifecycleFields
  <2> HIDE DEF rec, next
  <2>2. Develops(rec, r, next)
    BY <1>1, <1>4, <2>1, PlainDevelops DEF SameState, next
  <2> QED BY <2>2 DEF next
<1>5. CASE r.kind = "RecordAppliedEvidence"
  <2> DEFINE base == [rec EXCEPT !.applied = r.arg, !.generations.evidence = @ + 1,
                                 !.drift = DriftFor(r.arg.outcome)]
  <2>1. r.arg \in AppliedEvidences /\ DriftFor(r.arg.outcome) \in DriftStates
    BY <1>5, RequestTypes DEF WellFormedArg, DriftFor, DriftStates
  <2>2. base \in PortRecords
    BY <1>1, <2>1, EvidenceUpdateType
  <2>3. SameState(rec, base)
    <3> HIDE DEF rec
    <3> QED BY <1>1 DEF SameState, PortRecords, GenerationVectors
  <2>4. AppliedEvidenceNext(in, r) \in {base, WithLifecycle(base, "REVALIDATION_REQUIRED")}
    BY DEF AppliedEvidenceNext
  <2>5. BuildNext(in, r) = AppliedEvidenceNext(in, r) /\ BuildNext(in, r) \in PortRecords
    BY <1>5, AppliedEvidenceType
  <2>6. "REVALIDATION_REQUIRED" \in PortLifecycles /\ ~IsLive("REVALIDATION_REQUIRED")
    BY DEF PortLifecycles, IsLive, LiveStates
  <2> HIDE DEF base
  <2> QED BY <1>4, <2>2, <2>3, <2>4, <2>5, <2>6
<1>6. CASE r.kind = "ObserveExternalState"
  <2> DEFINE verified == rec.applied.verified \/ r.arg.observed = "IN_SYNC"
             base == [rec EXCEPT !.drift = r.arg.observed, !.applied.verified = verified]
  <2>1. r.arg.observed \in DriftStates /\ verified \in BOOLEAN
    BY <1>6, RequestTypes DEF WellFormedArg, DriftArgs
  <2>2. base \in PortRecords /\ SameState(rec, base)
    <3> HIDE DEF rec, verified
    <3> QED BY <1>1, <2>1 DEF SameState, PortRecords, AppliedEvidences
  <2>3. base = [rec EXCEPT !.drift = r.arg.observed,
                           !.applied.verified = @ \/ r.arg.observed = "IN_SYNC"]
    OBVIOUS
  <2> HIDE DEF base
  <2>4. DriftNext(in, r) \in {base, WithLifecycle(base, "REVALIDATION_REQUIRED"),
                              WithLifecycle(base, "CONFLICTED")}
    BY <2>3 DEF DriftNext
  <2>5. BuildNext(in, r) = DriftNext(in, r) /\ BuildNext(in, r) \in PortRecords
    BY <1>6, DriftType
  <2>6. {"REVALIDATION_REQUIRED", "CONFLICTED"} \subseteq PortLifecycles
        /\ ~IsLive("REVALIDATION_REQUIRED") /\ ~IsLive("CONFLICTED")
    BY DEF PortLifecycles, IsLive, LiveStates
  <2> QED BY <1>4, <2>2, <2>4, <2>5, <2>6
<1> QED BY <1>2, <1>3, <1>5, <1>6

\* What an admitted request proposes develops the record it was validated
\* against, and passes PortRecord::validate.
LEMMA PlannedDevelops ==
  ASSUME NEW in \in BuildInputs, NEW r \in Requests, PrepareOutcome(in, r) = "OK",
         in.capability \in ResolveCapabilities(in.current, r), SupportedRecord(in.current)
  PROVE  /\ Develops(in.current, r, Planned(in, r))
         /\ ValidRecord(Planned(in, r))
<1> DEFINE base == BuildNext(in, r)
           next == [base EXCEPT !.attempt = r.attempt, !.digest = PayloadDigest(r)]
<1>1. PlanFailure(in, r) = "OK"
  BY DEF PrepareOutcome
<1>2. /\ BuildFailure(in, r) = "OK" /\ ValidRecord(base)
      /\ r.kind \in ConfigurationKinds => base.configuration.payload \in in.capability.supports
  BY <1>1 DEF PlanFailure
<1>3. base \in PortRecords /\ next = Planned(in, r)
  BY <1>2, BuildType DEF Planned
<1>4. Develops(in.current, r, base)
  <2>1. CASE r.kind \in ConfigurationKinds
    BY <1>2, <2>1, ConfiguringBuilders
  <2>2. CASE r.kind = "Administrative"
    BY <1>2, <2>2, AdministrativeDevelops DEF BuildFailure, BuildNext, FenceKinds, OwnershipKinds
  <2>3. CASE r.kind = "BindCapabilities"
    BY <1>2, <2>3, BindCapabilitiesDevelops DEF BuildFailure, BuildNext, FenceKinds, OwnershipKinds
  <2> QED BY <2>1, <2>2, <2>3, PlainBuilders, RequestTypes DEF MutationKinds
<1> HIDE DEF base
<1>5. SameState(base, next) /\ next.lifecycle = base.lifecycle
  BY <1>3 DEF SameState, PortRecords
<1>6. ValidRecord(next)
  BY <1>2, <1>5 DEF ValidRecord, SameState
<1> QED BY <1>3, <1>4, <1>5, <1>6, DevelopsSame

\* A result is a plan that every gate admitted, settled or not.
LEMMA ResultsPlanned ==
  ASSUME NEW rec \in PortRecords, NEW r \in Requests, NEW top \in Nat, NEW dev \in Nat,
         NEW next \in Results(rec, r, top, dev)
  PROVE  \E in \in BuildInputs :
           /\ in.current = rec /\ in.capability \in ResolveCapabilities(rec, r)
           /\ PrepareOutcome(in, r) = "OK"
           /\ \/ next = Planned(in, r)
              \/ \E applied \in AppliedOutcomes : next = Settled(Planned(in, r), applied)
<1>1. PICK capability \in ResolveCapabilities(rec, r) :
        LET in == [current |-> rec, topology |-> top, device |-> dev,
                   capability |-> capability] IN
        PrepareOutcome(in, r) = "OK" /\ next \in SettledResults(Planned(in, r), r)
  BY DEF Results
<1> DEFINE in == [current |-> rec, topology |-> top, device |-> dev, capability |-> capability]
<1>2. capability \in Bindings
  <2>1. NoBinding \in Bindings
    BY DEF NoBinding, Bindings
  <2> QED BY <2>1, AdmissionAssumption DEF ResolveCapabilities, PortRecords
<1>3. in \in BuildInputs /\ in.current = rec /\ in.capability = capability
  BY <1>2 DEF BuildInputs
<1> HIDE DEF in
<1>4. \/ next = Planned(in, r)
      \/ \E applied \in AppliedOutcomes : next = Settled(Planned(in, r), applied)
  BY <1>1 DEF SettledResults, AppliedOutcomes, in
<1> QED BY <1>1, <1>3, <1>4 DEF in

=============================================================================
