----------------------------- MODULE Admission -----------------------------
(***************************************************************************)
(* What a mutation request is (request.hpp, authority.hpp) and the gates   *)
(* execute_mutation puts it through: pure functions of the request, of the *)
(* record snapshot and of the generations read for it.  Each one is the    *)
(* outcome code of the first check that rejects, "OK" when none does.      *)
(***************************************************************************)
EXTENDS PortRecord

CONSTANTS
  Ports,             \* the bound ports
  Requests,          \* the mutation requests clients may send
  RequireOwnership,  \* config.require_ownership
  AdapterPolicy,     \* config.adapter_policy
  ProviderBindings,  \* what the capability provider may answer
  InitialRecord,     \* the record of a port when the behaviour starts
  NoDigest           \* the payload digest of that record

NoBinding == [generation |-> 0, evidence |-> 0, supports |-> {}]

\* The envelope every request carries; an expectation of 0 is not stated.
WellFormedRequest(r) ==
  /\ r.port \in Ports /\ r.kind \in MutationKinds
  /\ r.publisher \in Publishers /\ r.boot \in Boots /\ r.epoch \in Nat
  /\ r.attempt \in Attempts /\ WellFormedArg(r)
  /\ r.expConfiguration \in Nat /\ r.expCapability \in Nat
  /\ r.expOwnership \in Nat /\ r.expTopology \in Nat /\ r.expDevice \in Nat

PortRecords ==
  [lifecycle: PortLifecycles, configuration: Configurations \cup {NoConfiguration},
   generations: GenerationVectors, capability: Bindings,
   ownership: Ownerships \cup {NoOwner}, applied: AppliedEvidences,
   drift: DriftStates, attempt: Attempts \cup {InitialAttempt},
   digest: {PayloadDigest(r) : r \in Requests} \cup {NoDigest}]

ASSUME AdmissionAssumption ==
  /\ \A r \in Requests : WellFormedRequest(r)
  /\ RequireOwnership \in BOOLEAN
  /\ AdapterPolicy \in {"DesiredStateOnly", "Apply", "ApplyAndVerify"}
  /\ ProviderBindings \subseteq Bindings /\ ProviderBindings # {}
  /\ InitialRecord \in PortRecords /\ InitialRecord.attempt = InitialAttempt
  /\ NoConfiguration \notin Configurations
  /\ NoOwner \notin Ownerships
  /\ NoDelegate \notin Delegates

\* A behaviour starts from a record bind_port made or a mutation left behind.
ASSUME InitialRecordAssumption == ValidRecord(InitialRecord) /\ SupportedRecord(InitialRecord)

-----------------------------------------------------------------------------

\* Retired ports and repeated attempts answer from the snapshot alone.
SnapshotOutcome(rec, r) ==
  IF rec.lifecycle = "RETIRED"
    THEN IF r.kind = "Retire" THEN "ALREADY_CURRENT" ELSE "PORT_RETIRED"
  ELSE IF rec.attempt = r.attempt
    THEN IF rec.digest = PayloadDigest(r) THEN "IDEMPOTENT" ELSE "CONFLICT_DETECTED"
  ELSE "OK"

\* Mutant of ExpectationOutcome: the expected configuration is not compared.
ExpectationIgnored(rec, r) ==
  IF r.expCapability # 0 /\ r.expCapability # rec.generations.capability
  THEN "STALE_CAPABILITY_GENERATION" ELSE "OK"

\* Stated generation expectations; a configuration expectation is required of
\* every mutation that produces a configuration generation.
ExpectationOutcome(rec, r) ==
  IF r.expCapability # 0 /\ r.expCapability # rec.generations.capability
    THEN "STALE_CAPABILITY_GENERATION"
  ELSE IF /\ r.kind \in ConfigurationKinds \/ r.expConfiguration # 0
          /\ r.expConfiguration # rec.generations.configuration
    THEN "STALE_CONFIGURATION_GENERATION"
  ELSE "OK"

\* The ownership gate: a claim is exempt, and transfer and release leave the
\* holder to their builder.
OwnershipOutcome(rec, r) ==
  IF ~RequireOwnership \/ r.kind = "ClaimOwnership" THEN "OK"
  ELSE IF rec.ownership = NoOwner
    THEN IF rec.configuration # NoConfiguration THEN "UNAUTHORIZED_OWNER" ELSE "OK"
  ELSE IF r.expOwnership # 0 /\ r.expOwnership # rec.generations.ownership
    THEN "STALE_OWNERSHIP_GENERATION"
  ELSE IF /\ r.kind \notin {"TransferOwnership", "ReleaseOwnership"}
          /\ ~HeldBy(rec.ownership, r)
    THEN "UNAUTHORIZED_OWNER"
  ELSE "OK"

\* A port bound to a replaced device generation accepts nothing but
\* reconciliation, supersession and retirement.
DeviceOutcome(in, r) ==
  IF r.kind \in FenceKinds \cup {"Reconcile"} \/ in.device = 0 THEN "OK"
  ELSE IF r.expDevice # 0 /\ r.expDevice # in.device THEN "STALE_DEVICE_GENERATION"
  ELSE IF in.device # in.current.generations.device THEN "STALE_DEVICE_GENERATION"
  ELSE "OK"

\* resolve_capabilities: bound evidence, or else what the provider answers.
ResolveCapabilities(rec, r) ==
  IF r.kind \notin ConfigurationKinds THEN {NoBinding}
  ELSE IF Present(rec.capability) THEN {rec.capability}
  ELSE ProviderBindings

PrepareOutcome(in, r) ==
  LET checks == <<ExpectationOutcome(in.current, r), OwnershipOutcome(in.current, r),
                  DeviceOutcome(in, r)>> IN
  IF checks[1] # "OK" THEN checks[1]
  ELSE IF checks[2] # "OK" THEN checks[2]
  ELSE IF checks[3] # "OK" THEN checks[3]
  ELSE IF r.kind \in ConfigurationKinds /\ ~Present(in.capability)
    THEN "CAPABILITY_UNAVAILABLE"
  ELSE PlanFailure(in, r)

-----------------------------------------------------------------------------
(* What a request may do to a record, as one step. *)

\* What a plan may be committed as once its device apply, if any, settled.
SettledResults(next, r) ==
  IF ~RequiresApply(r) THEN {next}
  ELSE IF AdapterPolicy = "DesiredStateOnly" THEN {Settled(next, "NOT_ATTEMPTED")}
  ELSE {Settled(next, applied) : applied \in {"APPLIED", "UNSUPPORTED", "VERIFIED"}}

\* The records a request may turn rec into: none when a gate rejects it.
Results(rec, r, topology, device) ==
  LET Input(capability) == [current |-> rec, topology |-> topology, device |-> device,
                            capability |-> capability]
      admitting == {capability \in ResolveCapabilities(rec, r) :
                      /\ SnapshotOutcome(rec, r) = "OK"
                      /\ PrepareOutcome(Input(capability), r) = "OK"}
  IN  UNION {SettledResults(Planned(Input(capability), r), r) : capability \in admitting}

\* An adapter is asked to apply, and it may lose track of what the device did.
MayEndInDoubt(r) == RequiresApply(r) /\ AdapterPolicy # "DesiredStateOnly"

=============================================================================
